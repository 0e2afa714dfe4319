--------------------------- MODULE MCMemoryStore ---------------------------
(***************************************************************************)
(* Small instances of MemoryStore.                                         *)
(***************************************************************************)
EXTENDS MemoryStore, TLC

CONSTANTS s1, s2, s3, r1, r2, r3

\* Two sessions share shard 0.
MCShardOf == [s \in Sessions |-> IF s = s3 THEN 1 ELSE 0]

\* Request ids are UUIDs: which one is drawn makes no difference.
Symmetry == Permutations(RequestIds)

=============================================================================
