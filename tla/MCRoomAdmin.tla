---- MODULE MCRoomAdmin ----
(***************************************************************************)
(* Instances of RoomAdmin for TLC.                                         *)
(***************************************************************************)
EXTENDS RoomAdmin, TLC

\* Operators differ in nothing.
Symmetry == Permutations(Operators)
=============================================================================
