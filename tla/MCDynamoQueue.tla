--------------------------- MODULE MCDynamoQueue ---------------------------
(***************************************************************************)
(* Small instances of DynamoQueue.                                         *)
(***************************************************************************)
EXTENDS DynamoQueue, TLC

CONSTANTS c1, c2, c3, s1, s2, r1, r2, p1, p2

\* Both sessions count in one shard.
OneShard == [s \in Sessions |-> 0]

\* Two strangers.
TwoSession == (c1 :> s1) @@ (c2 :> s2)
TwoRequest == (c1 :> r1) @@ (c2 :> r2)

\* The first stranger's message is delivered again.
ThreeSession == (c1 :> s1) @@ (c2 :> s2) @@ (c3 :> s1)
ThreeRequest == (c1 :> r1) @@ (c2 :> r2) @@ (c3 :> r1)

\* Each client polls for its own visitor.
OwnPolls == (p1 :> r1) @@ (p2 :> r2)

\* Running, paused, or open to all.
Switching == {e \in EventItem : ~(e.paused /\ e.emergencyOpen)}
Opening == {e \in EventItem : ~e.paused}

=============================================================================
