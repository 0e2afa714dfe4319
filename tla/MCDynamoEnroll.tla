--------------------------- MODULE MCDynamoEnroll ---------------------------
(***************************************************************************)
(* Small instances of DynamoEnroll.                                        *)
(***************************************************************************)
EXTENDS DynamoEnroll, TLC

CONSTANTS c1, c2, c3, s1, s2, s3, r1, r2, r3

\* Strangers: three calls of three sessions, two of them on shard 0.
StrangersSession == (c1 :> s1) @@ (c2 :> s2) @@ (c3 :> s3)
StrangersRequest == (c1 :> r1) @@ (c2 :> r2) @@ (c3 :> r3)
StrangersShard == (s1 :> 0) @@ (s2 :> 0) @@ (s3 :> 1)

\* Again: the first session asks twice, with a request id of its own each time.
AgainSession == (c1 :> s1) @@ (c2 :> s2) @@ (c3 :> s1)

=============================================================================
