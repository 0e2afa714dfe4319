--------------------------- MODULE MCWaitingRoom ---------------------------
(***************************************************************************)
(* Small instances of WaitingRoom.                                         *)
(***************************************************************************)
EXTENDS WaitingRoom, TLC

CONSTANTS t1, t2, b1, w1, w2

\* Two tabs of one browser.
MCBrowserOf == (t1 :> b1) @@ (t2 :> b1)

\* Every deployment but the buffer behind a challenge.
Separate == {d \in Deployment : ~(d.buffered /\ d.challenge)}
Combined == {[buffered |-> TRUE, challenge |-> TRUE]}

=============================================================================
