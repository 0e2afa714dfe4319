----------------------------- MODULE FairQueue -----------------------------
(***************************************************************************)
(* What is promised for one event where each operation on the queue is one *)
(* step: visitors join at the back of one dense line, keep their place for *)
(* ever, and are let in only up to the serving counter unless the operator *)
(* has opened the floodgates (emergency_open).  See TicketQueue for where  *)
(* operations overlap.                                                     *)
(***************************************************************************)
EXTENDS Naturals, FiniteSets

CONSTANT Visitors

VARIABLES
    position,   \* each visitor's place in line, 0 while it has not joined
    admitted,   \* the visitors that hold an admit token
    serving,    \* how far the line has been called
    floodgates  \* emergency_open

vars == <<position, admitted, serving, floodgates>>

Joined == {v \in Visitors : position[v] > 0}

Init ==
    /\ position = [v \in Visitors |-> 0]
    /\ admitted = {}
    /\ serving = 0
    /\ floodgates = FALSE

\* A new visitor takes the place behind everybody who has joined.
Join(v) ==
    /\ position[v] = 0
    /\ position' = [position EXCEPT ![v] = Cardinality(Joined) + 1]
    /\ UNCHANGED <<admitted, serving, floodgates>>

\* A visitor is let in when called, or at any place while the floodgates are
\* open; the serving counter never stays behind an admitted visitor.
Admit(v) ==
    /\ v \in Joined \ admitted
    /\ floodgates \/ position[v] <= serving
    /\ admitted' = admitted \cup {v}
    /\ serving' = IF position[v] > serving THEN position[v] ELSE serving
    /\ UNCHANGED <<position, floodgates>>

\* Every tick of the reaper calls at least one more place.
Advance ==
    /\ serving' \in Nat
    /\ serving' > serving
    /\ UNCHANGED <<position, admitted, floodgates>>

Operate ==
    /\ floodgates' \in BOOLEAN
    /\ UNCHANGED <<position, admitted, serving>>

Next ==
    \/ \E v \in Visitors : Join(v) \/ Admit(v)
    \/ Advance
    \/ Operate

Spec == Init /\ [][Next]_vars

=============================================================================
