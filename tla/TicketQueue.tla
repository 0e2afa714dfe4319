---------------------------- MODULE TicketQueue ----------------------------
(***************************************************************************)
(* What a queue promises that hands out places by adding to counters, and  *)
(* keeps its visitors in a store where items are overwritten, expire and   *)
(* are read late: tickets are drawn one after the other, a visitor may     *)
(* draw several of them and some are wasted, and until the operator has    *)
(* opened the floodgates a visitor is only let in on a ticket of its own   *)
(* that was called.                                                        *)
(*                                                                         *)
(* It promises less than FairQueue: a visitor may hold several tickets, a  *)
(* ticket may be nobody's, and the serving counter may stay behind.        *)
(***************************************************************************)
EXTENDS Naturals

CONSTANT Visitors

VARIABLES
    issued,     \* how many tickets have been drawn
    held,       \* the tickets each visitor has drawn
    letIn,      \* the visitors that were let in
    serving,    \* the last ticket that was called
    wasOpen     \* whether the floodgates were ever open

vars == <<issued, held, letIn, serving, wasOpen>>

Init ==
    /\ issued = 0
    /\ held = [v \in Visitors |-> {}]
    /\ letIn = {}
    /\ serving = 0
    /\ wasOpen = FALSE

\* A visitor draws the next ticket and holds it for ever, or the ticket is drawn
\* and nobody receives it.
Take(v) == held' = [held EXCEPT ![v] = @ \cup {issued'}]

Draw ==
    /\ issued' = issued + 1
    /\ UNCHANGED held \/ \E v \in Visitors : Take(v)
    /\ UNCHANGED <<letIn, serving, wasOpen>>

\* More tickets are called, none is called back.
Forward == serving' > serving /\ serving' \in Nat

\* A visitor is let in on a ticket of its own, a called one unless anybody may
\* enter; an early visitor may take the counter along.
MayEnter(v) == \E n \in held[v] : wasOpen \/ n <= serving

LetIn(v) ==
    /\ v \notin letIn
    /\ letIn' = letIn \cup {v}
    /\ MayEnter(v)
    /\ UNCHANGED serving \/ (wasOpen /\ Forward)
    /\ UNCHANGED <<issued, held, wasOpen>>

Call ==
    /\ Forward
    /\ UNCHANGED <<issued, held, letIn, wasOpen>>

Open ==
    /\ ~wasOpen
    /\ wasOpen' = TRUE
    /\ UNCHANGED <<issued, held, letIn, serving>>

Next ==
    \/ Open
    \/ Call
    \/ \E v \in Visitors : LetIn(v)
    \/ Draw

Spec == Init /\ [][Next]_vars

=============================================================================
