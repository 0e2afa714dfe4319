---------------------------- MODULE DynamoQueue ----------------------------
(***************************************************************************)
(* The production queue: concurrent enrolls, concurrent status polls, the  *)
(* serving reaper and live overrides, over the same DynamoDB tables.       *)
(***************************************************************************)
EXTENDS DynamoEnroll, DynamoAdmit

serverVars == <<poll, slice, ghosts>>
vars == <<tables, calls, poll, slice, ghosts>>

Init == EnrollInit /\ AdmitInit

Next ==
    \/ \E c \in Calls : EnrollStep(c) /\ UNCHANGED serverVars
    \/ \E p \in Polls : PollStep(p) /\ UNCHANGED calls
    \/ Reaper /\ UNCHANGED calls
    \/ \E item \in Overrides : Override(item) /\ UNCHANGED calls
    \/ Around /\ UNCHANGED serverVars

Spec == Init /\ [][Next]_vars

\* Clients poll for ever, EventBridge keeps ticking, replicas catch up.
Fairness ==
    /\ \A p \in Polls : WF_vars(PollStep(p) /\ UNCHANGED calls)
    /\ WF_vars(Reaper /\ UNCHANGED calls)
    /\ WF_vars(ReplicateEvent /\ UNCHANGED <<calls, serverVars>>)
    /\ WF_vars(ReplicateServing /\ UNCHANGED <<calls, serverVars>>)
    /\ \A r \in RequestIds : WF_vars(ReplicateVisitor(r) /\ UNCHANGED <<calls, serverVars>>)

FairSpec == Spec /\ Fairness

-----------------------------------------------------------------------------

\* All state of the production queue holds values of its types.
TypeOK ==
    /\ EnrollTypeOK
    /\ poll \in [Polls -> PollState]
    /\ slice \in Nat
    /\ letIn \subseteq RequestIds
    /\ wasOpen \in BOOLEAN

\* Unless the floodgates were opened, no more visitors ever get a token than
\* places were called: not with stale reads, not with duplicate positions, not
\* when a redelivered message enrolls a visitor anew.
AdmittedWithinServing == ~wasOpen => Cardinality(letIn) <= serving

\* Unless the floodgates were opened, a visitor that holds a token stands at a
\* place that was called.
AdmittedInTurn ==
    ~wasOpen => \A r \in DOMAIN visitors : visitors[r].admitted => visitors[r].position <= serving

\* An admission advances the serving counter: as soon as the polls that let a
\* visitor in are through, the counter has reached its position.
AdmissionAdvancesServing ==
    \A r \in DOMAIN visitors :
        \/ ~visitors[r].admitted
        \/ visitors[r].position <= serving
        \/ \E p \in Polls : PolledBy[p] = r /\ poll[p].step = "bump"

\* The serving counter is never taken back: whatever a poll has read of it, and
\* whoever has added to it since, what the poll does moves it forward.
ServingNeverFalls == [][serving' >= serving]_serving

\* The tickets of a visitor: the turns, among all ADDs, of the calls that enrolled
\* it.
TurnsOf(r) == {RankOf(c) : c \in {d \in Calls : RequestOf[d] = r /\ Counted(d)}}

Line == INSTANCE TicketQueue WITH
    Visitors <- RequestIds,
    issued <- MergeCounterShards(shards),
    held <- [r \in RequestIds |-> TurnsOf(r)]

\* The tables implement one sequence of tickets: whatever interleaves, fails or
\* is read late, every ADD draws the next ticket, and while the floodgates stay
\* shut a token is stored only for a visitor whose own ticket was called, however
\* often its item was overwritten since.
ImplementsTicketQueue == Line!Spec

\* A visitor that keeps polling is let in, whatever it has read and whatever became
\* of the queue before, unless the operator stops the line after that, by pausing
\* it or by a throughput of 0, or TTL takes the visitor's item.
EventuallyLetIn ==
    \A p \in Polls : PolledBy[p] \in DOMAIN visitors ~>
        \/ PolledBy[p] \in letIn \/ PolledBy[p] \notin DOMAIN visitors
        \/ event.paused \/ event.throughput = 0

=============================================================================
