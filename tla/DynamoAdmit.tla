---------------------------- MODULE DynamoAdmit ----------------------------
(***************************************************************************)
(* The other half of DynamoDbStore: status polls (maybe_admit), the        *)
(* serving reaper, and the operator's live overrides.  A poll is a client  *)
(* that keeps asking for one visitor; each of its requests is one          *)
(* execution of maybe_admit and goes through the steps below.  Between any *)
(* two of them everything else may happen.                                 *)
(*                                                                         *)
(* The response is left out: beyond what is modelled, it reads the serving *)
(* counter once more and changes nothing.                                  *)
(***************************************************************************)
EXTENDS DynamoTables

CONSTANTS
    Polls,          \* the clients that poll
    PolledBy,       \* the request id each of them polls
    Overrides,      \* the states of the event an operator switches between
    MaxServing      \* bound: the reaper stops once serving has got this far

ASSUME PollsAssumption ==
    /\ PolledBy \in [Polls -> RequestIds]
    /\ Overrides \subseteq EventItem
    /\ MaxServing \in Nat

VARIABLES
    poll,           \* where each poll is, and what it has read so far
    slice,          \* what the reaper is about to add, 0 between ticks
    letIn,          \* history: every request id an admit token was stored for
    wasOpen         \* history: whether the floodgates were ever open

ghosts == <<letIn, wasOpen>>

\* step is the request to DynamoDB that the poll makes next; the others are
\* emergency_open, the visitor's position and the serving counter as read.
PollState == [step : {"idle", "load", "compare", "sign", "bump"},
              open : BOOLEAN, position : Nat, serving : Nat]

Idle == [step |-> "idle", open |-> FALSE, position |-> 0, serving |-> 0]

AdmitInit ==
    /\ poll = [p \in Polls |-> Idle]
    /\ slice = 0
    /\ letIn = {}
    /\ wasOpen = FALSE

-----------------------------------------------------------------------------

\* get_event.
PollEvent(p) ==
    /\ poll[p].step = "idle"
    /\ \E e \in Views("staleEvent", event, eventLag) :
        poll' = [poll EXCEPT ![p].step = "load", ![p].open = e.emergencyOpen]
    /\ UNCHANGED <<tables, slice, ghosts>>

\* load_visitor: 404 while there is no item; nothing to decide once it holds a
\* token.
PollVisitor(p) ==
    /\ poll[p].step = "load"
    /\ \E view \in Views("staleVisitors", visitors, visitorsLag) :
        poll' = [poll EXCEPT ![p] =
            IF PolledBy[p] \in DOMAIN view /\ ~view[PolledBy[p]].admitted
            THEN [@ EXCEPT !.step = "compare", !.position = view[PolledBy[p]].position]
            ELSE Idle]
    /\ UNCHANGED <<tables, slice, ghosts>>

\* Faulty variant: the next position is let in before it is called.
MayEnterNext(p, n) == poll[p].open \/ poll[p].position <= n + 1

MayEnter(p, n) == poll[p].open \/ poll[p].position <= n

\* The serving counter is read last, and the decision is taken on the three
\* values read.
PollServing(p) ==
    /\ poll[p].step = "compare"
    /\ \E n \in Views("staleServing", serving, servingLag) :
        poll' = [poll EXCEPT ![p] =
            IF MayEnter(p, n) THEN [@ EXCEPT !.step = "sign", !.serving = n] ELSE Idle]
    /\ UNCHANGED <<tables, slice, ghosts>>

\* What SET admitToken, status leaves: an item that is not there is created
\* with nothing else in it, and reads as position 0 of no session.
Admitted(r) ==
    IF r \in DOMAIN visitors THEN [visitors[r] EXCEPT !.admitted = TRUE]
    ELSE [session |-> NoSession, position |-> 0, admitted |-> TRUE]

\* Signs a token and stores it, unconditionally.
PollSet(p) ==
    /\ poll[p].step = "sign"
    /\ visitors' = Insert(visitors, PolledBy[p], Admitted(PolledBy[p]))
    /\ letIn' = letIn \cup {PolledBy[p]}
    /\ poll' = [poll EXCEPT ![p] =
            IF @.position > @.serving THEN [@ EXCEPT !.step = "bump"] ELSE Idle]
    /\ UNCHANGED <<event, eventLag, serving, servingLag, shards, visitorsLag, slice, wasOpen>>

\* Faulty variant: one place is added, however early the admission was.
PollBumpByOne(p) ==
    /\ poll[p].step = "bump"
    /\ serving' = serving + 1
    /\ poll' = [poll EXCEPT ![p] = Idle]
    /\ UNCHANGED <<event, eventLag, servingLag, shards, visitors, visitorsLag, slice, ghosts>>

\* Faulty variant: the counter is set to the position instead of added to.
PollBumpBySetting(p) ==
    /\ poll[p].step = "bump"
    /\ serving' = poll[p].position
    /\ poll' = [poll EXCEPT ![p] = Idle]
    /\ UNCHANGED <<event, eventLag, servingLag, shards, visitors, visitorsLag, slice, ghosts>>

\* After an early admission: ADD what the counter lacked when it was read.
PollBump(p) ==
    /\ poll[p].step = "bump"
    /\ serving' = serving + (poll[p].position - poll[p].serving)
    /\ poll' = [poll EXCEPT ![p] = Idle]
    /\ UNCHANGED <<event, eventLag, servingLag, shards, visitors, visitorsLag, slice, ghosts>>

\* The result of that ADD is discarded, an error too.
PollBumpLost(p) ==
    /\ "bumpLost" \in Faults
    /\ poll[p].step = "bump"
    /\ poll' = [poll EXCEPT ![p] = Idle]
    /\ UNCHANGED <<tables, slice, ghosts>>

\* A request fails or the handler dies; the client will ask again.
PollAbort(p) ==
    /\ "crash" \in Faults
    /\ poll[p].step # "idle"
    /\ poll' = [poll EXCEPT ![p] = Idle]
    /\ UNCHANGED <<tables, slice, ghosts>>

PollStep(p) ==
    \/ PollEvent(p) \/ PollVisitor(p) \/ PollServing(p)
    \/ PollSet(p) \/ PollBump(p) \/ PollBumpLost(p) \/ PollAbort(p)

SliceOf(n) == IF n > 1 THEN n ELSE 1

\* reaper_tick reads the event, and whether it is paused plays no part.
ReaperRead ==
    /\ slice = 0
    /\ serving < MaxServing
    /\ \E e \in Views("staleEvent", event, eventLag) : slice' = SliceOf(e.throughput)
    /\ UNCHANGED <<tables, poll, ghosts>>

\* Faulty variant: the slice is written to the counter instead of added to it.
ReaperAddBySetting ==
    /\ slice > 0
    /\ serving' = slice
    /\ slice' = 0
    /\ UNCHANGED <<event, eventLag, servingLag, shards, visitors, visitorsLag, poll, ghosts>>

ReaperAdd ==
    /\ slice > 0
    /\ serving' = serving + slice
    /\ slice' = 0
    /\ UNCHANGED <<event, eventLag, servingLag, shards, visitors, visitorsLag, poll, ghosts>>

\* The reaper dies between its read and its ADD; the next tick comes anyway.
ReaperAbort ==
    /\ "crash" \in Faults
    /\ slice > 0
    /\ slice' = 0
    /\ UNCHANGED <<tables, poll, ghosts>>

Reaper == ReaperRead \/ ReaperAdd \/ ReaperAbort

\* A live override.
Override(item) ==
    /\ event' = item
    /\ wasOpen' = (wasOpen \/ item.emergencyOpen)
    /\ UNCHANGED <<eventLag, serving, servingLag, shards, visitors, visitorsLag, poll, slice, letIn>>

=============================================================================
