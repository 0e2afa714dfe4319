--------------------------- MODULE ServingReaper ---------------------------
(***************************************************************************)
(* The serving-reaper binary: once a minute EventBridge starts it, it      *)
(* lists the events of the tenant and ticks them one after the other.      *)
(*                                                                         *)
(* The binary never asks the Lambda runtime for its invocation: it does    *)
(* its work and exits, which Lambda reports as a failed invocation and may *)
(* start again.  Processes of one minute and of the next may overlap.      *)
(*                                                                         *)
(* A read that is out of date is one that was made earlier: nobody here    *)
(* can tell, so eventually consistent reads need no copies.                *)
(***************************************************************************)
EXTENDS Naturals, FiniteSets

CONSTANTS
    Events,         \* event ids, in the order of the table's sort key
    Throughputs,    \* the values of throughput_per_minute operators choose
    Broken,         \* events whose tick always fails: a counter that is no number
    Invocations,    \* the invocations that may be under way at once
    MaxProcesses,   \* how often Lambda starts a process for one invocation
    MaxAttempts,    \* how often the SDK sends a request that is not answered
    MaxServing,     \* bound: the schedule stops once the lines have got this far
    MaxFailures     \* bound: how often something else goes wrong

ASSUME ReaperAssumption ==
    /\ Events \subseteq Nat
    /\ Throughputs \subseteq Nat
    /\ Broken \subseteq Events
    /\ {MaxProcesses, MaxServing, MaxFailures} \subseteq Nat
    /\ MaxAttempts \in Nat \ {0}

VARIABLES
    made,           \* Events table: the events that were made
    throughput,     \* ... and their throughput_per_minute
    serving,        \* Counters item "serving" of every event
    step,           \* where each invocation is: see Steps
    left,           \* the listed events that it has still to tick
    slice,          \* what it is about to add
    unanswered,     \* how often its ADD was applied without an answer
    processes,      \* how many processes it has had
    listed,         \* history: the events its process has listed
    missed,         \* history: those among them whose tick failed
    added,          \* history: how often it added to each event
    failures        \* how often something has gone wrong

tables == <<made, throughput, serving>>
history == <<listed, missed, added>>
pending == <<slice, unanswered>>
vars == <<tables, step, left, pending, processes, history, failures>>

\* "off" between invocations; "start" before the list, "next" before a tick's
\* read, "add" before its ADD; "done" through the list, "exited" short of it.
Steps == {"off", "start", "next", "add", "done", "exited"}
Running == {"start", "next", "add"}

Never == [e \in Events |-> 0]

Init ==
    /\ made \in SUBSET Events
    /\ throughput \in [Events -> Throughputs]
    /\ serving = Never
    /\ step = [i \in Invocations |-> "off"]
    /\ left = [i \in Invocations |-> {}]
    /\ slice = [i \in Invocations |-> 0]
    /\ unanswered = [i \in Invocations |-> 0]
    /\ processes = [i \in Invocations |-> 0]
    /\ listed = [i \in Invocations |-> {}]
    /\ missed = [i \in Invocations |-> {}]
    /\ added = [i \in Invocations |-> Never]
    /\ failures = 0

Fails ==
    /\ failures < MaxFailures
    /\ failures' = failures + 1

-----------------------------------------------------------------------------

\* The operator makes an event, or changes its throughput.
Operate(e) ==
    /\ made' = made \cup {e}
    /\ \E n \in Throughputs : throughput' = [throughput EXCEPT ![e] = n]
    /\ UNCHANGED <<serving, step, left, pending, processes, history, failures>>

\* The schedule starts an invocation.  It stops with the model's bound.
Fire(i) ==
    /\ step[i] = "off"
    /\ \E e \in made \ Broken : serving[e] < MaxServing
    /\ step' = [step EXCEPT ![i] = "start"]
    /\ processes' = [processes EXCEPT ![i] = 1]
    /\ UNCHANGED <<tables, left, pending, history, failures>>

\* Faulty variant: the list is not filtered by tenant.
ListUnfiltered(i) ==
    /\ step[i] = "start"
    /\ step' = [step EXCEPT ![i] = "next"]
    /\ left' = [left EXCEPT ![i] = Events]
    /\ listed' = [listed EXCEPT ![i] = Events]
    /\ missed' = [missed EXCEPT ![i] = {}]
    /\ UNCHANGED <<tables, pending, processes, added, failures>>

\* build_aws_state succeeds and the Events table is scanned for the tenant's
\* events.
List(i) ==
    /\ step[i] = "start"
    /\ step' = [step EXCEPT ![i] = "next"]
    /\ left' = [left EXCEPT ![i] = made]
    /\ listed' = [listed EXCEPT ![i] = made]
    /\ missed' = [missed EXCEPT ![i] = {}]
    /\ UNCHANGED <<tables, pending, processes, added, failures>>

NothingPending(i) ==
    /\ slice' = [slice EXCEPT ![i] = 0]
    /\ unanswered' = [unanswered EXCEPT ![i] = 0]

\* The process ends early: no environment, no signing secret (which no tick
\* needs), no list, or the timeout of 60 seconds.
Ends(i) ==
    /\ step[i] \in Running
    /\ Fails
    /\ step' = [step EXCEPT ![i] = "exited"]
    /\ left' = [left EXCEPT ![i] = {}]
    /\ NothingPending(i)
    /\ UNCHANGED <<tables, processes, history>>

\* The events are ticked in the order of the scan.
IsNext(i, e) == e \in left[i] /\ \A d \in left[i] : e <= d

SliceOf(n) == IF n > 1 THEN n ELSE 1

\* reaper_tick reads the event ...
Read(i) ==
    /\ step[i] = "next"
    /\ \E e \in left[i] \ Broken :
        /\ IsNext(i, e)
        /\ slice' = [slice EXCEPT ![i] = SliceOf(throughput[e])]
    /\ step' = [step EXCEPT ![i] = "add"]
    /\ UNCHANGED <<tables, left, unanswered, processes, history, failures>>

Advance(i, e) ==
    /\ serving' = [serving EXCEPT ![e] = @ + slice[i]]
    /\ added' = [added EXCEPT ![i][e] = @ + 1]

\* ... and adds to its serving counter.
Add(i) ==
    /\ step[i] = "add"
    /\ \E e \in left[i] :
        /\ IsNext(i, e)
        /\ Advance(i, e)
        /\ left' = [left EXCEPT ![i] = @ \ {e}]
    /\ step' = [step EXCEPT ![i] = "next"]
    /\ NothingPending(i)
    /\ UNCHANGED <<made, throughput, processes, listed, missed, failures>>

\* The ADD is applied and its answer is lost: the SDK sends it again.
AddUnanswered(i) ==
    /\ step[i] = "add"
    /\ Fails
    /\ unanswered[i] + 1 < MaxAttempts
    /\ unanswered' = [unanswered EXCEPT ![i] = @ + 1]
    /\ \E e \in left[i] : IsNext(i, e) /\ Advance(i, e)
    /\ UNCHANGED <<made, throughput, step, left, slice, processes, listed, missed>>

\* The tick of an event fails, perhaps after its last ADD was applied.
TickFails(i, e) ==
    /\ step[i] \in {"next", "add"}
    /\ IsNext(i, e)
    /\ \/ e \in Broken /\ UNCHANGED failures
       \/ e \notin Broken /\ Fails
    /\ \/ step[i] = "add" /\ Advance(i, e)
       \/ UNCHANGED <<serving, added>>
    /\ missed' = [missed EXCEPT ![i] = @ \cup {e}]
    /\ NothingPending(i)
    /\ UNCHANGED <<made, throughput, processes, listed>>

\* Faulty variant: the first tick that fails ends the loop.
WarnAndStop(i) ==
    /\ \E e \in left[i] : TickFails(i, e)
    /\ left' = [left EXCEPT ![i] = {}]
    /\ step' = [step EXCEPT ![i] = "next"]

\* Faulty variant: a tick that failed is made again at once.
WarnAndRepeat(i) ==
    /\ \E e \in left[i] : TickFails(i, e)
    /\ left' = left
    /\ step' = [step EXCEPT ![i] = "next"]

\* run_reaper warns and goes on with the next event.
Warn(i) ==
    /\ \E e \in left[i] : TickFails(i, e) /\ left' = [left EXCEPT ![i] = @ \ {e}]
    /\ step' = [step EXCEPT ![i] = "next"]

\* All events are through and the process exits.
Finish(i) ==
    /\ step[i] = "next"
    /\ left[i] = {}
    /\ step' = [step EXCEPT ![i] = "done"]
    /\ UNCHANGED <<tables, left, pending, processes, history, failures>>

\* Lambda starts the invocation's next process, from the beginning ...
StartAgain(i) ==
    /\ step[i] \in {"done", "exited"}
    /\ processes[i] < MaxProcesses
    /\ step' = [step EXCEPT ![i] = "start"]
    /\ processes' = [processes EXCEPT ![i] = @ + 1]
    /\ UNCHANGED <<tables, left, pending, history, failures>>

\* ... or gives the invocation up.
GiveUp(i) ==
    /\ step[i] \in {"done", "exited"}
    /\ step' = [step EXCEPT ![i] = "off"]
    /\ processes' = [processes EXCEPT ![i] = 0]
    /\ listed' = [listed EXCEPT ![i] = {}]
    /\ missed' = [missed EXCEPT ![i] = {}]
    /\ added' = [added EXCEPT ![i] = Never]
    /\ UNCHANGED <<tables, left, pending, failures>>

Step(i) ==
    \/ Fire(i) \/ List(i) \/ Read(i) \/ Add(i) \/ Warn(i) \/ Finish(i)
    \/ StartAgain(i) \/ GiveUp(i)

Next ==
    \/ \E i \in Invocations : Step(i) \/ AddUnanswered(i) \/ Ends(i)
    \/ \E e \in Events : Operate(e)

Spec == Init /\ [][Next]_vars

\* EventBridge keeps firing, and a process that has begun keeps working.
FairSpec == Spec /\ \A i \in Invocations : WF_vars(Step(i))

-----------------------------------------------------------------------------

\* Invocations, counters and histories hold values of their types; what is left
\* to tick was listed, and every listed event was made.
TypeOK ==
    /\ made \subseteq Events
    /\ throughput \in [Events -> Throughputs]
    /\ serving \in [Events -> Nat]
    /\ step \in [Invocations -> Steps]
    /\ left \in [Invocations -> SUBSET Events]
    /\ slice \in [Invocations -> Nat]
    /\ unanswered \in [Invocations -> Nat]
    /\ processes \in [Invocations -> Nat]
    /\ listed \in [Invocations -> SUBSET Events]
    /\ missed \in [Invocations -> SUBSET Events]
    /\ added \in [Invocations -> [Events -> Nat]]
    /\ failures \in Nat
    /\ \A i \in Invocations : left[i] \subseteq listed[i] /\ listed[i] \subseteq made

\* A process ticks an event once at most, whatever fails: more than one slice is
\* added to it only by ADDs that the SDK repeats and by processes that Lambda
\* starts again, and so an invocation adds no more than both make of one tick.
OneTickPerProcess ==
    \A i \in Invocations, e \in Events : added[i][e] <= processes[i] * MaxAttempts

\* A failing tick costs no other event its turn: when a process has come through,
\* every event it listed was added to in this invocation, or it warned that it
\* could not.
NobodyPassedOver ==
    \A i \in Invocations : step[i] = "done" =>
        \A e \in listed[i] : added[i][e] > 0 \/ e \in missed[i]

\* Every event that was made and can be ticked is called on, for as long as the
\* schedule runs, however many others are broken.
NobodyStarves ==
    \A e \in Events \ Broken : e \in made ~> serving[e] >= MaxServing

=============================================================================
