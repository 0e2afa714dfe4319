------------------------ MODULE ServingReaperProofs ------------------------
(***************************************************************************)
(* What a tick guarantees, for any number of events, overlapping           *)
(* invocations, processes of each and failures.                            *)
(*                                                                         *)
(* The argument: an event that a process has still to tick was added to by *)
(* none but the invocation's earlier processes, and by the ADDs of the     *)
(* tick under way that were not answered, fewer than the SDK's attempts    *)
(* (Fresh).  An event leaves the list when it was added to, or when its    *)
(* tick failed and was noted (Settled).                                    *)
(***************************************************************************)
EXTENDS ServingReaper, TLAPS

\* What so many ticks add to an event at the most.
Slices(ticks) == ticks * MaxAttempts

LEMMA OneMore ==
    ASSUME NEW n \in Nat
    PROVE  Slices(n) \in Nat /\ Slices(n + 1) = Slices(n) + MaxAttempts /\ Slices(0) = 0
<1>1. MaxAttempts \in Nat
  BY ReaperAssumption
<1>2. Slices(n) \in Nat /\ Slices(0) = 0
  BY <1>1 DEF Slices
<1>3. (n + 1) * MaxAttempts = n * MaxAttempts + MaxAttempts
  BY <1>1
<1> QED BY <1>2, <1>3 DEF Slices

\* What an invocation may still add to an event it has yet to tick: a whole tick,
\* less what went unanswered if it is the one under way.
Affords(i, e) ==
    added[i][e] + MaxAttempts <=
        Slices(processes[i]) + (IF IsNext(i, e) THEN unanswered[i] ELSE 0)

\* Between invocations there is no process.
Fresh ==
    /\ \A i \in Invocations, e \in Events :
            step[i] \in Running /\ (step[i] = "start" \/ e \in left[i]) => Affords(i, e)
    /\ \A i \in Invocations : /\ unanswered[i] < MaxAttempts
                              /\ step[i] # "add" => unanswered[i] = 0
                              /\ step[i] = "off" => processes[i] = 0

\* What is through was added to, or noted; before the list, and short of its
\* end, nothing is left.
Settled ==
    /\ \A i \in Invocations : step[i] \in {"next", "add", "done"} =>
            \A e \in listed[i] \ left[i] : added[i][e] > 0 \/ e \in missed[i]
    /\ \A i \in Invocations : step[i] \notin {"next", "add"} => left[i] = {}

IInv == TypeOK /\ OneTickPerProcess /\ Fresh /\ Settled

\* Invocations of the same kind as before, and nothing else of invocation i.
Others(i) ==
    \A j \in Invocations \ {i} :
        /\ step'[j] = step[j] /\ left'[j] = left[j] /\ slice'[j] = slice[j]
        /\ unanswered'[j] = unanswered[j]
        /\ processes'[j] = processes[j] /\ listed'[j] = listed[j]
        /\ missed'[j] = missed[j] /\ added'[j] = added[j]

\* What IInv says of one invocation.
Sound(i) ==
    /\ step[i] \in Steps
    /\ left[i] \in SUBSET Events /\ slice[i] \in Nat /\ processes[i] \in Nat /\ unanswered[i] \in Nat
    /\ listed[i] \in SUBSET Events /\ missed[i] \in SUBSET Events
    /\ added[i] \in [Events -> Nat]
    /\ left[i] \subseteq listed[i] /\ listed[i] \subseteq made
    /\ \A e \in Events : added[i][e] <= Slices(processes[i])
    /\ \A e \in Events :
            step[i] \in Running /\ (step[i] = "start" \/ e \in left[i]) => Affords(i, e)
    /\ unanswered[i] < MaxAttempts
    /\ step[i] # "add" => unanswered[i] = 0
    /\ step[i] = "off" => processes[i] = 0
    /\ step[i] \in {"next", "add", "done"} =>
            \A e \in listed[i] \ left[i] : added[i][e] > 0 \/ e \in missed[i]
    /\ step[i] \notin {"next", "add"} => left[i] = {}

\* What TypeOK says of the rest.
TablesSound ==
    /\ made \subseteq Events
    /\ throughput \in [Events -> Throughputs]
    /\ serving \in [Events -> Nat]
    /\ failures \in Nat

\* The variables of invocations are functions on them.
Shaped ==
    /\ step \in [Invocations -> Steps]
    /\ left \in [Invocations -> SUBSET Events]
    /\ slice \in [Invocations -> Nat]
    /\ unanswered \in [Invocations -> Nat]
    /\ processes \in [Invocations -> Nat]
    /\ listed \in [Invocations -> SUBSET Events]
    /\ missed \in [Invocations -> SUBSET Events]
    /\ added \in [Invocations -> [Events -> Nat]]

\* The invariant, invocation by invocation.
LEMMA Apart == IInv <=> TablesSound /\ Shaped /\ \A i \in Invocations : Sound(i)
BY DEF IInv, TypeOK, OneTickPerProcess, Slices, Fresh, Settled, TablesSound, Shaped, Sound

\* The invariant holds while no invocation has begun.
LEMMA ReaperInit == Init => IInv
<1> SUFFICES ASSUME Init PROVE TablesSound /\ Shaped /\ \A i \in Invocations : Sound(i)
  BY Apart
<1>1. Never \in [Events -> Nat] /\ \A e \in Events : Never[e] = 0
  BY DEF Never
<1>2. TablesSound /\ Shaped
  BY <1>1 DEF Init, TablesSound, Shaped, Steps
<1>3. ASSUME NEW i \in Invocations PROVE Sound(i)
  BY <1>1, OneMore, ReaperAssumption DEF Init, Sound, Steps, Running
<1> QED BY <1>2, <1>3

\* An invocation that does nothing stays sound.
LEMMA StaysSound ==
  ASSUME NEW i \in Invocations, Sound(i), made \subseteq made',
         step'[i] = step[i], left'[i] = left[i], slice'[i] = slice[i], unanswered'[i] = unanswered[i],
         processes'[i] = processes[i], listed'[i] = listed[i],
         missed'[i] = missed[i], added'[i] = added[i]
  PROVE  Sound(i)'
<1>1. \A e \in Events : Affords(i, e) => Affords(i, e)'
  BY DEF Affords, IsNext
<1> QED BY <1>1 DEF Sound

\* A step of an invocation leaves the others and the events alone.
LEMMA StepAlone ==
  ASSUME IInv, NEW i \in Invocations, Step(i) \/ AddUnanswered(i) \/ Ends(i)
  PROVE  Others(i) /\ UNCHANGED <<made, throughput>>
<1> USE DEF Others, tables, history, pending, NothingPending
<1>1. Shaped
  BY Apart
<1>2. CASE Fire(i) \/ List(i) \/ Read(i) \/ Finish(i) \/ StartAgain(i) \/ GiveUp(i) \/ Ends(i)
  BY <1>1, <1>2 DEF Fire, List, Read, Finish, StartAgain, GiveUp, Ends, Shaped
<1>3. CASE Add(i)
  <2>1. PICK e \in left[i] : Advance(i, e) /\ left' = [left EXCEPT ![i] = @ \ {e}]
    BY <1>3 DEF Add
  <2> QED BY <1>1, <1>3, <2>1 DEF Add, Advance, Shaped
<1>4. CASE Warn(i)
  <2>1. PICK e \in left[i] : TickFails(i, e) /\ left' = [left EXCEPT ![i] = @ \ {e}]
    BY <1>4 DEF Warn
  <2>2. \A j \in Invocations \ {i} : added'[j] = added[j]
    BY <1>1, <2>1 DEF TickFails, Advance, Shaped
  <2> QED BY <1>1, <1>4, <2>1, <2>2 DEF Warn, TickFails, Shaped
<1>5. CASE AddUnanswered(i)
  <2>1. PICK e \in left[i] : Advance(i, e)
    BY <1>5 DEF AddUnanswered
  <2> QED BY <1>1, <1>5, <2>1 DEF AddUnanswered, Advance, Shaped
<1> QED BY <1>2, <1>3, <1>4, <1>5 DEF Step

\* Adding to an event.
LEMMA Advanced ==
  ASSUME TablesSound, Shaped, NEW i \in Invocations, NEW e \in Events, Advance(i, e)
  PROVE  /\ serving' \in [Events -> Nat]
         /\ added' \in [Invocations -> [Events -> Nat]]
         /\ added'[i][e] = added[i][e] + 1
         /\ \A d \in Events \ {e} : added'[i][d] = added[i][d]
<1>1. slice[i] \in Nat /\ added[i] \in [Events -> Nat]
  BY DEF Shaped
<1>2. serving' \in [Events -> Nat]
  BY <1>1 DEF Advance, TablesSound
<1>3. added' = [added EXCEPT ![i] = [added[i] EXCEPT ![e] = @ + 1]]
  BY <1>1 DEF Advance, Shaped
<1>4. [added[i] EXCEPT ![e] = @ + 1] \in [Events -> Nat]
  BY <1>1
<1> QED BY <1>1, <1>2, <1>3, <1>4 DEF Shaped

\* What a tick that has had no ADD yet may add, and what is left of the budget.
LEMMA Budget ==
  ASSUME NEW i \in Invocations, Sound(i)
  PROVE  /\ MaxAttempts \in Nat /\ MaxAttempts > 0
         /\ Slices(processes[i]) \in Nat /\ \A e \in Events : added[i][e] \in Nat
         /\ unanswered[i] = 0 => \A e \in Events : Affords(i, e) <=>
                                    added[i][e] + MaxAttempts <= Slices(processes[i])
<1>1. /\ MaxAttempts \in Nat /\ MaxAttempts > 0 /\ Slices(processes[i]) \in Nat
      /\ \A e \in Events : added[i][e] \in Nat
  BY ReaperAssumption, OneMore DEF Sound
<1>2. unanswered[i] = 0 => \A e \in Events : Affords(i, e) <=>
                                    added[i][e] + MaxAttempts <= Slices(processes[i])
  BY <1>1 DEF Affords
<1> QED BY <1>1, <1>2

\* A step that adds nothing, and begins nothing, keeps what may be added.
LEMMA StillAffords ==
  ASSUME NEW i \in Invocations, Sound(i), step[i] \in {"start", "next", "add"},
         added'[i] = added[i], processes'[i] = processes[i],
         unanswered'[i] = 0, unanswered[i] = 0
  PROVE  \A e \in Events : (step[i] = "start" \/ e \in left[i]) => Affords(i, e)'
<1>1. \A e \in Events : (step[i] = "start" \/ e \in left[i]) =>
            added[i][e] + MaxAttempts <= Slices(processes[i])
  BY Budget DEF Sound, Running
<1>2. Slices(processes[i]) \in Nat
  BY Budget
<1> QED BY <1>1, <1>2 DEF Affords

\* One ADD more: the event's tick is within its budget, and the others' are as
\* they were.
LEMMA AddAffords ==
  ASSUME TablesSound, Shaped, NEW i \in Invocations, Sound(i), NEW e \in left[i], IsNext(i, e),
         Advance(i, e), step[i] = "add"
  PROVE  /\ added'[i][e] + MaxAttempts <= Slices(processes[i]) + unanswered[i] + 1
         /\ \A d \in Events \ {e} : added'[i][d] = added[i][d]
         /\ \A d \in left[i] \ {e} : added[i][d] + MaxAttempts <= Slices(processes[i])
         /\ \A d \in Events : added'[i][d] <= Slices(processes[i])
         /\ \A d \in Events : added'[i][d] \in Nat
<1>1. e \in Events /\ Events \subseteq Nat /\ unanswered[i] \in Nat /\ unanswered[i] < MaxAttempts
  BY ReaperAssumption DEF Sound
<1>2. /\ MaxAttempts \in Nat /\ Slices(processes[i]) \in Nat
      /\ \A d \in Events : added[i][d] \in Nat
  BY Budget
<1>3. added'[i][e] = added[i][e] + 1 /\ \A d \in Events \ {e} : added'[i][d] = added[i][d]
  BY <1>1, Advanced
<1>4. \A d \in left[i] : Affords(i, d)
  BY DEF Sound, Running
<1>5. added[i][e] + MaxAttempts <= Slices(processes[i]) + unanswered[i]
  BY <1>4 DEF Affords
<1>6. ASSUME NEW d \in left[i] \ {e}
      PROVE  added[i][d] + MaxAttempts <= Slices(processes[i])
  <2>1. ~IsNext(i, d)
    <3>1. left[i] \subseteq Nat
      BY <1>1 DEF Sound
    <3> QED BY <1>6, <3>1 DEF IsNext
  <2> QED BY <1>2, <1>4, <2>1 DEF Affords
<1>7. \A d \in Events : added[i][d] <= Slices(processes[i])
  BY DEF Sound
<1>8. added'[i][e] <= Slices(processes[i])
  BY <1>1, <1>2, <1>3, <1>5
<1> QED BY <1>1, <1>2, <1>3, <1>5, <1>6, <1>7, <1>8

\* A step of an invocation keeps it sound, and the tables and types.
LEMMA StepSound ==
  ASSUME IInv, NEW i \in Invocations, Step(i) \/ AddUnanswered(i) \/ Ends(i)
  PROVE  TablesSound' /\ Shaped' /\ Sound(i)'
<1>1. TablesSound /\ Shaped /\ Sound(i)
  BY Apart
<1>2. Never \in [Events -> Nat] /\ \A e \in Events : Never[e] = 0
  BY DEF Never
<1>3. UNCHANGED tables /\ failures' \in Nat => TablesSound'
  BY <1>1 DEF TablesSound, tables
<1>a. /\ MaxAttempts \in Nat /\ MaxAttempts > 0 /\ Slices(processes[i]) \in Nat
      /\ \A e \in Events : added[i][e] \in Nat
  BY <1>1, Budget
<1> USE DEF history, pending, NothingPending
<1>4. CASE Fire(i)
  <2>1. step'[i] = "start" /\ processes'[i] = 1 /\ step[i] = "off" /\ left[i] = {}
    BY <1>1, <1>4 DEF Fire, Shaped, Sound
  <2>2. processes[i] = 0 /\ unanswered'[i] = 0 /\ added'[i] = added[i]
    BY <1>1, <1>4, <2>1 DEF Fire, Sound
  <2>3. Slices(processes'[i]) = MaxAttempts /\ Slices(processes[i]) = 0
    <3>1. Slices(0) = 0 /\ Slices(0 + 1) = Slices(0) + MaxAttempts
      BY OneMore
    <3> QED BY <1>a, <2>1, <2>2, <3>1
  <2>4. \A e \in Events : added'[i][e] = 0
    BY <1>1, <1>a, <2>2, <2>3 DEF Sound
  <2>5. \A e \in Events : Affords(i, e)'
    BY <1>a, <2>2, <2>3, <2>4 DEF Affords
  <2>6. \A e \in Events : added'[i][e] <= Slices(processes'[i])
    BY <1>a, <2>3, <2>4
  <2>7. TablesSound' /\ Shaped'
    BY <1>1, <1>3, <1>4 DEF Fire, Shaped, Steps, TablesSound, tables
  <2> QED BY <1>1, <1>a, <1>4, <2>1, <2>2, <2>5, <2>6, <2>7 DEF Fire, Sound, Steps, Running, tables
<1>5. CASE List(i)
  <2>1. /\ step'[i] = "next" /\ left'[i] = made /\ listed'[i] = made /\ missed'[i] = {}
        /\ step[i] = "start"
    BY <1>1, <1>5 DEF List, Shaped
  <2>2. /\ added'[i] = added[i] /\ processes'[i] = processes[i] /\ unanswered[i] = 0
        /\ unanswered'[i] = 0
    BY <1>1, <1>5, <2>1 DEF List, Sound
  <2>3. \A e \in Events : Affords(i, e)'
    BY <1>1, <2>1, <2>2, StillAffords
  <2>4. TablesSound' /\ Shaped'
    BY <1>1, <1>3, <1>5 DEF List, Shaped, Steps, TablesSound, tables
  <2> QED BY <1>1, <1>5, <2>1, <2>2, <2>3, <2>4 DEF List, Sound, Steps, Running, TablesSound, tables
<1>6. CASE Read(i)
  <2>1. PICK e \in left[i] : slice' = [slice EXCEPT ![i] = SliceOf(throughput[e])]
    BY <1>6 DEF Read
  <2>2. SliceOf(throughput[e]) \in Nat
    BY <1>1, <2>1, ReaperAssumption DEF Sound, TablesSound, SliceOf
  <2>3. step'[i] = "add" /\ step[i] = "next" /\ slice'[i] \in Nat
    BY <1>1, <1>6, <2>1, <2>2 DEF Read, Shaped
  <2>4. /\ added'[i] = added[i] /\ processes'[i] = processes[i] /\ unanswered[i] = 0
        /\ unanswered'[i] = 0 /\ left'[i] = left[i]
    BY <1>1, <1>6, <2>3 DEF Read, Sound
  <2>5. \A d \in left'[i] : Affords(i, d)'
    BY <1>1, <2>3, <2>4, StillAffords DEF Sound
  <2>6. TablesSound' /\ Shaped'
    BY <1>1, <1>3, <1>6, <2>1, <2>2 DEF Read, Shaped, Steps, TablesSound, tables
  <2> QED BY <1>1, <1>6, <2>3, <2>4, <2>5, <2>6 DEF Read, Sound, Steps, Running, tables
<1>7. CASE Add(i)
  <2>1. PICK e \in left[i] :
            IsNext(i, e) /\ Advance(i, e) /\ left' = [left EXCEPT ![i] = @ \ {e}]
    BY <1>7 DEF Add
  <2>2. e \in Events
    BY <1>1 DEF Sound
  <2>3. /\ step[i] = "add" /\ step'[i] = "next"
        /\ left'[i] = left[i] \ {e} /\ slice'[i] = 0 /\ unanswered'[i] = 0
        /\ UNCHANGED <<made, throughput, processes, listed, missed, failures>>
    BY <1>1, <1>7, <2>1 DEF Add, Shaped
  <2>4. /\ added'[i][e] = added[i][e] + 1
        /\ \A d \in Events \ {e} : added'[i][d] = added[i][d]
        /\ serving' \in [Events -> Nat]
        /\ added' \in [Invocations -> [Events -> Nat]]
    BY <1>1, <2>1, <2>2, Advanced
  <2>5. TablesSound' /\ Shaped'
    BY <1>1, <1>7, <2>1, <2>3, <2>4 DEF Add, Shaped, TablesSound, Steps
  <2>6. \A d \in Events : added'[i][d] <= Slices(processes[i])
    BY <1>1, <2>1, <2>3, AddAffords
  <2>7. \A d \in left'[i] : Affords(i, d)'
    <3>1. \A d \in left'[i] : added'[i][d] + MaxAttempts <= Slices(processes[i])
      BY <1>1, <2>1, <2>3, <2>4, AddAffords DEF Sound
    <3> QED BY <1>a, <2>3, <3>1 DEF Affords
  <2>8. \A d \in listed[i] \ left'[i] : added'[i][d] > 0 \/ d \in missed[i]
    BY <1>1, <1>a, <2>2, <2>3, <2>4 DEF Sound
  <2> QED BY <1>1, <1>a, <2>3, <2>4, <2>5, <2>6, <2>7, <2>8 DEF Sound, Steps, Running, Shaped
<1>8. CASE Warn(i)
  <2>1. PICK e \in left[i] : TickFails(i, e) /\ left' = [left EXCEPT ![i] = @ \ {e}]
    BY <1>8 DEF Warn
  <2>2. e \in Events /\ IsNext(i, e)
    BY <1>1, <2>1 DEF Sound, TickFails
  <2>3. /\ step[i] \in {"next", "add"} /\ step'[i] = "next"
        /\ left'[i] = left[i] \ {e} /\ slice'[i] = 0 /\ unanswered'[i] = 0
        /\ missed'[i] = missed[i] \cup {e}
        /\ UNCHANGED <<made, throughput, processes, listed>>
    BY <1>1, <1>8, <2>1 DEF Warn, TickFails, Shaped
  <2>4. /\ added'[i][e] \in {added[i][e], added[i][e] + 1}
        /\ \A d \in Events \ {e} : added'[i][d] = added[i][d]
        /\ serving' \in [Events -> Nat]
        /\ added' \in [Invocations -> [Events -> Nat]]
        /\ \A d \in Events : added'[i][d] <= Slices(processes[i])
        /\ \A d \in left[i] \ {e} : added[i][d] + MaxAttempts <= Slices(processes[i])
    <3>1. CASE step[i] = "add" /\ Advance(i, e)
      <4>1. /\ added'[i][e] = added[i][e] + 1 /\ serving' \in [Events -> Nat]
            /\ added' \in [Invocations -> [Events -> Nat]]
        BY <1>1, <2>2, <3>1, Advanced
      <4> QED BY <1>1, <2>2, <3>1, <4>1, AddAffords
    <3>2. CASE UNCHANGED <<serving, added>>
      <4>1. ASSUME NEW d \in left[i] \ {e} PROVE Affords(i, d) /\ ~IsNext(i, d)
        <5>1. left[i] \subseteq Nat /\ left[i] \subseteq Events
          BY <1>1, ReaperAssumption DEF Sound
        <5>2. ~IsNext(i, d)
          BY <2>2, <4>1, <5>1 DEF IsNext
        <5>3. Affords(i, d)
          BY <1>1, <2>3, <4>1, <5>1 DEF Sound, Running
        <5> QED BY <5>2, <5>3
      <4>2. \A d \in left[i] \ {e} : added[i][d] + MaxAttempts <= Slices(processes[i])
        BY <1>1, <1>a, <4>1 DEF Affords, Sound
      <4>3. \A d \in Events : added'[i][d] <= Slices(processes[i])
        BY <1>1, <3>2 DEF Sound
      <4> QED BY <1>1, <2>2, <3>2, <4>2, <4>3 DEF TablesSound, Shaped
    <3> QED BY <2>1, <3>1, <3>2 DEF TickFails
  <2>5. failures' \in Nat
    BY <1>1, <2>1 DEF TickFails, Fails, TablesSound
  <2>6. TablesSound' /\ Shaped'
    <3>1. TablesSound'
      BY <1>1, <2>3, <2>4, <2>5 DEF TablesSound
    <3>2. /\ missed' \in [Invocations -> SUBSET Events]
          /\ slice' \in [Invocations -> Nat] /\ unanswered' \in [Invocations -> Nat]
      BY <1>1, <2>1, <2>2 DEF TickFails, Shaped
    <3>3. /\ step' \in [Invocations -> Steps]
          /\ left' \in [Invocations -> SUBSET Events]
      BY <1>1, <1>8, <2>1 DEF Warn, Shaped, Steps
    <3> QED BY <1>1, <2>3, <2>4, <3>1, <3>2, <3>3 DEF Shaped
  <2>7. \A d \in left'[i] : Affords(i, d)'
    <3>1. \A d \in left'[i] : added'[i][d] + MaxAttempts <= Slices(processes[i])
      BY <1>1, <2>3, <2>4 DEF Sound
    <3> QED BY <1>a, <2>3, <3>1 DEF Affords
  <2>8. \A d \in listed[i] \ left'[i] : added'[i][d] > 0 \/ d \in missed'[i]
    BY <1>1, <1>a, <2>2, <2>3, <2>4 DEF Sound
  <2> QED BY <1>1, <1>a, <2>2, <2>3, <2>4, <2>6, <2>7, <2>8 DEF Sound, Steps, Running, Shaped
<1>9. CASE Finish(i)
  <2>1. step'[i] = "done" /\ step[i] = "next" /\ left[i] = {}
    BY <1>1, <1>9 DEF Finish, Shaped
  <2>2. TablesSound' /\ Shaped'
    BY <1>1, <1>3, <1>9 DEF Finish, Shaped, Steps, TablesSound, tables
  <2> QED BY <1>1, <1>9, <2>1, <2>2 DEF Finish, Sound, Steps, Running, tables
<1>10. CASE StartAgain(i)
  <2>1. /\ step'[i] = "start" /\ processes'[i] = processes[i] + 1
        /\ step[i] \in {"done", "exited"}
    BY <1>1, <1>10 DEF StartAgain, Shaped
  <2>2. /\ unanswered[i] = 0 /\ unanswered'[i] = 0 /\ added'[i] = added[i] /\ left'[i] = left[i]
        /\ left[i] = {}
    BY <1>1, <1>10, <2>1 DEF StartAgain, Sound
  <2>3. Slices(processes'[i]) = Slices(processes[i]) + MaxAttempts
    BY <1>1, <2>1, OneMore DEF Sound
  <2>4. \A e \in Events : added'[i][e] + MaxAttempts <= Slices(processes'[i])
    BY <1>1, <1>a, <2>2, <2>3 DEF Sound
  <2>5. \A e \in Events : Affords(i, e)'
    BY <1>a, <2>2, <2>3, <2>4 DEF Affords
  <2>6. \A e \in Events : added'[i][e] <= Slices(processes'[i])
    BY <1>a, <2>2, <2>3, <2>4
  <2>7. TablesSound' /\ Shaped'
    BY <1>1, <1>3, <1>10 DEF StartAgain, Shaped, Steps, TablesSound, tables
  <2> QED BY <1>1, <1>10, <2>1, <2>2, <2>5, <2>6, <2>7 DEF StartAgain, Sound, Steps, Running, tables
<1>11. CASE GiveUp(i)
  <2>1. /\ step'[i] = "off" /\ processes'[i] = 0 /\ listed'[i] = {} /\ missed'[i] = {}
        /\ added'[i] = Never /\ step[i] \in {"done", "exited"}
    BY <1>1, <1>11 DEF GiveUp, Shaped
  <2>2. TablesSound' /\ Shaped'
    BY <1>1, <1>2, <1>3, <1>11 DEF GiveUp, Shaped, Steps, TablesSound, tables
  <2>3. Slices(processes'[i]) = 0
    BY <2>1, OneMore
  <2>4. \A e \in Events : added'[i][e] <= Slices(processes'[i])
    BY <1>2, <2>1, <2>3
  <2> QED BY <1>1, <1>2, <1>11, <2>1, <2>2, <2>4 DEF GiveUp, Sound, Steps, Running, tables
<1>12. CASE Ends(i)
  <2>1. /\ step'[i] = "exited" /\ left'[i] = {} /\ slice'[i] = 0 /\ unanswered'[i] = 0
        /\ failures' \in Nat
    BY <1>1, <1>12 DEF Ends, Fails, Shaped, TablesSound
  <2>2. TablesSound' /\ Shaped'
    BY <1>1, <1>3, <1>12, <2>1 DEF Ends, Shaped, Steps, TablesSound, tables
  <2> QED BY <1>1, <1>a, <1>12, <2>1, <2>2 DEF Ends, Sound, Steps, Running, tables
<1>13. CASE AddUnanswered(i)
  <2>1. PICK e \in left[i] : IsNext(i, e) /\ Advance(i, e)
    BY <1>13 DEF AddUnanswered
  <2>2. e \in Events
    BY <1>1 DEF Sound
  <2>3. /\ step[i] = "add" /\ step'[i] = "add" /\ unanswered'[i] = unanswered[i] + 1
        /\ unanswered[i] + 1 < MaxAttempts /\ failures' \in Nat
        /\ unanswered' \in [Invocations -> Nat]
        /\ UNCHANGED <<made, throughput, step, left, slice, processes, listed, missed>>
    BY <1>1, <1>13 DEF AddUnanswered, Fails, Shaped, TablesSound
  <2>4. /\ added'[i][e] = added[i][e] + 1
        /\ \A d \in Events \ {e} : added'[i][d] = added[i][d]
        /\ serving' \in [Events -> Nat]
        /\ added' \in [Invocations -> [Events -> Nat]]
    BY <1>1, <2>1, <2>2, Advanced
  <2>5. TablesSound' /\ Shaped'
    BY <1>1, <2>3, <2>4 DEF Shaped, TablesSound
  <2>6. /\ \A d \in Events : added'[i][d] <= Slices(processes[i])
        /\ \A d \in left[i] \ {e} : added'[i][d] + MaxAttempts <= Slices(processes[i])
        /\ added'[i][e] + MaxAttempts <= Slices(processes[i]) + unanswered[i] + 1
    BY <1>1, <2>1, <2>3, <2>4, AddAffords DEF Sound
  <2>7. \A d \in left'[i] : Affords(i, d)'
    <3>1. Affords(i, e)'
      <4>1. IsNext(i, e)'
        BY <2>1, <2>3 DEF IsNext
      <4>2. unanswered[i] \in Nat
        BY <1>1 DEF Sound
      <4> QED BY <1>a, <2>3, <2>4, <2>6, <4>1, <4>2 DEF Affords
    <3>2. ASSUME NEW d \in left[i] \ {e} PROVE Affords(i, d)'
      <4>1. ~IsNext(i, d)'
        <5>1. left[i] \subseteq Nat
          BY <1>1, ReaperAssumption DEF Sound
        <5> QED BY <2>1, <2>3, <3>2, <5>1 DEF IsNext
      <4>2. added'[i][d] + MaxAttempts <= Slices(processes[i])
        BY <2>6
      <4> QED BY <1>a, <2>3, <4>1, <4>2 DEF Affords
    <3> QED BY <2>3, <3>1, <3>2
  <2>8. \A d \in listed[i] \ left[i] : added'[i][d] > 0 \/ d \in missed[i]
    BY <1>1, <1>a, <2>2, <2>4, <2>3 DEF Sound
  <2> QED BY <1>1, <2>3, <2>4, <2>5, <2>6, <2>7, <2>8 DEF Sound, Steps, Running, Shaped
<1> QED BY <1>4, <1>5, <1>6, <1>7, <1>8, <1>9, <1>10, <1>11, <1>12, <1>13 DEF Step

\* Every step keeps the invariant.
LEMMA ReaperNext ==
  ASSUME IInv, [Next]_vars
  PROVE  IInv'
<1>0. TablesSound' /\ Shaped' /\ (\A i \in Invocations : Sound(i)') => IInv'
  <2>1. \A i \in Invocations, e \in Events :
            added'[i][e] <= Slices(processes'[i]) <=> added'[i][e] <= processes'[i] * MaxAttempts
    BY DEF Slices
  <2> QED BY <2>1 DEF IInv, TypeOK, OneTickPerProcess, Fresh, Settled, TablesSound, Shaped, Sound
<1>1. TablesSound /\ Shaped /\ \A i \in Invocations : Sound(i)
  BY Apart
<1>2. ASSUME NEW i \in Invocations, Step(i) \/ AddUnanswered(i) \/ Ends(i) PROVE IInv'
  <2>1. Others(i) /\ made \subseteq made'
    BY <1>2, StepAlone
  <2>2. ASSUME NEW j \in Invocations \ {i} PROVE Sound(j)'
    BY <1>1, <2>1, StaysSound DEF Others
  <2> QED BY <1>0, <1>2, <2>2, StepSound
<1>3. ASSUME NEW e \in Events, Operate(e) PROVE IInv'
  <2>1. TablesSound' /\ Shaped'
    BY <1>1, <1>3 DEF Operate, TablesSound, Shaped, history, pending
  <2>2. ASSUME NEW i \in Invocations PROVE Sound(i)'
    BY <1>1, <1>3, StaysSound DEF Operate, history, pending
  <2> QED BY <1>0, <2>1, <2>2
<1>4. CASE UNCHANGED vars
  <2>1. TablesSound' /\ Shaped'
    BY <1>1, <1>4 DEF vars, tables, history, pending, TablesSound, Shaped
  <2>2. ASSUME NEW i \in Invocations PROVE Sound(i)'
    BY <1>1, <1>4, StaysSound DEF vars, tables, history, pending
  <2> QED BY <1>0, <2>1, <2>2
<1> QED BY <1>2, <1>3, <1>4 DEF Next

\* The invariant holds throughout every behaviour.
LEMMA ReaperInvariant == Spec => []IInv
<1> QED BY ReaperInit, ReaperNext, PTL DEF Spec

\* Invocations, counters and histories are what they are declared to be.
THEOREM ReaperTypeCorrect == Spec => []TypeOK
<1>1. IInv => TypeOK
  BY DEF IInv
<1> QED BY <1>1, ReaperInvariant, PTL

\* An invocation adds to an event no more than the SDK's attempts at one ADD for
\* each of its processes, whatever fails.
THEOREM OneTick == Spec => []OneTickPerProcess
<1>1. IInv => OneTickPerProcess
  BY DEF IInv
<1> QED BY <1>1, ReaperInvariant, PTL

\* A process that comes through has ticked every event it listed, or warned.
THEOREM NobodyIsPassedOver == Spec => []NobodyPassedOver
<1>1. IInv => NobodyPassedOver
  BY DEF IInv, Settled, NobodyPassedOver
<1> QED BY <1>1, ReaperInvariant, PTL

=============================================================================
