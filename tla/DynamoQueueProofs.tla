------------------------- MODULE DynamoQueueProofs -------------------------
(***************************************************************************)
(* What the production queue guarantees, for any number of visitors, calls *)
(* and polls.                                                              *)
(*                                                                         *)
(* The argument for AdmittedWithinServing: a position that a poll acts on  *)
(* was written by some call, and is not before that call's turn among all  *)
(* ADDs (Backed).  While the floodgates stay shut a token is only stored   *)
(* at a position that was called, so each visitor let in has a turn within *)
(* the serving counter, and turns are distinct.  Positions need not be.    *)
(*                                                                         *)
(* AdmittedInTurn and AdmissionAdvancesServing are false when a message is *)
(* delivered again or a PUT repeated: that writes a visitor anew, at       *)
(* another place.  They are proved for visitors that are written once      *)
(* (OneWriter), which then never stand further back than a poll saw them.  *)
(***************************************************************************)
EXTENDS DynamoQueue, DynamoEnrollProofs

\* Every step of the queue is a step of an enroll or leaves enrolls alone.
LEMMA QueueMoves ==
  ASSUME [Next]_vars
  PROVE  EnrollMoves
<1>1. ASSUME NEW p \in Polls, PollStep(p), UNCHANGED calls PROVE EnrollMoves
  BY <1>1 DEF EnrollMoves, PollStep, PollEvent, PollVisitor, PollServing, PollSet, PollBump,
              PollBumpLost, PollAbort, tables
<1>2. CASE Reaper /\ UNCHANGED calls
  BY <1>2 DEF EnrollMoves, Reaper, ReaperRead, ReaperAdd, ReaperAbort, tables
<1>3. ASSUME NEW item \in Overrides, Override(item), UNCHANGED calls PROVE EnrollMoves
  BY <1>3 DEF EnrollMoves, Override
<1>4. CASE Around
  BY <1>4 DEF EnrollMoves, Around, ReplicateEvent, ReplicateServing, ReplicateVisitor, ExpireVisitor
<1>5. CASE UNCHANGED vars
  BY <1>5 DEF EnrollMoves, vars, tables
<1> QED BY <1>1, <1>2, <1>3, <1>4, <1>5 DEF Next, EnrollMoves

\* A poll adds to the serving counter only what the counter lacked.
BumpForward == \A p \in Polls : poll[p].step = "bump" => poll[p].position > poll[p].serving

\* Types, and the direction of the ADD after an admission, hold initially.
LEMMA QueueTypeInit == Init => TypeOK /\ BumpForward
<1> SUFFICES ASSUME Init PROVE TypeOK /\ BumpForward
  OBVIOUS
<1>1. EnrollTypeOK
  BY EnrollTypeInit DEF Init
<1>2. Idle \in PollState /\ Idle.step # "bump"
  BY DEF Idle, PollState
<1> QED BY <1>1, <1>2 DEF Init, AdmitInit, TypeOK, BumpForward

\* A poll keeps the state of the queue well typed.
LEMMA PollStepType ==
  ASSUME TypeOK, BumpForward, NEW p \in Polls, PollStep(p), UNCHANGED calls
  PROVE  TypeOK' /\ BumpForward'
<1> USE DEF TypeOK, BumpForward
<1>1. Idle \in PollState /\ Idle.step # "bump" /\ poll[p] \in PollState /\ PolledBy[p] \in RequestIds
  BY PollsAssumption DEF Idle, PollState
<1>2. TablesTypeOK /\ CallsTypeOK /\ CallsTypeOK'
  BY DEF EnrollTypeOK, CallsTypeOK, calls
<1>3. UNCHANGED tables => TablesTypeOK'
  BY <1>2 DEF tables, TablesTypeOK
<1>4. CASE PollEvent(p)
  <2>1. PICK e \in Views("staleEvent", event, eventLag) :
            poll' = [poll EXCEPT ![p].step = "load", ![p].open = e.emergencyOpen]
    BY <1>4 DEF PollEvent
  <2>2. e.emergencyOpen \in BOOLEAN
    BY <1>2 DEF Views, TablesTypeOK, EventItem
  <2>3. poll'[p] \in PollState /\ poll'[p].step = "load"
    BY <1>1, <2>1, <2>2 DEF PollState
  <2> QED BY <1>2, <1>3, <1>4, <2>1, <2>3 DEF PollEvent, ghosts, EnrollTypeOK
<1>5. CASE PollVisitor(p)
  <2>1. PICK view \in Views("staleVisitors", visitors, visitorsLag) :
            poll' = [poll EXCEPT ![p] =
                IF PolledBy[p] \in DOMAIN view /\ ~view[PolledBy[p]].admitted
                THEN [@ EXCEPT !.step = "compare", !.position = view[PolledBy[p]].position]
                ELSE Idle]
    BY <1>5 DEF PollVisitor
  <2>2. PolledBy[p] \in DOMAIN view => view[PolledBy[p]].position \in Nat
    BY <1>2 DEF Views, TablesTypeOK, VisitorItem
  <2>3. poll'[p] \in PollState /\ poll'[p].step # "bump"
    BY <1>1, <2>1, <2>2 DEF PollState
  <2> QED BY <1>2, <1>3, <1>5, <2>1, <2>3 DEF PollVisitor, ghosts, EnrollTypeOK
<1>6. CASE PollServing(p)
  <2>1. PICK n \in Views("staleServing", serving, servingLag) :
            poll' = [poll EXCEPT ![p] =
                IF MayEnter(p, n) THEN [@ EXCEPT !.step = "sign", !.serving = n] ELSE Idle]
    BY <1>6 DEF PollServing
  <2>2. n \in Nat
    BY <1>2 DEF Views, TablesTypeOK
  <2>3. poll'[p] \in PollState /\ poll'[p].step # "bump"
    BY <1>1, <2>1, <2>2 DEF PollState
  <2> QED BY <1>2, <1>3, <1>6, <2>1, <2>3 DEF PollServing, ghosts, EnrollTypeOK
<1>7. CASE PollSet(p)
  <2>1. Admitted(PolledBy[p]) \in VisitorItem
    BY <1>2 DEF Admitted, VisitorItem, TablesTypeOK
  <2>2. TablesTypeOK'
    BY <1>1, <1>2, <1>7, <2>1 DEF PollSet, Insert, TablesTypeOK
  <2>3. poll'[p] \in PollState /\ (poll'[p].step = "bump" => poll'[p].position > poll'[p].serving)
    BY <1>1, <1>7 DEF PollSet, PollState
  <2>4. letIn' \subseteq RequestIds /\ UNCHANGED <<slice, wasOpen>>
    BY <1>1, <1>7 DEF PollSet
  <2>5. poll' \in [Polls -> PollState] /\ BumpForward'
    BY <1>7, <2>3 DEF PollSet
  <2> QED BY <1>2, <2>2, <2>4, <2>5 DEF EnrollTypeOK
<1>8. CASE PollBump(p)
  <2>1. serving' \in Nat
    BY <1>1, <1>2, <1>8 DEF PollBump, PollState, TablesTypeOK
  <2>2. TablesTypeOK'
    BY <1>2, <1>8, <2>1 DEF PollBump, TablesTypeOK
  <2> QED BY <1>1, <1>2, <1>8, <2>2 DEF PollBump, ghosts, EnrollTypeOK
<1>9. CASE PollBumpLost(p) \/ PollAbort(p)
  BY <1>1, <1>2, <1>3, <1>9 DEF PollBumpLost, PollAbort, ghosts, EnrollTypeOK
<1> QED BY <1>4, <1>5, <1>6, <1>7, <1>8, <1>9 DEF PollStep

\* Every step of the queue keeps the types and the direction of that ADD.
LEMMA QueueTypeNext ==
  ASSUME TypeOK, BumpForward, [Next]_vars
  PROVE  TypeOK' /\ BumpForward'
<1> USE DEF TypeOK, BumpForward
<1>1. ASSUME NEW c \in Calls, EnrollStep(c), UNCHANGED serverVars
      PROVE  TypeOK' /\ BumpForward'
  BY <1>1, EnrollStepType DEF serverVars, ghosts
<1>2. ASSUME NEW p \in Polls, PollStep(p), UNCHANGED calls
      PROVE  TypeOK' /\ BumpForward'
  BY <1>2, PollStepType
<1>3. CASE Reaper /\ UNCHANGED calls
  <2>1. CallsTypeOK'
    BY <1>3 DEF EnrollTypeOK, CallsTypeOK, calls
  <2>2. CASE ReaperRead
    <3>1. \A e \in Views("staleEvent", event, eventLag) : e.throughput \in Nat
      BY ThroughputsAssumption DEF Views, EnrollTypeOK, TablesTypeOK, EventItem
    <3>2. slice' \in Nat
      BY <2>2, <3>1 DEF ReaperRead, SliceOf
    <3> QED BY <2>1, <2>2, <3>2 DEF ReaperRead, tables, ghosts, EnrollTypeOK, TablesTypeOK
  <2>3. CASE ReaperAdd
    <3>1. serving' \in Nat /\ slice' \in Nat
      BY <2>3 DEF ReaperAdd, EnrollTypeOK, TablesTypeOK
    <3> QED BY <2>1, <2>3, <3>1 DEF ReaperAdd, ghosts, EnrollTypeOK, TablesTypeOK
  <2>4. CASE ReaperAbort
    BY <2>1, <2>4 DEF ReaperAbort, tables, ghosts, EnrollTypeOK, TablesTypeOK
  <2> QED BY <1>3, <2>2, <2>3, <2>4 DEF Reaper
<1>4. ASSUME NEW item \in Overrides, Override(item), UNCHANGED calls
      PROVE  TypeOK' /\ BumpForward'
  <2>1. item \in EventItem /\ item.emergencyOpen \in BOOLEAN
    BY PollsAssumption DEF EventItem
  <2> QED BY <1>4, <2>1 DEF Override, calls, EnrollTypeOK, TablesTypeOK, CallsTypeOK
<1>5. CASE Around /\ UNCHANGED serverVars
  BY <1>5, AroundType DEF Around, calls, serverVars, ghosts, EnrollTypeOK, CallsTypeOK
<1>6. CASE UNCHANGED vars
  BY <1>6 DEF vars, tables, calls, ghosts, EnrollTypeOK, TablesTypeOK, CallsTypeOK
<1> QED BY <1>1, <1>2, <1>3, <1>4, <1>5, <1>6 DEF Next

\* However enrolls, polls, the reaper, overrides and faults interleave, the
\* queue's state stays well typed.
THEOREM QueueTypeCorrect == Spec => []TypeOK
<1> QED BY QueueTypeInit, QueueTypeNext, PTL DEF Spec

-----------------------------------------------------------------------------

\* A call that has its turn keeps it.
LEMMA TurnKept ==
  ASSUME EnrollTypeOK, Progress, EnrollMoves, NEW c \in Calls, Counted(c)
  PROVE  Counted(c)' /\ RankOf(c)' = RankOf(c)
<1>1. base'[c] = base[c]
  <2>1. CASE UNCHANGED <<shards, calls>>
    BY <2>1 DEF calls
  <2>2. ASSUME NEW d \in Calls, EnrollStep(d) PROVE base'[c] = base[c]
    <3>1. CASE c # d
      BY <2>2, <3>1, EnrollFrame DEF OthersAlone
    <3>2. CASE c = d
      <4>1. pc[c] \notin {"count", "recount"}
        BY DEF Progress
      <4> QED BY <2>2, <3>2, <4>1, CountEffect
    <3> QED BY <3>1, <3>2
  <2> QED BY <2>1, <2>2 DEF EnrollMoves
<1> QED BY <1>1 DEF Counted, RankOf

\* The serving counter never falls.
LEMMA ServingGrows ==
  ASSUME TypeOK, BumpForward, [Next]_vars
  PROVE  serving \in Nat /\ serving' \in Nat /\ serving <= serving'
<1> USE DEF TypeOK, EnrollTypeOK, TablesTypeOK, BumpForward
<1>1. serving \in Nat /\ serving' \in Nat
  BY QueueTypeNext
<1>2. ASSUME NEW c \in Calls, EnrollStep(c) PROVE serving' = serving
  BY <1>2 DEF EnrollStep, Begin, Lookup, Count, CountUnanswered, AddToShard, ReadShard, SkipShard, Put,
              PutError, Abort, WriteVisitor, tables
<1>3. ASSUME NEW p \in Polls, PollStep(p) PROVE serving' >= serving
  <2>1. CASE PollBump(p)
    BY <1>1, <2>1 DEF PollBump, PollState
  <2>2. CASE ~PollBump(p)
    <3>1. UNCHANGED tables => serving' = serving
      BY DEF tables
    <3>2. PollEvent(p) \/ PollVisitor(p) \/ PollServing(p) \/ PollBumpLost(p) \/ PollAbort(p)
            => UNCHANGED tables
      BY DEF PollEvent, PollVisitor, PollServing, PollBumpLost, PollAbort
    <3>3. PollSet(p) => serving' = serving
      BY DEF PollSet
    <3>4. serving' = serving
      BY <1>3, <2>2, <3>1, <3>2, <3>3 DEF PollStep
    <3> QED BY <1>1, <3>4
  <2> QED BY <2>1, <2>2
<1>4. CASE Reaper
  BY <1>1, <1>4 DEF Reaper, ReaperRead, ReaperAdd, ReaperAbort, tables
<1>5. ASSUME NEW item \in Overrides, Override(item) PROVE serving' = serving
  BY <1>5 DEF Override
<1>6. CASE Around
  BY <1>6 DEF Around, ReplicateEvent, ReplicateServing, ReplicateVisitor, ExpireVisitor
<1>7. CASE UNCHANGED vars
  BY <1>7 DEF vars, tables
<1> QED BY <1>1, <1>2, <1>3, <1>4, <1>5, <1>6, <1>7 DEF Next

\* Whatever fails, and however stale a poll's reads were, the serving counter
\* is never taken back.
THEOREM ServingIsKept == Spec => ServingNeverFalls
<1>1. TypeOK /\ BumpForward /\ [Next]_vars => TypeOK' /\ BumpForward' /\ [serving' >= serving]_serving
  BY QueueTypeNext, ServingGrows
<1> QED BY <1>1, QueueTypeInit, PTL DEF Spec, ServingNeverFalls

\* As long as the floodgates were never opened, nobody has read them open, and
\* no replica of the serving counter is ahead of it.
Shut ==
    /\ servingLag <= serving
    /\ ~wasOpen => /\ ~event.emergencyOpen /\ ~eventLag.emergencyOpen
                   /\ \A p \in Polls : ~poll[p].open

\* A poll that is about to sign, does so for a place that was called.
SignsInTurn == ~wasOpen => \A p \in Polls : poll[p].step = "sign" => poll[p].position <= serving

\* Some call's turn among the ADDs backs each position that a poll may act on:
\* the one of a visitor that waits, in the table or in its replica, and the one
\* that a poll has read.
Backed ==
    /\ \A r \in DOMAIN visitors : ~visitors[r].admitted =>
        \E c \in Calls : RequestOf[c] = r /\ Counted(c) /\ RankOf(c) <= visitors[r].position
    /\ \A r \in DOMAIN visitorsLag : ~visitorsLag[r].admitted =>
        \E c \in Calls : RequestOf[c] = r /\ Counted(c) /\ RankOf(c) <= visitorsLag[r].position
    /\ \A p \in Polls : poll[p].step \in {"compare", "sign"} =>
        \E c \in Calls : RequestOf[c] = PolledBy[p] /\ Counted(c) /\ RankOf(c) <= poll[p].position

\* Whoever was let in has a turn that was called.
LetInBacked ==
    ~wasOpen => \A r \in letIn :
        \E c \in Calls : RequestOf[c] = r /\ Counted(c) /\ RankOf(c) <= serving

-----------------------------------------------------------------------------

\* Of the tables, an enroll writes a shard or its own visitor's item.
LEMMA EnrollWrites ==
  ASSUME NEW c \in Calls, EnrollStep(c)
  PROVE  /\ UNCHANGED <<event, eventLag, serving, servingLag, visitorsLag>>
         /\ visitors' = visitors \/ (pc[c] = "put" /\ WriteVisitor(c))
<1>1. UNCHANGED tables => UNCHANGED <<event, eventLag, serving, servingLag, visitors, visitorsLag>>
  BY DEF tables
<1>2. WriteVisitor(c) => UNCHANGED <<event, eventLag, serving, servingLag, visitorsLag>>
  BY DEF WriteVisitor
<1>3. Begin(c) \/ Lookup(c) \/ Abort(c) => UNCHANGED tables
  BY DEF Begin, Lookup, Abort
<1>4. \A s \in Shards : ReadShard(c, s) \/ SkipShard(c, s) => UNCHANGED tables
  BY DEF ReadShard, SkipShard
<1>5. Count(c) \/ CountUnanswered(c)
        => UNCHANGED <<event, eventLag, serving, servingLag, visitors, visitorsLag>>
  BY DEF Count, CountUnanswered, AddToShard
<1>6. Put(c) \/ PutError(c) => pc[c] = "put" /\ (WriteVisitor(c) \/ UNCHANGED tables)
  BY DEF Put, PutError
<1> QED BY <1>1, <1>2, <1>3, <1>4, <1>5, <1>6 DEF EnrollStep

\* Of the tables, a poll writes its visitor's item or the serving counter; only
\* the first lets anybody in.
LEMMA PollWrites ==
  ASSUME NEW p \in Polls, PollStep(p)
  PROVE  /\ UNCHANGED <<event, eventLag, servingLag, shards, visitorsLag, slice, wasOpen>>
         /\ PollSet(p) \/ UNCHANGED <<visitors, letIn>>
         /\ PollBump(p) \/ UNCHANGED serving
<1>1. PollEvent(p) \/ PollVisitor(p) \/ PollServing(p) \/ PollBumpLost(p) \/ PollAbort(p)
        => UNCHANGED <<tables, slice, ghosts>>
  BY DEF PollEvent, PollVisitor, PollServing, PollBumpLost, PollAbort
<1>2. UNCHANGED <<tables, slice, ghosts>>
        => UNCHANGED <<event, eventLag, serving, servingLag, shards, visitors, visitorsLag, slice,
                       letIn, wasOpen>>
  BY DEF tables, ghosts
<1>3. CASE PollSet(p)
  BY <1>3 DEF PollSet
<1>4. CASE PollBump(p)
  BY <1>4 DEF PollBump, ghosts
<1> QED BY <1>1, <1>2, <1>3, <1>4 DEF PollStep

\* What a poll's own record can become.
LEMMA PollRecord ==
  ASSUME TypeOK, Shut, NEW p \in Polls, PollStep(p)
  PROVE  /\ \A q \in Polls \ {p} : poll'[q] = poll[q]
         /\ ~wasOpen => ~poll'[p].open
         /\ poll'[p].step \in {"compare", "sign"} =>
                \/ /\ poll[p].step = "compare"
                   /\ poll'[p].position = poll[p].position
                   /\ ~wasOpen => poll'[p].position <= serving
                \/ /\ poll'[p].step = "compare"
                   /\ \E view \in {visitors, visitorsLag} :
                        /\ PolledBy[p] \in DOMAIN view
                        /\ ~view[PolledBy[p]].admitted
                        /\ poll'[p].position = view[PolledBy[p]].position
<1> USE DEF TypeOK, Shut
<1>1. Idle.step = "idle" /\ ~Idle.open
  BY DEF Idle
<1>2. poll[p] \in PollState /\ serving \in Nat /\ servingLag \in Nat
  BY DEF EnrollTypeOK, TablesTypeOK
<1>3. CASE PollEvent(p)
  <2>1. PICK e \in Views("staleEvent", event, eventLag) :
            poll' = [poll EXCEPT ![p].step = "load", ![p].open = e.emergencyOpen]
    BY <1>3 DEF PollEvent
  <2>2. ~wasOpen => ~e.emergencyOpen
    BY DEF Views
  <2> QED BY <1>2, <2>1, <2>2 DEF PollState
<1>4. CASE PollVisitor(p)
  <2>1. PICK view \in Views("staleVisitors", visitors, visitorsLag) :
            poll' = [poll EXCEPT ![p] =
                IF PolledBy[p] \in DOMAIN view /\ ~view[PolledBy[p]].admitted
                THEN [@ EXCEPT !.step = "compare", !.position = view[PolledBy[p]].position]
                ELSE Idle]
    BY <1>4 DEF PollVisitor
  <2>2. view \in {visitors, visitorsLag}
    BY DEF Views
  <2> QED BY <1>1, <1>2, <2>1, <2>2 DEF PollState
<1>5. CASE PollServing(p)
  <2>1. PICK n \in Views("staleServing", serving, servingLag) :
            poll' = [poll EXCEPT ![p] =
                IF MayEnter(p, n) THEN [@ EXCEPT !.step = "sign", !.serving = n] ELSE Idle]
    BY <1>5 DEF PollServing
  <2>2. n \in Nat /\ n <= serving
    BY <1>2 DEF Views
  <2>3. ~wasOpen /\ MayEnter(p, n) => poll[p].position <= serving
    BY <1>2, <2>2 DEF MayEnter, PollState
  <2> QED BY <1>1, <1>2, <1>5, <2>1, <2>3 DEF PollServing, PollState
<1>6. CASE PollSet(p)
  BY <1>1, <1>2, <1>6 DEF PollSet, PollState
<1>7. CASE PollBump(p) \/ PollBumpLost(p) \/ PollAbort(p)
  BY <1>1, <1>7 DEF PollBump, PollBumpLost, PollAbort
<1> QED BY <1>3, <1>4, <1>5, <1>6, <1>7 DEF PollStep

\* The reaper touches nothing but the serving counter.
LEMMA ReaperWrites ==
  ASSUME Reaper
  PROVE  UNCHANGED <<event, eventLag, servingLag, shards, visitors, visitorsLag, poll, letIn, wasOpen>>
BY DEF Reaper, ReaperRead, ReaperAdd, ReaperAbort, tables, ghosts

\* Replicas copy, and TTL removes.
LEMMA AroundWrites ==
  ASSUME Around
  PROVE  /\ UNCHANGED <<event, serving, shards, calls>>
         /\ eventLag' = eventLag \/ eventLag' = event
         /\ servingLag' = servingLag \/ servingLag' = serving
         /\ \A r \in DOMAIN visitors' : r \in DOMAIN visitors /\ visitors'[r] = visitors[r]
         /\ \A r \in DOMAIN visitorsLag' :
                \/ r \in DOMAIN visitorsLag /\ visitorsLag'[r] = visitorsLag[r]
                \/ r \in DOMAIN visitors /\ visitorsLag'[r] = visitors[r]
<1>1. CASE ReplicateEvent
  BY <1>1 DEF Around, ReplicateEvent
<1>2. CASE ReplicateServing
  BY <1>2 DEF Around, ReplicateServing
<1>3. ASSUME NEW r \in RequestIds, ReplicateVisitor(r)
      PROVE  /\ UNCHANGED <<event, eventLag, serving, servingLag, shards, visitors>>
             /\ \A q \in DOMAIN visitorsLag' :
                    \/ q \in DOMAIN visitorsLag /\ visitorsLag'[q] = visitorsLag[q]
                    \/ q \in DOMAIN visitors /\ visitorsLag'[q] = visitors[q]
  BY <1>3 DEF ReplicateVisitor, Insert, Remove
<1>4. ASSUME NEW r \in RequestIds, ExpireVisitor(r)
      PROVE  /\ UNCHANGED <<event, eventLag, serving, servingLag, shards, visitorsLag>>
             /\ \A q \in DOMAIN visitors' : q \in DOMAIN visitors /\ visitors'[q] = visitors[q]
  BY <1>4 DEF ExpireVisitor, Remove
<1> QED BY <1>1, <1>2, <1>3, <1>4 DEF Around

\* The floodgates are only ever opened by an override, which wasOpen remembers.
LEMMA ShutNext ==
  ASSUME TypeOK, BumpForward, Shut, [Next]_vars
  PROVE  Shut'
<1> USE DEF Shut
<1>1. /\ serving \in Nat /\ servingLag \in Nat /\ serving' \in Nat
      /\ serving <= serving' /\ servingLag <= serving'
  <2>1. serving \in Nat /\ serving' \in Nat /\ serving <= serving' /\ servingLag \in Nat
    BY ServingGrows DEF TypeOK, EnrollTypeOK, TablesTypeOK
  <2> QED BY <2>1
<1>2. ASSUME NEW c \in Calls, EnrollStep(c), UNCHANGED serverVars PROVE Shut'
  BY <1>1, <1>2, EnrollWrites DEF serverVars, ghosts
<1>3. ASSUME NEW p \in Polls, PollStep(p) PROVE Shut'
  BY <1>1, <1>3, PollWrites, PollRecord
<1>4. CASE Reaper
  BY <1>1, <1>4, ReaperWrites
<1>5. ASSUME NEW item \in Overrides, Override(item) PROVE Shut'
  BY <1>5 DEF Override
<1>6. CASE Around /\ UNCHANGED serverVars
  BY <1>1, <1>6, AroundWrites DEF serverVars, ghosts
<1>7. CASE UNCHANGED vars
  BY <1>7 DEF vars, tables, ghosts
<1> QED BY <1>2, <1>3, <1>4, <1>5, <1>6, <1>7 DEF Next

\* A position stays called once it was.
LEMMA SignsNext ==
  ASSUME TypeOK, BumpForward, Shut, SignsInTurn, [Next]_vars
  PROVE  SignsInTurn'
<1> USE DEF SignsInTurn
<1>1. /\ serving \in Nat /\ serving' \in Nat /\ serving <= serving'
      /\ \A p \in Polls : poll[p].position \in Nat /\ poll'[p].position \in Nat
  BY ServingGrows, QueueTypeNext DEF TypeOK, PollState
<1>2. wasOpen => wasOpen'
  BY <1>1, EnrollWrites, PollWrites, ReaperWrites DEF Next, Override, serverVars, vars, ghosts
<1>3. CASE UNCHANGED poll
  BY <1>1, <1>2, <1>3
<1>4. ASSUME NEW p \in Polls, PollStep(p) PROVE SignsInTurn'
  <2>1. /\ \A q \in Polls \ {p} : poll'[q] = poll[q]
        /\ poll'[p].step = "sign" /\ ~wasOpen => poll'[p].position <= serving
    BY <1>4, PollRecord
  <2> QED BY <1>1, <1>2, <2>1
<1>5. UNCHANGED poll \/ \E p \in Polls : PollStep(p)
  BY ReaperWrites DEF Next, Override, serverVars, vars
<1> QED BY <1>3, <1>4, <1>5

\* A backing turn stays one, and backs every later place too.
LEMMA BackingKept ==
  ASSUME EnrollTypeOK, Progress, EnrollMoves, NEW r, NEW m \in Nat, NEW n \in Nat, m <= n,
         \E c \in Calls : RequestOf[c] = r /\ Counted(c) /\ RankOf(c) <= m
  PROVE  \E c \in Calls : RequestOf[c] = r /\ Counted(c)' /\ RankOf(c)' <= n
<1>1. PICK c \in Calls : RequestOf[c] = r /\ Counted(c) /\ RankOf(c) <= m
  OBVIOUS
<1>2. RankOf(c) \in Nat
  BY TicketsFinite DEF RankOf, EnrollTypeOK, CallsTypeOK
<1>3. Counted(c)' /\ RankOf(c)' = RankOf(c)
  BY <1>1, TurnKept
<1> QED BY <1>1, <1>2, <1>3

\* An item that a call writes is backed by that call's own turn.
LEMMA WriteBacked ==
  ASSUME EnrollTypeOK, CallsInv, BatchesInv, "partialBatch" \notin Faults, EnrollMoves,
         NEW c \in Calls, pc[c] = "put", WriteVisitor(c)
  PROVE  /\ DOMAIN visitors' = DOMAIN visitors \cup {RequestOf[c]}
         /\ \A r \in DOMAIN visitors : r # RequestOf[c] => visitors'[r] = visitors[r]
         /\ Counted(c)' /\ RankOf(c)' <= visitors'[RequestOf[c]].position
<1>1. /\ DOMAIN visitors' = DOMAIN visitors \cup {RequestOf[c]}
      /\ \A r \in DOMAIN visitors : r # RequestOf[c] => visitors'[r] = visitors[r]
      /\ visitors'[RequestOf[c]].position = PositionOf(c)
  BY DEF WriteVisitor, Insert
<1>2. Counted(c) /\ RankOf(c) <= PositionOf(c)
  BY CaughtUpPosition DEF CallsInv, BatchesInv, Progress, PositionNotBeforeRank
<1>3. Counted(c)' /\ RankOf(c)' = RankOf(c)
  BY <1>2, TurnKept DEF CallsInv
<1> QED BY <1>1, <1>2, <1>3

\* Every step keeps Backed: whoever may still be let in has a turn within its position.
LEMMA BackedNext ==
  ASSUME TypeOK, BumpForward, CallsInv, BatchesInv, "partialBatch" \notin Faults, Shut, Backed,
         [Next]_vars
  PROVE  Backed'
<1> USE DEF TypeOK
<1>1. EnrollMoves /\ Progress
  BY QueueMoves DEF CallsInv
<1>2. /\ \A r \in DOMAIN visitors : visitors[r].position \in Nat
      /\ \A r \in DOMAIN visitorsLag : visitorsLag[r].position \in Nat
      /\ \A p \in Polls : poll[p].position \in Nat
  BY DEF EnrollTypeOK, TablesTypeOK, VisitorItem, PollState
<1> DEFINE Now(r, n) == \E c \in Calls : RequestOf[c] = r /\ Counted(c) /\ RankOf(c) <= n
           Then(r, n) == \E c \in Calls : RequestOf[c] = r /\ Counted(c)' /\ RankOf(c)' <= n
<1>3. ASSUME NEW r, NEW n \in Nat, Now(r, n) PROVE Then(r, n)
  <2>1. n <= n
    OBVIOUS
  <2> QED BY <1>1, <1>3, <2>1, BackingKept
<1> HIDE DEF Now, Then
<1>4. \A r \in DOMAIN visitors' : ~visitors'[r].admitted => Then(r, visitors'[r].position)
  <2>1. ASSUME NEW r \in DOMAIN visitors, ~visitors[r].admitted PROVE Then(r, visitors[r].position)
    <3>1. Now(r, visitors[r].position)
      BY <2>1 DEF Now, Backed
    <3> QED BY <1>2, <1>3, <3>1
  <2>2. CASE \A r \in DOMAIN visitors' :
                r \in DOMAIN visitors /\ visitors'[r] = visitors[r]
    BY <2>1, <2>2
  <2>3. ASSUME NEW c \in Calls, pc[c] = "put", WriteVisitor(c),
               NEW r \in DOMAIN visitors', ~visitors'[r].admitted
        PROVE  Then(r, visitors'[r].position)
    <3>1. /\ DOMAIN visitors' = DOMAIN visitors \cup {RequestOf[c]}
          /\ \A q \in DOMAIN visitors : q # RequestOf[c] => visitors'[q] = visitors[q]
          /\ Counted(c)' /\ RankOf(c)' <= visitors'[RequestOf[c]].position
      BY <1>1, <2>3, WriteBacked
    <3>2. CASE r = RequestOf[c]
      BY <3>1, <3>2 DEF Then
    <3>3. CASE r # RequestOf[c]
      BY <2>1, <2>3, <3>1, <3>3
    <3> QED BY <3>2, <3>3
  <2>4. ASSUME NEW p \in Polls, PollSet(p), NEW r \in DOMAIN visitors', ~visitors'[r].admitted
        PROVE  r \in DOMAIN visitors /\ visitors'[r] = visitors[r]
    <3>1. Admitted(PolledBy[p]).admitted
      BY DEF Admitted, EnrollTypeOK, TablesTypeOK, VisitorItem
    <3> QED BY <2>4, <3>1 DEF PollSet, Insert
  <2>5. \/ \A r \in DOMAIN visitors' : r \in DOMAIN visitors /\ visitors'[r] = visitors[r]
        \/ \E c \in Calls : pc[c] = "put" /\ WriteVisitor(c)
        \/ \E p \in Polls : PollSet(p)
    BY EnrollWrites, PollWrites, ReaperWrites, AroundWrites DEF Next, Override, vars, tables
  <2> QED BY <2>1, <2>2, <2>3, <2>4, <2>5
<1>5. \A r \in DOMAIN visitorsLag' : ~visitorsLag'[r].admitted => Then(r, visitorsLag'[r].position)
  <2>1. ASSUME NEW r \in DOMAIN visitorsLag, ~visitorsLag[r].admitted
        PROVE  Then(r, visitorsLag[r].position)
    <3>1. Now(r, visitorsLag[r].position)
      BY <2>1 DEF Now, Backed
    <3> QED BY <1>2, <1>3, <3>1
  <2>2. ASSUME NEW r \in DOMAIN visitors, ~visitors[r].admitted
        PROVE  Then(r, visitors[r].position)
    <3>1. Now(r, visitors[r].position)
      BY <2>2 DEF Now, Backed
    <3> QED BY <1>2, <1>3, <3>1
  <2>3. \A r \in DOMAIN visitorsLag' :
            \/ r \in DOMAIN visitorsLag /\ visitorsLag'[r] = visitorsLag[r]
            \/ r \in DOMAIN visitors /\ visitorsLag'[r] = visitors[r]
    BY EnrollWrites, PollWrites, ReaperWrites, AroundWrites DEF Next, Override, vars, tables
  <2> QED BY <2>1, <2>2, <2>3
<1>6. \A p \in Polls : poll'[p].step \in {"compare", "sign"} => Then(PolledBy[p], poll'[p].position)
  <2>1. ASSUME NEW p \in Polls, poll[p].step \in {"compare", "sign"}
        PROVE  Then(PolledBy[p], poll[p].position)
    <3>1. Now(PolledBy[p], poll[p].position)
      BY <2>1 DEF Now, Backed
    <3> QED BY <1>2, <1>3, <3>1
  <2>2. ASSUME NEW p \in Polls, PollStep(p), poll'[p].step \in {"compare", "sign"}
        PROVE  Then(PolledBy[p], poll'[p].position)
    <3>1. CASE poll[p].step = "compare" /\ poll'[p].position = poll[p].position
      BY <2>1, <3>1
    <3>2. CASE \E view \in {visitors, visitorsLag} :
                  /\ PolledBy[p] \in DOMAIN view
                  /\ ~view[PolledBy[p]].admitted
                  /\ poll'[p].position = view[PolledBy[p]].position
      <4>1. PICK view \in {visitors, visitorsLag} :
                  /\ PolledBy[p] \in DOMAIN view
                  /\ ~view[PolledBy[p]].admitted
                  /\ poll'[p].position = view[PolledBy[p]].position
        BY <3>2
      <4>2. Now(PolledBy[p], view[PolledBy[p]].position)
        BY <4>1 DEF Now, Backed
      <4> QED BY <1>2, <1>3, <4>1, <4>2
    <3> QED BY <2>2, <3>1, <3>2, PollRecord
  <2>3. UNCHANGED poll \/ \E p \in Polls : PollStep(p)
    BY ReaperWrites DEF Next, Override, serverVars, vars
  <2>4. \A p \in Polls : PollStep(p) => \A q \in Polls \ {p} : poll'[q] = poll[q]
    BY PollRecord
  <2> QED BY <2>1, <2>2, <2>3, <2>4
<1> QED BY <1>4, <1>5, <1>6 DEF Backed, Then

\* Every step keeps LetInBacked: an item is only signed for at a place that was called.
LEMMA LetInNext ==
  ASSUME TypeOK, BumpForward, CallsInv, Shut, SignsInTurn, Backed, LetInBacked, [Next]_vars
  PROVE  LetInBacked'
<1> SUFFICES ASSUME ~wasOpen', NEW r \in letIn'
             PROVE  \E c \in Calls : RequestOf[c] = r /\ Counted(c)' /\ RankOf(c)' <= serving'
  BY DEF LetInBacked
<1>1. EnrollMoves /\ Progress /\ EnrollTypeOK
  BY QueueMoves DEF CallsInv
<1>2. serving \in Nat /\ serving' \in Nat /\ serving <= serving'
  BY ServingGrows
<1>3. ~wasOpen
  BY EnrollWrites, PollWrites, ReaperWrites DEF Next, Override, serverVars, vars, ghosts
<1>4. CASE r \in letIn
  <2>1. \E c \in Calls : RequestOf[c] = r /\ Counted(c) /\ RankOf(c) <= serving
    BY <1>3, <1>4 DEF LetInBacked
  <2> QED BY <1>1, <1>2, <2>1, BackingKept
<1>5. CASE r \notin letIn
  <2>1. PICK p \in Polls : PollSet(p)
    BY <1>5, PollWrites, ReaperWrites DEF Next, Override, serverVars, vars, ghosts
  <2>2. poll[p].step = "sign" /\ r = PolledBy[p]
    BY <1>5, <2>1 DEF PollSet
  <2>3. \E c \in Calls : RequestOf[c] = r /\ Counted(c) /\ RankOf(c) <= poll[p].position
    BY <2>2 DEF Backed
  <2>4. poll[p].position \in Nat /\ poll[p].position <= serving
    BY <1>3, <2>2 DEF SignsInTurn, TypeOK, PollState
  <2>5. poll[p].position <= serving'
    BY <1>2, <2>4
  <2> QED BY <1>1, <1>2, <2>3, <2>4, <2>5, BackingKept
<1> QED BY <1>4, <1>5

\* The first turn is 1: a call that has its turn has counted itself.
LEMMA TurnPositive ==
  ASSUME EnrollTypeOK, Progress, NEW c \in Calls, Counted(c)
  PROVE  RankOf(c) \in Nat /\ RankOf(c) >= 1
<1>1. /\ base[c] \in ShardCounters /\ NoEnrollments \in ShardCounters
      /\ MergeCounterShards(NoEnrollments) = 0
  BY MergeEmpty DEF EnrollTypeOK, CallsTypeOK
<1>2. Home(c) \in Shards
  BY AssignShardAssumption, CallsAssumption DEF Home
<1>3. NoLater(NoEnrollments, base[c]) /\ NoEnrollments[Home(c)] < base[c][Home(c)]
  BY <1>1, <1>2 DEF NoLater, NoEnrollments, ShardCounters, Progress
<1>4. MergeCounterShards(NoEnrollments) < RankOf(c)
  BY <1>1, <1>2, <1>3, MergeStrict DEF RankOf
<1>5. RankOf(c) \in Nat
  BY <1>1, TicketsFinite DEF RankOf
<1> QED BY <1>1, <1>4, <1>5

\* Distinct turns within the serving counter: no more of them than places.
LEMMA TurnsBoundLetIn ==
  ASSUME TypeOK, CallsInv, LetInBacked
  PROVE  AdmittedWithinServing
<1> SUFFICES ASSUME ~wasOpen PROVE Cardinality(letIn) <= serving
  BY DEF AdmittedWithinServing
<1> DEFINE Backs(c, r) == RequestOf[c] = r /\ Counted(c) /\ RankOf(c) <= serving
           turn == [r \in letIn |-> RankOf(CHOOSE c \in Calls : Backs(c, r))]
           T == 1 .. serving
<1>1. ASSUME NEW r \in letIn
      PROVE  (CHOOSE c \in Calls : Backs(c, r)) \in Calls /\ Backs(CHOOSE c \in Calls : Backs(c, r), r)
  <2>1. \E c \in Calls : Backs(c, r)
    BY DEF LetInBacked
  <2> HIDE DEF Backs
  <2> QED BY <2>1
<1>2. ASSUME NEW c \in Calls, Counted(c) PROVE RankOf(c) \in Nat /\ RankOf(c) >= 1
  BY <1>2, TurnPositive DEF CallsInv
<1>3. serving \in Nat
  BY DEF TypeOK, EnrollTypeOK, TablesTypeOK
<1>4. \A r \in letIn : turn[r] \in T
  BY <1>1, <1>2, <1>3
<1>5. ASSUME NEW q \in letIn, NEW r \in letIn, turn[q] = turn[r] PROVE q = r
  <2> DEFINE c == CHOOSE c \in Calls : Backs(c, q)
             d == CHOOSE d \in Calls : Backs(d, r)
  <2>1. c \in Calls /\ d \in Calls /\ Counted(c) /\ Counted(d) /\ RequestOf[c] = q /\ RequestOf[d] = r
    BY <1>1
  <2>2. RankOf(c) = RankOf(d)
    BY <1>5
  <2>3. RanksDistinct
    BY OrderedRanks DEF CallsInv
  <2>4. c = d
    BY <2>1, <2>2, <2>3 DEF RanksDistinct
  <2> QED BY <2>1, <2>4
<1>6. turn \in Injection(letIn, T)
  BY <1>4, <1>5 DEF Injection, IsInjective
<1>7. IsFiniteSet(T) /\ Cardinality(T) = serving
  <2>1. 1 \in Int /\ serving \in Int
    BY <1>3
  <2>2. IsFiniteSet(T) /\ Cardinality(T) = IF 1 > serving THEN 0 ELSE serving - 1 + 1
    BY <2>1, FS_Interval
  <2> QED BY <1>3, <2>2
<1> QED BY <1>6, <1>7, FS_Injection

\* The inductive invariant of the queue while no batch leaves a key unprocessed.
QueueInv ==
    /\ TypeOK /\ BumpForward
    /\ CallsInv /\ BatchesInv
    /\ Shut /\ SignsInTurn /\ Backed /\ LetInBacked

\* The invariant holds initially.
LEMMA QueueInvInit == Init => QueueInv
<1> SUFFICES ASSUME Init PROVE QueueInv
  OBVIOUS
<1>1. TypeOK /\ BumpForward /\ CallsInv /\ BatchesInv
  BY QueueTypeInit, CallsInvInit DEF Init
<1>2. /\ serving = 0 /\ servingLag = 0 /\ ~event.emergencyOpen /\ ~eventLag.emergencyOpen
      /\ DOMAIN visitors = {} /\ DOMAIN visitorsLag = {}
  BY DEF Init, EnrollInit, TablesInit
<1>3. letIn = {} /\ \A p \in Polls : poll[p].step = "idle" /\ ~poll[p].open
  BY DEF Init, AdmitInit, Idle
<1> QED BY <1>1, <1>2, <1>3 DEF QueueInv, Shut, SignsInTurn, Backed, LetInBacked

\* Every step of the queue keeps the invariant.
LEMMA QueueInvNext ==
  ASSUME "partialBatch" \notin Faults, QueueInv, [Next]_vars
  PROVE  QueueInv'
<1> USE DEF QueueInv
<1>1. TypeOK' /\ BumpForward'
  BY QueueTypeNext
<1>2. CallsInv' /\ BatchesInv'
  BY <1>1, QueueMoves, CallsInvNext DEF TypeOK
<1>3. Shut' /\ SignsInTurn' /\ Backed' /\ LetInBacked'
  BY ShutNext, SignsNext, BackedNext, LetInNext
<1> QED BY <1>1, <1>2, <1>3

\* However calls race, retry, are redelivered or read stale items: unless the
\* floodgates were opened, no more visitors get a token than places were called.
THEOREM LetInWithinServing ==
  ASSUME "partialBatch" \notin Faults
  PROVE  Spec => []AdmittedWithinServing
<1>1. QueueInv => AdmittedWithinServing
  BY TurnsBoundLetIn DEF QueueInv
<1> QED BY <1>1, QueueInvInit, QueueInvNext, PTL DEF Spec

-----------------------------------------------------------------------------
\* The tables implement the abstract queue of tickets.

\* Every ADD draws the next ticket, and the call that is answered takes it.
LEMMA CallDraws ==
  ASSUME TypeOK, CallsInv, NEW c \in Calls, EnrollStep(c), UNCHANGED <<letIn, serving, wasOpen>>
  PROVE  Line!Draw \/ UNCHANGED Line!vars
<1> USE DEF TypeOK, CallsInv
<1>1. OthersAlone(c) /\ Home(c) \in Shards /\ shards \in ShardCounters
  BY EnrollFrame, AssignShardAssumption, CallsAssumption DEF Home, EnrollTypeOK, TablesTypeOK
<1>2. \A d \in Calls \ {c} : Counted(d)' = Counted(d) /\ RankOf(d)' = RankOf(d)
  BY <1>1 DEF OthersAlone, Counted, RankOf
<1> DEFINE Held == [r \in RequestIds |-> TurnsOf(r)]
           q == RequestOf[c]
<1>3. CASE Count(c)
  <2>1. shards' = CountOne(shards, Home(c)) /\ base'[c] = shards' /\ ~Counted(c)
    BY <1>3, CountEffect DEF Count, AddToShard, Home, Progress
  <2>2. MergeCounterShards(shards') = MergeCounterShards(shards) + 1
    BY <1>1, <2>1, MergeCountOne
  <2>3. Counted(c)'
    <3>1. shards'[Home(c)] > 0
      BY <1>1, <2>1 DEF CountOne, ShardCounters
    <3> QED BY <1>1, <2>1, <3>1 DEF Counted, NoEnrollments
  <2>4. RankOf(c)' = MergeCounterShards(shards')
    BY <2>1 DEF RankOf
  <2>5. TurnsOf(q)' = TurnsOf(q) \cup {MergeCounterShards(shards')}
    BY <1>2, <2>1, <2>3, <2>4 DEF TurnsOf
  <2>6. \A r : r # q => TurnsOf(r)' = TurnsOf(r)
    BY <1>2 DEF TurnsOf
  <2>7. q \in RequestIds
    BY CallsAssumption
  <2> HIDE DEF q
  <2>8. Held' = [Held EXCEPT ![q] = @ \cup {MergeCounterShards(shards')}]
    BY <2>5, <2>6, <2>7
  <2>9. Line!Take(q)
    BY <2>8 DEF Line!Take
  <2> QED BY <2>2, <2>7, <2>9 DEF Line!Draw
<1>4. CASE ~Count(c)
  <2>1. base'[c] = base[c]
    BY <1>4, CountEffect
  <2>2. \A d \in Calls : Counted(d)' = Counted(d) /\ RankOf(d)' = RankOf(d)
    BY <1>2, <2>1 DEF Counted, RankOf
  <2>3. Held' = Held
    BY <2>2 DEF TurnsOf
  <2>4. CASE CountUnanswered(c)
    <3>1. MergeCounterShards(shards') = MergeCounterShards(shards) + 1
      BY <1>1, <2>4, MergeCountOne DEF CountUnanswered, AddToShard, Home
    <3> QED BY <2>3, <3>1 DEF Line!Draw
  <2>5. CASE ~CountUnanswered(c)
    <3>1. UNCHANGED shards
      BY <1>4, <2>5 DEF EnrollStep, Begin, Lookup, ReadShard, SkipShard, Put, PutError, Abort,
                        WriteVisitor, tables
    <3> QED BY <2>3, <3>1 DEF Line!vars
  <2> QED BY <2>4, <2>5
<1> QED BY <1>3, <1>4

\* A step that leaves the shards and the calls alone leaves the tickets alone.
LEMMA TicketsStay ==
  ASSUME UNCHANGED <<shards, calls>>
  PROVE  /\ MergeCounterShards(shards)' = MergeCounterShards(shards)
         /\ [r \in RequestIds |-> TurnsOf(r)]' = [r \in RequestIds |-> TurnsOf(r)]
BY DEF calls, TurnsOf, Counted, RankOf

\* A token is stored for a visitor that holds a called ticket.
LEMMA PollUsesTicket ==
  ASSUME QueueInv, NEW p \in Polls, PollStep(p), UNCHANGED calls
  PROVE  Line!Next \/ UNCHANGED Line!vars
<1> USE DEF QueueInv
<1>1. UNCHANGED <<shards, wasOpen>>
  BY PollWrites
<1>2. CASE PollSet(p) /\ PolledBy[p] \notin letIn
  <2>1. poll[p].step = "sign" /\ letIn' = letIn \cup {PolledBy[p]} /\ UNCHANGED serving
    BY <1>2 DEF PollSet
  <2>2. PICK c \in Calls : RequestOf[c] = PolledBy[p] /\ Counted(c) /\ RankOf(c) <= poll[p].position
    BY <2>1 DEF Backed
  <2>3. RankOf(c) \in Nat /\ RankOf(c) >= 1
    BY <2>2, TurnPositive DEF CallsInv
  <2>4. wasOpen \/ RankOf(c) <= serving
    <3>1. poll[p].position \in Nat /\ serving \in Nat
      BY DEF TypeOK, EnrollTypeOK, TablesTypeOK, PollState
    <3> QED BY <2>1, <2>2, <2>3, <3>1 DEF SignsInTurn
  <2>5. RankOf(c) \in TurnsOf(PolledBy[p]) /\ PolledBy[p] \in RequestIds
    BY <2>2, PollsAssumption DEF TurnsOf
  <2>6. Line!MayEnter(PolledBy[p])
    BY <2>4, <2>5 DEF Line!MayEnter
  <2>7. Line!LetIn(PolledBy[p])
    BY <1>1, <1>2, <2>1, <2>6, TicketsStay DEF Line!LetIn
  <2> QED BY <2>5, <2>7 DEF Line!Next
<1>3. CASE PollBump(p)
  <2>1. serving' \in Nat /\ serving' > serving
    BY <1>3 DEF PollBump, BumpForward, TypeOK, EnrollTypeOK, TablesTypeOK, PollState
  <2>2. Line!Call
    BY <1>1, <1>3, <2>1, TicketsStay DEF Line!Call, Line!Forward, PollBump, ghosts
  <2> QED BY <2>2 DEF Line!Next
<1>4. CASE UNCHANGED <<letIn, serving>>
  BY <1>1, <1>4, TicketsStay DEF Line!vars
<1>5. PollSet(p) /\ PolledBy[p] \in letIn => UNCHANGED <<letIn, serving>>
  BY DEF PollSet
<1>6. PollSet(p) \/ UNCHANGED letIn
  BY PollWrites
<1>7. PollBump(p) \/ UNCHANGED serving
  BY PollWrites
<1>8. PollSet(p) => UNCHANGED serving
  BY DEF PollSet
<1> QED BY <1>2, <1>3, <1>4, <1>5, <1>6, <1>7, <1>8

\* Every step of the queue draws a ticket, uses one, calls some, opens the
\* floodgates or leaves all of that alone.
LEMMA TicketsNext ==
  ASSUME QueueInv, [Next]_vars
  PROVE  [Line!Next]_(Line!vars)
<1> SUFFICES Line!Next \/ UNCHANGED Line!vars
  OBVIOUS
<1>1. ASSUME NEW c \in Calls, EnrollStep(c), UNCHANGED serverVars
      PROVE  Line!Next \/ UNCHANGED Line!vars
  <2>1. UNCHANGED <<letIn, serving, wasOpen>>
    BY <1>1, EnrollWrites DEF serverVars, ghosts
  <2> QED BY <1>1, <2>1, CallDraws DEF QueueInv, Line!Next
<1>2. ASSUME NEW p \in Polls, PollStep(p), UNCHANGED calls PROVE Line!Next \/ UNCHANGED Line!vars
  BY <1>2, PollUsesTicket
<1>3. CASE Reaper /\ UNCHANGED calls
  <2>1. UNCHANGED <<shards, letIn, wasOpen>>
    BY <1>3, ReaperWrites
  <2>2. serving' = serving \/ (serving' \in Nat /\ serving' > serving)
    BY <1>3 DEF Reaper, ReaperRead, ReaperAdd, ReaperAbort, tables, QueueInv, TypeOK, EnrollTypeOK,
                TablesTypeOK
  <2> QED BY <1>3, <2>1, <2>2, TicketsStay DEF Line!Next, Line!Call, Line!Forward, Line!vars
<1>4. ASSUME NEW item \in Overrides, Override(item), UNCHANGED calls
      PROVE  Line!Next \/ UNCHANGED Line!vars
  <2>1. UNCHANGED <<shards, letIn, serving>> /\ (wasOpen' = TRUE \/ wasOpen' = wasOpen)
    BY <1>4, PollsAssumption DEF Override, EventItem, QueueInv, TypeOK
  <2>2. wasOpen \in BOOLEAN
    BY DEF QueueInv, TypeOK
  <2> QED BY <1>4, <2>1, <2>2, TicketsStay DEF Line!Next, Line!Open, Line!vars
<1>5. CASE Around /\ UNCHANGED serverVars
  <2>1. UNCHANGED <<shards, calls, serving, letIn, wasOpen>>
    BY <1>5, AroundWrites DEF serverVars, ghosts
  <2> QED BY <2>1, TicketsStay DEF Line!vars
<1>6. CASE UNCHANGED vars
  <2>1. UNCHANGED <<shards, calls, serving, letIn, wasOpen>>
    BY <1>6 DEF vars, tables, ghosts
  <2> QED BY <2>1, TicketsStay DEF Line!vars
<1> QED BY <1>1, <1>2, <1>3, <1>4, <1>5, <1>6 DEF Next

\* Nobody holds a ticket at the start.
LEMMA TicketsInit == Init => Line!Init
<1> SUFFICES ASSUME Init PROVE Line!Init
  OBVIOUS
<1>1. MergeCounterShards(shards) = 0 /\ serving = 0 /\ letIn = {} /\ wasOpen = FALSE
  BY MergeEmpty DEF Init, EnrollInit, TablesInit, AdmitInit
<1>2. \A r : TurnsOf(r) = {}
  BY DEF Init, EnrollInit, CallsInit, TurnsOf, Counted
<1> QED BY <1>1, <1>2 DEF Line!Init

\* The production queue implements the queue of tickets, for any number of
\* visitors, calls, redeliveries and polls, and under every fault but a batch
\* that leaves keys unprocessed.
THEOREM TicketsFair ==
  ASSUME "partialBatch" \notin Faults
  PROVE  Spec => ImplementsTicketQueue
<1>1. QueueInv /\ [Next]_vars => QueueInv' /\ [Line!Next]_(Line!vars)
  BY QueueInvNext, TicketsNext
<1> QED BY <1>1, TicketsInit, QueueInvInit, PTL DEF Spec, ImplementsTicketQueue, Line!Spec

-----------------------------------------------------------------------------
\* When every visitor is written once: no message is delivered again and no PUT
\* is repeated.
OneWriter ==
    /\ "putError" \notin Faults
    /\ \A c, d \in Calls : RequestOf[c] = RequestOf[d] => c = d

\* Nobody knows of a visitor whose call has not written it yet.
Unwritten ==
    \A c \in Calls : pc[c] \notin Ended =>
        /\ RequestOf[c] \notin DOMAIN visitors \cup DOMAIN visitorsLag
        /\ \A p \in Polls : PolledBy[p] = RequestOf[c] => poll[p].step \in {"idle", "load"}

\* No visitor moves back: it stands at the place at which a poll has seen it
\* wait, or at none.
Steady ==
    /\ \A p \in Polls : poll[p].step \in {"compare", "sign", "bump"} /\ PolledBy[p] \in DOMAIN visitors
            => visitors[PolledBy[p]].position <= poll[p].position
    /\ \A r \in DOMAIN visitors \cap DOMAIN visitorsLag : ~visitorsLag[r].admitted
            => visitors[r].position <= visitorsLag[r].position

\* What a poll has read of the serving counter has been reached.
ReadBefore == \A p \in Polls : poll[p].step \in {"sign", "bump"} => poll[p].serving <= serving

\* How a poll comes to sign, and to add to the serving counter.
LEMMA PollReads ==
  ASSUME TypeOK, Shut, NEW p \in Polls, PollStep(p)
  PROVE  /\ poll'[p].step = "sign" => poll'[p].serving <= serving
         /\ poll'[p].step = "bump" => /\ poll[p].step = "sign"
                                      /\ poll'[p].position = poll[p].position
                                      /\ poll'[p].serving = poll[p].serving
         /\ poll[p].step = "bump" => PollBump(p) \/ PollBumpLost(p) \/ PollAbort(p)
<1> USE DEF TypeOK, Shut
<1>1. Idle.step = "idle"
  BY DEF Idle
<1>2. poll[p] \in PollState /\ serving \in Nat /\ servingLag \in Nat
  BY DEF EnrollTypeOK, TablesTypeOK
<1>3. CASE PollEvent(p)
  BY <1>2, <1>3 DEF PollEvent, PollState
<1>4. CASE PollVisitor(p)
  BY <1>1, <1>2, <1>4 DEF PollVisitor, PollState
<1>5. CASE PollServing(p)
  <2>1. PICK n \in Views("staleServing", serving, servingLag) :
            poll' = [poll EXCEPT ![p] =
                IF MayEnter(p, n) THEN [@ EXCEPT !.step = "sign", !.serving = n] ELSE Idle]
    BY <1>5 DEF PollServing
  <2>2. n \in Nat /\ n <= serving
    BY <1>2 DEF Views
  <2> QED BY <1>1, <1>2, <1>5, <2>1, <2>2 DEF PollServing, PollState
<1>6. CASE PollSet(p)
  BY <1>1, <1>2, <1>6 DEF PollSet, PollState
<1>7. CASE PollBump(p) \/ PollBumpLost(p) \/ PollAbort(p)
  BY <1>1, <1>2, <1>7 DEF PollBump, PollBumpLost, PollAbort, PollState
<1> QED BY <1>3, <1>4, <1>5, <1>6, <1>7 DEF PollStep

\* An enroll that is not a PUT leaves visitors alone; who has ended stays so.
LEMMA EnrollEnds ==
  ASSUME EnrollTypeOK, OneWriter, NEW c \in Calls, EnrollStep(c)
  PROVE  /\ pc[c] \notin Ended
         /\ \/ UNCHANGED visitors
            \/ pc[c] = "put" /\ pc'[c] = "new" /\ WriteVisitor(c)
         /\ \A d \in Calls \ {c} : pc'[d] = pc[d] /\ RequestOf[d] # RequestOf[c]
<1>1. pc[c] \notin Ended
  BY DEF EnrollStep, Begin, Lookup, Count, CountUnanswered, ReadShard, SkipShard, Put, PutError,
         Abort, Ended
<1>2. CASE Put(c)
  BY <1>1, <1>2, EnrollFrame DEF OthersAlone, Put, OneWriter, EnrollTypeOK, CallsTypeOK
<1>3. CASE ~Put(c)
  <2>1. ~PutError(c)
    BY DEF PutError, OneWriter
  <2>2. UNCHANGED visitors
    BY <1>3, <2>1 DEF EnrollStep, Begin, Lookup, Count, CountUnanswered, AddToShard, ReadShard,
                      SkipShard, Abort, tables
  <2> QED BY <1>1, <2>2, EnrollFrame DEF OthersAlone, OneWriter
<1> QED BY <1>2, <1>3

\* What a PUT leaves of the visitors.
LEMMA PutWrites ==
  ASSUME NEW c \in Calls, WriteVisitor(c)
  PROVE  /\ DOMAIN visitors' = DOMAIN visitors \cup {RequestOf[c]}
         /\ \A r \in DOMAIN visitors : r # RequestOf[c] => visitors'[r] = visitors[r]
         /\ ~visitors'[RequestOf[c]].admitted
         /\ UNCHANGED <<serving, visitorsLag>>
BY DEF WriteVisitor, Insert

\* What an admission leaves of the visitors.
LEMMA SetWrites ==
  ASSUME TypeOK, NEW p \in Polls, PollSet(p)
  PROVE  /\ DOMAIN visitors' = DOMAIN visitors \cup {PolledBy[p]}
         /\ \A r \in DOMAIN visitors : r # PolledBy[p] => visitors'[r] = visitors[r]
         /\ PolledBy[p] \in DOMAIN visitors
                => visitors'[PolledBy[p]].position = visitors[PolledBy[p]].position
         /\ PolledBy[p] \notin DOMAIN visitors => visitors'[PolledBy[p]].position = 0
         /\ poll[p].step = "sign"
         /\ UNCHANGED <<serving, visitorsLag>>
BY DEF PollSet, Insert, Admitted, TypeOK, EnrollTypeOK, TablesTypeOK, VisitorItem

\* The ways in which a step of the queue can change the visitors and what is
\* known of them.
LEMMA VisitorMoves ==
  ASSUME TypeOK, OneWriter, [Next]_vars
  PROVE  \/ /\ UNCHANGED <<visitors, visitorsLag, poll>>
            /\ UNCHANGED pc \/ \E c \in Calls : EnrollStep(c)
         \/ /\ \E c \in Calls : EnrollStep(c) /\ pc[c] = "put" /\ pc'[c] = "new" /\ WriteVisitor(c)
            /\ UNCHANGED <<visitorsLag, poll>>
         \/ /\ \E p \in Polls : PollStep(p)
            /\ UNCHANGED <<visitorsLag, pc>>
         \/ Around /\ UNCHANGED <<poll, pc>>
<1> USE DEF TypeOK
<1>1. ASSUME NEW c \in Calls, EnrollStep(c), UNCHANGED serverVars
      PROVE  UNCHANGED <<visitorsLag, poll>>
  BY <1>1, EnrollWrites DEF serverVars
<1>2. ASSUME NEW p \in Polls, PollStep(p), UNCHANGED calls
      PROVE  UNCHANGED <<visitorsLag, pc>>
  BY <1>2, PollWrites DEF calls
<1>3. CASE Reaper /\ UNCHANGED calls
  BY <1>3, ReaperWrites DEF calls
<1>4. ASSUME NEW item \in Overrides, Override(item), UNCHANGED calls
      PROVE  UNCHANGED <<visitors, visitorsLag, poll, pc>>
  BY <1>4 DEF Override, calls
<1>5. CASE Around /\ UNCHANGED serverVars
  BY <1>5 DEF Around, serverVars, calls
<1>6. CASE UNCHANGED vars
  BY <1>6 DEF vars, tables, calls
<1> QED BY <1>1, <1>2, <1>3, <1>4, <1>5, <1>6, EnrollEnds DEF Next

\* Who is admitted was so before, or is by a poll in this step.
LEMMA AdmittedBefore ==
  ASSUME TypeOK, OneWriter, [Next]_vars, NEW r \in DOMAIN visitors', visitors'[r].admitted
  PROVE  \/ r \in DOMAIN visitors /\ visitors'[r] = visitors[r]
         \/ \E p \in Polls : PollSet(p) /\ r = PolledBy[p]
<1>1. CASE UNCHANGED visitors
  BY <1>1
<1>2. ASSUME NEW c \in Calls, WriteVisitor(c) PROVE r \in DOMAIN visitors /\ visitors'[r] = visitors[r]
  BY <1>2, PutWrites
<1>3. ASSUME NEW p \in Polls, PollSet(p)
      PROVE  \/ r \in DOMAIN visitors /\ visitors'[r] = visitors[r]
             \/ r = PolledBy[p]
  BY <1>3, SetWrites
<1>4. ASSUME NEW p \in Polls, PollStep(p) PROVE PollSet(p) \/ UNCHANGED visitors
  BY <1>4, PollWrites
<1>5. CASE Around
  BY <1>5, AroundWrites
<1> QED BY <1>1, <1>2, <1>3, <1>4, <1>5, VisitorMoves

\* Who is being admitted stands no further back than its poll has seen it.
LEMMA SetRegards ==
  ASSUME TypeOK, Steady, NEW p \in Polls, PollSet(p)
  PROVE  visitors'[PolledBy[p]].position <= poll[p].position
<1>1. poll[p].step = "sign" /\ poll[p].position \in Nat
  BY SetWrites DEF TypeOK, PollState
<1>2. CASE PolledBy[p] \in DOMAIN visitors
  <2>1. visitors[PolledBy[p]].position <= poll[p].position
    BY <1>1, <1>2 DEF Steady
  <2> QED BY <1>2, <2>1, SetWrites
<1>3. CASE PolledBy[p] \notin DOMAIN visitors
  <2>1. visitors'[PolledBy[p]].position = 0
    BY <1>3, SetWrites
  <2> QED BY <1>1, <2>1
<1> QED BY <1>2, <1>3

\* Every step keeps Unwritten.
LEMMA UnwrittenNext ==
  ASSUME TypeOK, TypeOK', Shut, OneWriter, Unwritten, [Next]_vars
  PROVE  Unwritten'
<1> SUFFICES ASSUME NEW c \in Calls, pc'[c] \notin Ended
             PROVE  /\ RequestOf[c] \notin DOMAIN visitors' \cup DOMAIN visitorsLag'
                    /\ \A p \in Polls : PolledBy[p] = RequestOf[c] => poll'[p].step \in {"idle", "load"}
  BY DEF Unwritten
<1> USE DEF TypeOK
<1>1. CASE /\ UNCHANGED <<visitors, visitorsLag, poll>>
           /\ UNCHANGED pc \/ \E d \in Calls : EnrollStep(d)
  <2>1. pc[c] \notin Ended
    BY <1>1, EnrollEnds
  <2> QED BY <1>1, <2>1 DEF Unwritten
<1>2. ASSUME NEW d \in Calls, EnrollStep(d), pc'[d] = "new", WriteVisitor(d), UNCHANGED <<visitorsLag, poll>>
      PROVE  /\ RequestOf[c] \notin DOMAIN visitors' \cup DOMAIN visitorsLag'
             /\ \A p \in Polls : PolledBy[p] = RequestOf[c] => poll'[p].step \in {"idle", "load"}
  <2>1. c # d
    BY <1>2 DEF Ended
  <2>2. pc[c] \notin Ended /\ RequestOf[c] # RequestOf[d]
    BY <1>2, <2>1, EnrollEnds
  <2> QED BY <1>2, <2>2, PutWrites DEF Unwritten
<1>3. ASSUME NEW p \in Polls, PollStep(p), UNCHANGED <<visitorsLag, pc>>
      PROVE  /\ RequestOf[c] \notin DOMAIN visitors' \cup DOMAIN visitorsLag'
             /\ \A q \in Polls : PolledBy[q] = RequestOf[c] => poll'[q].step \in {"idle", "load"}
  <2>1. /\ RequestOf[c] \notin DOMAIN visitors \cup DOMAIN visitorsLag
        /\ \A q \in Polls : PolledBy[q] = RequestOf[c] => poll[q].step \in {"idle", "load"}
    BY <1>3 DEF Unwritten
  <2>2. RequestOf[c] \notin DOMAIN visitors'
    <3>1. ASSUME PollSet(p) PROVE RequestOf[c] # PolledBy[p]
      BY <1>3, <2>1, <3>1 DEF PollSet
    <3>2. CASE PollSet(p)
      <4>1. DOMAIN visitors' = DOMAIN visitors \cup {PolledBy[p]}
        BY <3>2, SetWrites
      <4> QED BY <2>1, <3>1, <3>2, <4>1
    <3>3. CASE UNCHANGED visitors
      BY <2>1, <3>3
    <3> QED BY <1>3, <3>2, <3>3, PollWrites
  <2>3. PolledBy[p] = RequestOf[c] => poll'[p].step \in {"idle", "load"}
    <3>1. poll'[p] \in PollState
      BY <1>3 DEF TypeOK
    <3>2. PolledBy[p] = RequestOf[c] => poll'[p].step \notin {"compare", "sign", "bump"}
      BY <1>3, <2>1, PollRecord, PollReads
    <3> QED BY <3>1, <3>2 DEF PollState
  <2> QED BY <1>3, <2>1, <2>2, <2>3, PollRecord
<1>4. CASE Around /\ UNCHANGED <<poll, pc>>
  BY <1>4, AroundWrites DEF Unwritten
<1> QED BY <1>1, <1>2, <1>3, <1>4, VisitorMoves

\* Every step keeps Steady: a visitor's place is as it was seen, or 0.
LEMMA SteadyNext ==
  ASSUME TypeOK, TypeOK', Shut, OneWriter, Unwritten, Steady, [Next]_vars
  PROVE  Steady'
<1> USE DEF TypeOK
<1>1. /\ \A r \in DOMAIN visitors : visitors[r].position \in Nat
      /\ \A r \in DOMAIN visitorsLag : visitorsLag[r].position \in Nat
      /\ \A p \in Polls : poll[p].position \in Nat /\ poll'[p].position \in Nat
  BY DEF EnrollTypeOK, TablesTypeOK, VisitorItem, PollState
<1>2. CASE UNCHANGED <<visitors, visitorsLag, poll>>
  BY <1>2 DEF Steady
<1>3. ASSUME NEW c \in Calls, pc[c] = "put", WriteVisitor(c), UNCHANGED <<visitorsLag, poll>> PROVE Steady'
  <2>1. /\ RequestOf[c] \notin DOMAIN visitorsLag
        /\ \A p \in Polls : PolledBy[p] = RequestOf[c] => poll[p].step \in {"idle", "load"}
    BY <1>3 DEF Unwritten, Ended
  <2>2. \A r \in DOMAIN visitors' :
            \/ r \in DOMAIN visitors /\ visitors'[r] = visitors[r]
            \/ r = RequestOf[c]
    BY <1>3, PutWrites
  <2>3. \A p \in Polls : poll'[p] = poll[p]
    BY <1>3
  <2>4. visitorsLag' = visitorsLag
    BY <1>3
  <2> QED BY <2>1, <2>2, <2>3, <2>4 DEF Steady
<1>4. ASSUME NEW p \in Polls, PollStep(p), UNCHANGED visitorsLag PROVE Steady'
  <2>1. \A r \in DOMAIN visitors' :
            \/ r \in DOMAIN visitors /\ visitors'[r].position = visitors[r].position
            \/ visitors'[r].position = 0
    BY <1>4, PollWrites, SetWrites
  <2>2. \A q \in Polls \ {p} : poll'[q] = poll[q]
    BY <1>4, PollRecord
  <2>3. poll'[p].step \in {"compare", "sign", "bump"} /\ PolledBy[p] \in DOMAIN visitors
            => visitors[PolledBy[p]].position <= poll'[p].position
    <3>1. CASE poll'[p].step = "bump"
      BY <1>4, <3>1, PollReads DEF Steady
    <3>2. CASE poll[p].step = "compare" /\ poll'[p].position = poll[p].position
      BY <3>2 DEF Steady
    <3>3. ASSUME NEW view \in {visitors, visitorsLag}, PolledBy[p] \in DOMAIN view,
                 ~view[PolledBy[p]].admitted, poll'[p].position = view[PolledBy[p]].position,
                 PolledBy[p] \in DOMAIN visitors
          PROVE  visitors[PolledBy[p]].position <= poll'[p].position
      BY <1>1, <3>3 DEF Steady
    <3> QED BY <1>4, <3>1, <3>2, <3>3, PollRecord
  <2> QED BY <1>1, <1>4, <2>1, <2>2, <2>3 DEF Steady
<1>5. CASE Around /\ UNCHANGED poll
  <2>1. \A r \in DOMAIN visitors' : r \in DOMAIN visitors /\ visitors'[r] = visitors[r]
    BY <1>5, AroundWrites
  <2>2. \A r \in DOMAIN visitorsLag' :
            \/ r \in DOMAIN visitorsLag /\ visitorsLag'[r] = visitorsLag[r]
            \/ r \in DOMAIN visitors /\ visitorsLag'[r] = visitors[r]
    BY <1>5, AroundWrites
  <2> QED BY <1>1, <1>5, <2>1, <2>2 DEF Steady
<1> QED BY <1>2, <1>3, <1>4, <1>5, VisitorMoves

\* Every step keeps ReadBefore: the serving counter never falls.
LEMMA ReadBeforeNext ==
  ASSUME TypeOK, TypeOK', BumpForward, Shut, ReadBefore, [Next]_vars
  PROVE  ReadBefore'
<1> USE DEF ReadBefore
<1>1. /\ serving \in Nat /\ serving' \in Nat /\ serving <= serving'
      /\ \A p \in Polls : poll[p].serving \in Nat /\ poll'[p].serving \in Nat
  BY ServingGrows DEF TypeOK, PollState
<1>2. CASE UNCHANGED poll
  BY <1>1, <1>2
<1>3. ASSUME NEW p \in Polls, PollStep(p) PROVE ReadBefore'
  <2>1. \A q \in Polls \ {p} : poll'[q] = poll[q]
    BY <1>3, PollRecord
  <2>2. poll'[p].step \in {"sign", "bump"} => poll'[p].serving <= serving
    BY <1>3, PollReads
  <2> QED BY <1>1, <2>1, <2>2
<1>4. UNCHANGED poll \/ \E p \in Polls : PollStep(p)
  BY ReaperWrites DEF Next, Override, serverVars, vars
<1> QED BY <1>2, <1>3, <1>4

\* Every step keeps AdmittedInTurn: who is admitted stands no further back than
\* the poll that admits it has seen it.
LEMMA InTurnNext ==
  ASSUME TypeOK, TypeOK', BumpForward, Shut, SignsInTurn, OneWriter, Steady, AdmittedInTurn, [Next]_vars
  PROVE  AdmittedInTurn'
<1> SUFFICES ASSUME ~wasOpen', NEW r \in DOMAIN visitors', visitors'[r].admitted
             PROVE  visitors'[r].position <= serving'
  BY DEF AdmittedInTurn
<1> USE DEF TypeOK
<1>1. serving \in Nat /\ serving' \in Nat /\ serving <= serving' /\ visitors'[r].position \in Nat
  BY ServingGrows DEF EnrollTypeOK, TablesTypeOK, VisitorItem
<1>2. ~wasOpen
  BY EnrollWrites, PollWrites, ReaperWrites DEF Next, Override, serverVars, vars, ghosts
<1>3. CASE r \in DOMAIN visitors /\ visitors'[r] = visitors[r]
  BY <1>1, <1>2, <1>3 DEF AdmittedInTurn
<1>4. ASSUME NEW p \in Polls, PollSet(p), r = PolledBy[p] PROVE visitors'[r].position <= serving'
  <2>1. poll[p].step = "sign" /\ poll[p].position \in Nat
    BY <1>4, SetWrites DEF PollState
  <2>2. visitors'[r].position <= poll[p].position
    BY <1>4, <2>1, SetRegards
  <2>3. poll[p].position <= serving
    BY <1>2, <2>1 DEF SignsInTurn
  <2> QED BY <1>1, <2>1, <2>2, <2>3
<1>5. \/ r \in DOMAIN visitors /\ visitors'[r] = visitors[r]
      \/ \E p \in Polls : PollSet(p) /\ r = PolledBy[p]
  BY AdmittedBefore
<1> QED BY <1>3, <1>4, <1>5

\* The inductive invariant of the queue while every visitor is written once.
TurnInv ==
    /\ TypeOK /\ BumpForward /\ Shut /\ SignsInTurn
    /\ Unwritten /\ Steady /\ ReadBefore /\ AdmittedInTurn

\* The invariant holds initially, and nobody is admitted yet.
LEMMA TurnInvInit == Init => TurnInv /\ AdmissionAdvancesServing
<1> SUFFICES ASSUME Init PROVE TurnInv /\ AdmissionAdvancesServing
  OBVIOUS
<1>1. QueueInv
  BY QueueInvInit
<1>2. DOMAIN visitors = {} /\ DOMAIN visitorsLag = {}
  BY DEF Init, EnrollInit, TablesInit
<1>3. \A p \in Polls : poll[p].step = "idle"
  BY DEF Init, AdmitInit, Idle
<1> QED BY <1>1, <1>2, <1>3 DEF QueueInv, TurnInv, Unwritten, Steady, ReadBefore, AdmittedInTurn,
                                AdmissionAdvancesServing

\* Every step of the queue keeps the invariant.
LEMMA TurnInvNext ==
  ASSUME OneWriter, TurnInv, [Next]_vars
  PROVE  TurnInv'
<1> USE DEF TurnInv
<1>1. TypeOK' /\ BumpForward'
  BY QueueTypeNext
<1>2. Shut' /\ SignsInTurn'
  BY ShutNext, SignsNext
<1>3. Unwritten' /\ Steady' /\ ReadBefore' /\ AdmittedInTurn'
  BY <1>1, UnwrittenNext, SteadyNext, ReadBeforeNext, InTurnNext
<1> QED BY <1>1, <1>2, <1>3

\* However stale the reads and whenever TTL takes items: if every visitor is
\* written once and the floodgates stay shut, nobody holds a token whose place
\* was not called.
THEOREM AdmittedWhenCalled ==
  ASSUME OneWriter
  PROVE  Spec => []AdmittedInTurn
<1>1. TurnInv => AdmittedInTurn
  BY DEF TurnInv
<1> QED BY <1>1, TurnInvInit, TurnInvNext, PTL DEF Spec

\* A step that is not cut short leaves nobody admitted beyond the serving
\* counter, except while the poll that did so is about to add to it.
LEMMA AdvancesNext ==
  ASSUME OneWriter, {"crash", "bumpLost"} \cap Faults = {}, TurnInv, TurnInv',
         AdmissionAdvancesServing, [Next]_vars
  PROVE  AdmissionAdvancesServing'
<1> SUFFICES ASSUME NEW r \in DOMAIN visitors', visitors'[r].admitted
             PROVE  \/ visitors'[r].position <= serving'
                    \/ \E q \in Polls : PolledBy[q] = r /\ poll'[q].step = "bump"
  BY DEF AdmissionAdvancesServing
<1> USE DEF TurnInv, TypeOK
<1>1. serving \in Nat /\ serving' \in Nat /\ serving <= serving' /\ visitors'[r].position \in Nat
  BY ServingGrows DEF EnrollTypeOK, TablesTypeOK, VisitorItem
<1>2. ASSUME NEW p \in Polls, PollSet(p), r = PolledBy[p]
      PROVE  visitors'[r].position <= serving' \/ poll'[p].step = "bump"
  <2>1. poll[p].step = "sign" /\ poll[p].position \in Nat /\ poll[p].serving \in Nat
    BY <1>2, SetWrites DEF PollState
  <2>2. poll[p].position > poll[p].serving => poll'[p].step = "bump"
    BY <1>2 DEF PollSet, PollState
  <2>3. poll[p].serving <= serving
    BY <2>1 DEF ReadBefore
  <2>4. visitors'[r].position <= poll[p].position
    BY <1>2, <2>1, SetRegards
  <2> QED BY <1>1, <2>1, <2>2, <2>3, <2>4
<1>3. ASSUME r \in DOMAIN visitors, visitors'[r] = visitors[r]
      PROVE  \/ visitors'[r].position <= serving'
             \/ \E q \in Polls : PolledBy[q] = r /\ poll'[q].step = "bump"
  <2>1. CASE visitors[r].position <= serving
    BY <1>1, <1>3, <2>1
  <2>2. ASSUME NEW q \in Polls, PolledBy[q] = r, poll[q].step = "bump"
        PROVE  visitors'[r].position <= serving' \/ poll'[q].step = "bump"
    <3>1. CASE PollStep(q)
      <4>1. PollBump(q)
        BY <2>2, <3>1, PollReads DEF PollBumpLost, PollAbort
      <4>2. /\ poll[q].position \in Nat /\ poll[q].serving \in Nat /\ poll[q].serving <= serving
            /\ visitors[r].position <= poll[q].position
        BY <1>3, <2>2 DEF ReadBefore, Steady, PollState
      <4>3. serving' = serving + (poll[q].position - poll[q].serving)
        BY <4>1 DEF PollBump
      <4> QED BY <1>1, <1>3, <4>2, <4>3
    <3>2. CASE poll'[q] = poll[q]
      BY <2>2, <3>2
    <3>3. UNCHANGED poll \/ \E p \in Polls : PollStep(p)
      BY ReaperWrites DEF Next, Override, serverVars, vars
    <3>4. \A p \in Polls : PollStep(p) => \A o \in Polls \ {p} : poll'[o] = poll[o]
      BY PollRecord
    <3> QED BY <3>1, <3>2, <3>3, <3>4
  <2> QED BY <1>3, <2>1, <2>2 DEF AdmissionAdvancesServing
<1>4. \/ r \in DOMAIN visitors /\ visitors'[r] = visitors[r]
      \/ \E p \in Polls : PollSet(p) /\ r = PolledBy[p]
  BY AdmittedBefore
<1> QED BY <1>2, <1>3, <1>4

\* While no handler dies and no ADD is lost, early admissions pull the serving
\* counter up to everybody they let in, though each poll adds what it has read
\* to be lacking, out of date as that may be.
THEOREM AdmissionsAdvance ==
  ASSUME OneWriter, {"crash", "bumpLost"} \cap Faults = {}
  PROVE  Spec => []AdmissionAdvancesServing
<1>1. TurnInv /\ AdmissionAdvancesServing /\ [Next]_vars => (TurnInv /\ AdmissionAdvancesServing)'
  BY TurnInvNext, AdvancesNext
<1> QED BY <1>1, TurnInvInit, PTL DEF Spec

-----------------------------------------------------------------------------
\* What the enrolls guarantee, they guarantee while visitors are being admitted
\* as well: the queue keeps their invariant.
LEMMA EnrollsUndisturbed == Spec => [](TypeOK /\ BumpForward /\ CallsInv /\ BatchesInv)
<1> DEFINE Inv == TypeOK /\ BumpForward /\ CallsInv /\ BatchesInv
<1>1. Init => Inv
  BY QueueTypeInit, CallsInvInit DEF Init
<1>2. Inv /\ [Next]_vars => Inv'
  <2> SUFFICES ASSUME Inv, [Next]_vars PROVE Inv'
    OBVIOUS
  <2>1. TypeOK' /\ BumpForward'
    BY QueueTypeNext
  <2>2. EnrollMoves /\ EnrollTypeOK'
    BY <2>1, QueueMoves DEF TypeOK
  <2> QED BY <2>1, <2>2, CallsInvNext
<1> HIDE DEF Inv
<1>3. Inv => TypeOK /\ BumpForward /\ CallsInv /\ BatchesInv
  BY DEF Inv
<1> QED BY <1>1, <1>2, <1>3, PTL DEF Spec

\* In the production queue, too, it is first come, first served, and nobody
\* gains a place by racing, whatever polls, the reaper and operators do.
THEOREM QueueFirstCome ==
  ASSUME "partialBatch" \notin Faults
  PROVE  Spec => [](NoOvertaking /\ PositionNotBeforeRank)
<1>1. CallsInv /\ BatchesInv => NoOvertaking /\ PositionNotBeforeRank
  BY QueuedPosition, CaughtUpPosition DEF CallsInv, BatchesInv
<1> QED BY <1>1, EnrollsUndisturbed, PTL

\* While nothing deletes visitors and reads are current, who is about to be
\* admitted is on record.
Known == \A p \in Polls : poll[p].step \in {"compare", "sign"} => PolledBy[p] \in DOMAIN visitors

\* Every step keeps Known.
LEMMA KnownNext ==
  ASSUME {"staleVisitors", "indexFails", "ttl"} \cap Faults = {}, TypeOK, Known, [Next]_vars
  PROVE  Known' /\ DOMAIN visitors \subseteq DOMAIN visitors'
<1> USE DEF TypeOK
<1>1. DOMAIN visitors \subseteq DOMAIN visitors'
  <2>1. ASSUME NEW c \in Calls, EnrollStep(c) PROVE DOMAIN visitors \subseteq DOMAIN visitors'
    BY <2>1, EnrollWrites, PutWrites
  <2>2. ASSUME NEW p \in Polls, PollStep(p) PROVE DOMAIN visitors \subseteq DOMAIN visitors'
    BY <2>2, PollWrites, SetWrites
  <2>3. Around => UNCHANGED visitors
    BY DEF Around, ReplicateEvent, ReplicateServing, ReplicateVisitor, ExpireVisitor
  <2> QED BY <2>1, <2>2, <2>3, ReaperWrites DEF Next, Override, vars, tables
<1>2. ASSUME NEW p \in Polls, PollStep(p) PROVE Known'
  <2>1. \A q \in Polls \ {p} : poll'[q] = poll[q]
    BY <1>2 DEF PollStep, PollEvent, PollVisitor, PollServing, PollSet, PollBump, PollBumpLost, PollAbort
  <2>2. ASSUME poll'[p].step \in {"compare", "sign"}, poll[p].step # "compare"
        PROVE  PolledBy[p] \in DOMAIN visitors
    <3>1. poll[p] \in PollState /\ Idle.step = "idle"
      BY DEF Idle
    <3>2. ~PollEvent(p) /\ ~PollServing(p) /\ ~PollBump(p) /\ ~PollBumpLost(p) /\ ~PollAbort(p)
      BY <2>2, <3>1 DEF PollEvent, PollServing, PollBump, PollBumpLost, PollAbort, PollState
    <3>3. ~PollSet(p)
      BY <2>2, <3>1 DEF PollSet, PollState
    <3>4. PollVisitor(p)
      BY <1>2, <3>2, <3>3 DEF PollStep
    <3>5. PICK view \in Views("staleVisitors", visitors, visitorsLag) :
            poll' = [poll EXCEPT ![p] =
                IF PolledBy[p] \in DOMAIN view /\ ~view[PolledBy[p]].admitted
                THEN [@ EXCEPT !.step = "compare", !.position = view[PolledBy[p]].position]
                ELSE Idle]
      BY <3>4 DEF PollVisitor
    <3>6. view = visitors
      BY DEF Views
    <3> QED BY <2>2, <3>1, <3>5, <3>6
  <2> QED BY <1>1, <2>1, <2>2 DEF Known
<1>3. UNCHANGED poll \/ \E p \in Polls : PollStep(p)
  BY ReaperWrites DEF Next, Override, serverVars, vars
<1> QED BY <1>1, <1>2, <1>3 DEF Known

\* A step that leaves the calls alone, and the sessions on record, keeps Single.
LEMMA SingleKept ==
  ASSUME Owned, Single, UNCHANGED calls, DOMAIN visitors' = DOMAIN visitors,
         \A r \in DOMAIN visitors : visitors'[r].session = visitors[r].session
  PROVE  Owned' /\ Single'
<1>1. pc' = pc /\ answer' = answer /\ ahead' = ahead
  BY DEF calls
<1>2. \A c \in Calls : FoundIn(visitors, c)' = FoundIn(visitors, c)
  BY DEF FoundIn
<1> QED BY <1>1, <1>2 DEF Owned, Single, TakesTurns

\* A session that asks again is given the same visitor, whether or not that has
\* been admitted in the meantime, under the assumptions of SameVisitor.
THEOREM QueueSameVisitor ==
  ASSUME {"staleVisitors", "indexFails", "ttl"} \cap Faults = {}
  PROVE  Spec => []SameVisitorAgain
<1> DEFINE Inv == Owned /\ Single /\ Known
<1>1. Init => Inv
  BY DEF Init, EnrollInit, TablesInit, CallsInit, AdmitInit, Idle, Owned, Single, Known
<1>2. TypeOK /\ CallsInv /\ Inv /\ [Next]_vars => Inv'
  <2> SUFFICES ASSUME TypeOK, CallsInv, Inv, [Next]_vars PROVE Inv'
    OBVIOUS
  <2>1. Known'
    BY KnownNext
  <2>2. ASSUME NEW c \in Calls, EnrollStep(c) PROVE Owned' /\ Single'
    BY <2>2, SingleStep DEF CallsInv
  <2>3. ASSUME NEW p \in Polls, PollSet(p), UNCHANGED calls PROVE Owned' /\ Single'
    <3>1. PolledBy[p] \in DOMAIN visitors
      BY <2>3 DEF PollSet, Known
    <3>2. /\ DOMAIN visitors' = DOMAIN visitors
          /\ \A r \in DOMAIN visitors : visitors'[r].session = visitors[r].session
      BY <2>3, <3>1 DEF PollSet, Insert, Admitted, TypeOK, EnrollTypeOK, TablesTypeOK, VisitorItem
    <3> QED BY <2>3, <3>2, SingleKept
  <2>4. CASE UNCHANGED <<calls, visitors>>
    BY <2>1, <2>4, SingleKept
  <2>5. Around => UNCHANGED <<calls, visitors>>
    BY DEF Around, ReplicateEvent, ReplicateServing, ReplicateVisitor, ExpireVisitor
  <2>6. \/ \E c \in Calls : EnrollStep(c)
        \/ \E p \in Polls : PollSet(p) /\ UNCHANGED calls
        \/ UNCHANGED <<calls, visitors>>
    BY <2>5, PollWrites, ReaperWrites DEF Next, Override, vars, tables
  <2> QED BY <2>1, <2>2, <2>3, <2>4, <2>6
<1>3. Inv => SameVisitorAgain
  BY SingleAnswers
<1> HIDE DEF Inv
<1> QED BY <1>1, <1>2, <1>3, EnrollsUndisturbed, PTL DEF Spec

-----------------------------------------------------------------------------
\* An admission leaves a visitor's place as it is, or makes an item without one.
LEMMA QueuePlaces ==
  ASSUME TypeOK, [Next]_vars
  PROVE  \A r \in DOMAIN visitors' :
            \/ r \in DOMAIN visitors /\ visitors'[r].position = visitors[r].position
            \/ visitors'[r].position = 0
            \/ \E c \in Calls : visitors'[r].position = PositionOf(c)
<1>1. ASSUME NEW p \in Polls, PollSet(p), NEW r \in DOMAIN visitors'
      PROVE  \/ r \in DOMAIN visitors /\ visitors'[r].position = visitors[r].position
             \/ visitors'[r].position = 0
  BY <1>1, SetWrites
<1>2. \/ \E c \in Calls : EnrollStep(c)
      \/ Around
      \/ UNCHANGED visitors
      \/ \E p \in Polls : PollSet(p)
  BY PollWrites, ReaperWrites DEF Next, Override, vars, tables
<1> QED BY <1>1, <1>2, EnrollPlaces DEF TypeOK

\* In the production queue too, whatever fails or is read late, nobody stands
\* behind the end of the line.
THEOREM QueuePlacesInLine == Spec => []PlacesWithinLine
<1>1. Init => PlacesWithinLine
  BY DEF Init, EnrollInit, TablesInit, PlacesWithinLine
<1>2. TypeOK /\ TypeOK' /\ CallsInv /\ PlacesWithinLine /\ [Next]_vars => PlacesWithinLine'
  BY QueueMoves, QueuePlaces, PlacesKept DEF TypeOK, CallsInv
<1> QED BY <1>1, <1>2, EnrollsUndisturbed, PTL DEF Spec

=============================================================================
