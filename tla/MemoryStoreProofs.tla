------------------------- MODULE MemoryStoreProofs -------------------------
(***************************************************************************)
(* What InMemoryStore guarantees for any number of events, sessions,       *)
(* request ids and shards, any throughputs and any expiry.                 *)
(*                                                                         *)
(* Only an enroll changes the line of an event; everything else leaves     *)
(* every visitor's event, session and position alone (SameLine).  The      *)
(* index, the density of the line and admission in turn are inductive on   *)
(* top of that, and the fair queue follows from the three of them.         *)
(***************************************************************************)
EXTENDS MemoryStore, QueueKernelProofs

\* The reaper's correction is a number.
LEMMA OverdueFinite ==
  ASSUME IsFiniteSet(RequestIds), TypeOK, NEW e \in Events
  PROVE  Cardinality(Abandoned(e)) \in Nat
<1>1. Abandoned(e) \subseteq RequestIds
  BY DEF Abandoned, Overdue, VisitorsOf, TypeOK
<1> QED BY <1>1, FS_Subset, FS_CardinalityType

\* Types hold initially.
LEMMA TypeInit == Init => TypeOK
BY MergeEmpty DEF Init, TypeOK

\* An operation of the store keeps every map well typed.
LEMMA TypeNext ==
  ASSUME IsFiniteSet(RequestIds), TypeOK, [Next]_vars
  PROVE  TypeOK'
<1> USE DEF TypeOK
<1>1. ASSUME NEW e \in Events, NEW config \in EventConfig, EnsureEvent(e, config)
      PROVE  TypeOK'
  BY <1>1 DEF EnsureEvent, Insert
<1>2. ASSUME NEW e \in Events, NEW s \in Sessions, NEW r \in RequestIds, Enroll(e, s, r)
      PROVE  TypeOK'
  <2> USE <1>2 DEF Enroll, EnrollUnindexed
  <2> DEFINE counters == CountOne(shardCounters[e], ShardOf[s])
  <2>1. counters \in ShardCounters
    BY MergeCountOne, AssignShardAssumption
  <2>2. shardCounters' \in [Events -> ShardCounters] /\ shardCounters'[e] = counters
    BY <2>1
  <2>3. MergeCounterShards(shardCounters'[e]) \in Nat
    BY <2>1, <2>2, TicketsFinite
  <2>4. NewVisitor(e, s, MergeCounterShards(shardCounters'[e])) \in Visitor
    BY <2>3 DEF NewVisitor, Visitor
  <2>5. DOMAIN visitors' \subseteq RequestIds /\ \A q \in DOMAIN visitors' : visitors'[q] \in Visitor
    BY <2>4 DEF Insert
  <2>6. /\ DOMAIN sessionIndex' \subseteq Events \X Sessions
        /\ \A k \in DOMAIN sessionIndex' : sessionIndex'[k] \in RequestIds
    BY DEF Insert
  <2> QED BY <2>2, <2>5, <2>6
<1>3. ASSUME NEW e \in Events, NEW r \in RequestIds, MaybeAdmit(e, r)
      PROVE  TypeOK'
  <2> USE <1>3 DEF MaybeAdmit
  <2>1. visitors[r].position \in Nat /\ servingCounter[e] \in Nat
    BY DEF Visitor
  <2>2. servingCounter' \in [Events -> Nat]
    BY <2>1 DEF Max2
  <2>3. DOMAIN visitors' \subseteq RequestIds /\ \A q \in DOMAIN visitors' : visitors'[q] \in Visitor
    BY DEF Visitor
  <2> QED BY <2>2, <2>3
<1>4. ASSUME NEW e \in Events, ReaperTick(e)
      PROVE  TypeOK'
  <2> USE <1>4 DEF ReaperTick
  <2>1. events[e].throughput \in Nat
    BY ThroughputsAssumption DEF EventConfig
  <2>2. servingCounter' \in [Events -> Nat]
    BY <2>1, OverdueFinite DEF Max2
  <2>3. DOMAIN visitors' = DOMAIN visitors
    OBVIOUS
  <2>4. \A q \in DOMAIN visitors : visitors'[q] \in Visitor
    BY DEF Visitor
  <2> QED BY <2>2, <2>3, <2>4
<1>5. CASE Tick
  BY <1>5 DEF Tick
<1>6. CASE UNCHANGED vars
  BY <1>6 DEF vars
<1> QED BY <1>1, <1>2, <1>3, <1>4, <1>5, <1>6 DEF Next

\* Whatever happens to the store, its maps stay well typed.
THEOREM TypeCorrect ==
  ASSUME IsFiniteSet(RequestIds)
  PROVE  Spec => []TypeOK
<1> QED BY TypeInit, TypeNext, PTL DEF Spec

-----------------------------------------------------------------------------

\* The step leaves everybody's place in every line as it is.
SameLine ==
    /\ DOMAIN visitors' = DOMAIN visitors
    /\ \A r \in DOMAIN visitors :
        /\ visitors'[r].event = visitors[r].event
        /\ visitors'[r].session = visitors[r].session
        /\ visitors'[r].position = visitors[r].position
    /\ UNCHANGED <<sessionIndex, shardCounters>>

\* Only an enroll changes a line.
LEMMA LineSteps ==
  ASSUME TypeOK, [Next]_vars
  PROVE  \/ SameLine
         \/ \E e \in Events, s \in Sessions, r \in RequestIds : Enroll(e, s, r)
<1> USE DEF SameLine
<1>1. ASSUME NEW e \in Events, NEW config \in EventConfig, EnsureEvent(e, config)
      PROVE  SameLine
  BY <1>1 DEF EnsureEvent
<1>2. ASSUME NEW e \in Events, NEW r \in RequestIds, MaybeAdmit(e, r)
      PROVE  SameLine
  BY <1>2 DEF MaybeAdmit, TypeOK, Visitor
<1>3. ASSUME NEW e \in Events, ReaperTick(e)
      PROVE  SameLine
  BY <1>3 DEF ReaperTick, TypeOK, Visitor
<1>4. CASE Tick
  BY <1>4 DEF Tick
<1>5. CASE UNCHANGED vars
  BY <1>5 DEF vars
<1> QED BY <1>1, <1>2, <1>3, <1>4, <1>5 DEF Next

\* What an enroll does: one new visitor, at the new end of its event's line.
NewAtTheEnd(e, s, r) ==
    /\ r \notin DOMAIN visitors
    /\ <<e, s>> \notin DOMAIN sessionIndex
    /\ DOMAIN visitors' = DOMAIN visitors \cup {r}
    /\ \A q \in DOMAIN visitors : visitors'[q] = visitors[q]
    /\ visitors'[r] = NewVisitor(e, s, QueueDepth(e) + 1)
    /\ DOMAIN sessionIndex' = DOMAIN sessionIndex \cup {<<e, s>>}
    /\ \A k \in DOMAIN sessionIndex : sessionIndex'[k] = sessionIndex[k]
    /\ sessionIndex'[<<e, s>>] = r
    /\ MergeCounterShards(shardCounters'[e]) = QueueDepth(e) + 1
    /\ \A f \in Events : f # e => shardCounters'[f] = shardCounters[f]
    /\ UNCHANGED <<events, servingCounter, clock>>

\* The counter that an enroll increments yields the next position.
LEMMA EnrollEffect ==
  ASSUME TypeOK, NEW e \in Events, NEW s \in Sessions, NEW r \in RequestIds, Enroll(e, s, r)
  PROVE  NewAtTheEnd(e, s, r)
<1> USE DEF Enroll, EnrollUnindexed
<1>1. /\ shardCounters'[e] = CountOne(shardCounters[e], ShardOf[s])
      /\ \A f \in Events : f # e => shardCounters'[f] = shardCounters[f]
  BY DEF TypeOK
<1>2. shardCounters[e] \in ShardCounters /\ ShardOf[s] \in Shards
  BY AssignShardAssumption DEF TypeOK
<1>3. MergeCounterShards(shardCounters'[e]) = QueueDepth(e) + 1
  BY <1>1, <1>2, MergeCountOne DEF QueueDepth
<1>4. /\ visitors' = Insert(visitors, r, NewVisitor(e, s, QueueDepth(e) + 1))
      /\ sessionIndex' = Insert(sessionIndex, <<e, s>>, r)
  BY <1>3
<1> QED BY <1>1, <1>3, <1>4 DEF NewAtTheEnd, Insert

\* Index and visitors describe the same enrollments: inductive.
LEMMA IndexNext ==
  ASSUME TypeOK, OneVisitorPerSession, [Next]_vars
  PROVE  OneVisitorPerSession'
<1>1. CASE SameLine
  BY <1>1 DEF SameLine, OneVisitorPerSession
<1>2. ASSUME NEW e \in Events, NEW s \in Sessions, NEW r \in RequestIds, Enroll(e, s, r)
      PROVE  OneVisitorPerSession'
  <2>0. NewAtTheEnd(e, s, r)
    BY <1>2, EnrollEffect
  <2>1. /\ visitors'[r].event = e
        /\ visitors'[r].session = s
    BY <2>0 DEF NewAtTheEnd, NewVisitor
  <2>2. ASSUME NEW k \in DOMAIN sessionIndex'
        PROVE  /\ sessionIndex'[k] \in DOMAIN visitors'
               /\ k = <<visitors'[sessionIndex'[k]].event, visitors'[sessionIndex'[k]].session>>
    BY <2>0, <2>1 DEF NewAtTheEnd, OneVisitorPerSession
  <2>3. ASSUME NEW q \in DOMAIN visitors'
        PROVE  /\ <<visitors'[q].event, visitors'[q].session>> \in DOMAIN sessionIndex'
               /\ sessionIndex'[<<visitors'[q].event, visitors'[q].session>>] = q
    BY <2>0, <2>1 DEF NewAtTheEnd, OneVisitorPerSession
  <2> QED BY <2>2, <2>3 DEF OneVisitorPerSession
<1> QED BY <1>1, <1>2, LineSteps

\* Every line is dense: inductive.
LEMMA DenseNext ==
  ASSUME TypeOK, PositionsDense, [Next]_vars
  PROVE  PositionsDense'
<1>1. CASE SameLine
  BY <1>1 DEF SameLine, PositionsDense, VisitorsOf, QueueDepth
<1>2. ASSUME NEW e \in Events, NEW s \in Sessions, NEW r \in RequestIds, Enroll(e, s, r)
      PROVE  PositionsDense'
  <2> DEFINE n == QueueDepth(e)
  <2>0. NewAtTheEnd(e, s, r)
    BY <1>2, EnrollEffect
  <2>1. n \in Nat
    BY TicketsFinite DEF TypeOK, QueueDepth
  <2>2. /\ visitors'[r].event = e
        /\ visitors'[r].position = n + 1
    BY <2>0 DEF NewAtTheEnd, NewVisitor
  <2>3. 1 .. (n + 1) = (1 .. n) \cup {n + 1} /\ n + 1 \notin 1 .. n
    BY <2>1
  <2>4. \A f \in Events : VisitorsOf(f)' = VisitorsOf(f) \cup (IF f = e THEN {r} ELSE {})
    BY <2>0, <2>2 DEF NewAtTheEnd, VisitorsOf
  <2>5. \A f \in Events : QueueDepth(f)' = IF f = e THEN n + 1 ELSE QueueDepth(f)
    BY <2>0 DEF NewAtTheEnd, QueueDepth
  <2>6. \A q \in DOMAIN visitors : visitors'[q].position = visitors[q].position
    BY <2>0 DEF NewAtTheEnd
  <2>7. ASSUME NEW f \in Events
        PROVE  {visitors'[q].position : q \in VisitorsOf(f)'} = 1 .. QueueDepth(f)'
    <3>1. {visitors'[q].position : q \in VisitorsOf(f)} = 1 .. QueueDepth(f)
      BY <2>6 DEF VisitorsOf, PositionsDense
    <3> QED BY <2>2, <2>3, <2>4, <2>5, <3>1
  <2>8. ASSUME NEW f \in Events, NEW p \in VisitorsOf(f)', NEW q \in VisitorsOf(f)',
               visitors'[p].position = visitors'[q].position
        PROVE  p = q
    <3>1. \A m \in VisitorsOf(f) : m \in DOMAIN visitors /\ visitors[m].position \in 1 .. QueueDepth(f)
      BY DEF PositionsDense, VisitorsOf
    <3>2. CASE p # r /\ q # r
      BY <2>4, <2>6, <2>8, <3>1, <3>2 DEF PositionsDense
    <3>3. CASE f = e
      BY <2>2, <2>3, <2>4, <2>6, <2>8, <3>1, <3>2, <3>3
    <3>4. CASE f # e
      <4>1. p # r /\ q # r
        BY <2>0, <2>4, <3>1, <3>4 DEF NewAtTheEnd
      <4> QED BY <3>2, <4>1
    <3> QED BY <3>3, <3>4
  <2> QED BY <2>7, <2>8 DEF PositionsDense
<1> QED BY <1>1, <1>2, LineSteps

-----------------------------------------------------------------------------

\* Admission pulls the serving counter along, and the counter never falls: as
\* long as a visitor is polled under its own event, inductive.
LEMMA TurnNext ==
  ASSUME ~ForeignPolls, IsFiniteSet(RequestIds), TypeOK, AdmittedInTurn, [Next]_vars
  PROVE  AdmittedInTurn'
<1> USE DEF AdmittedInTurn
<1>1. ASSUME NEW e \in Events, NEW config \in EventConfig, EnsureEvent(e, config)
      PROVE  AdmittedInTurn'
  BY <1>1 DEF EnsureEvent
<1>2. ASSUME NEW e \in Events, NEW s \in Sessions, NEW r \in RequestIds, Enroll(e, s, r)
      PROVE  AdmittedInTurn'
  <2>1. NewAtTheEnd(e, s, r)
    BY <1>2, EnrollEffect
  <2>2. visitors'[r].status # "admitted"
    BY <2>1 DEF NewAtTheEnd, NewVisitor
  <2> QED BY <2>1, <2>2 DEF NewAtTheEnd
<1>3. ASSUME NEW e \in Events, NEW r \in RequestIds, MaybeAdmit(e, r)
      PROVE  AdmittedInTurn'
  <2> USE <1>3 DEF MaybeAdmit
  <2>1. /\ \A q \in DOMAIN visitors : /\ visitors[q] \in Visitor
                                      /\ visitors[q].event \in Events
                                      /\ visitors[q].position \in Nat
        /\ \A f \in Events : servingCounter[f] \in Nat
    BY DEF TypeOK, Visitor
  <2>2. \A q \in DOMAIN visitors : /\ visitors'[q].event = visitors[q].event
                                   /\ visitors'[q].position = visitors[q].position
    BY <2>1 DEF Visitor
  <2>3. /\ \A f \in Events : servingCounter'[f] >= servingCounter[f]
        /\ servingCounter'[e] >= visitors[r].position
    BY <2>1 DEF Max2, TypeOK
  <2>4. ASSUME NEW q \in DOMAIN visitors, visitors'[q].status = "admitted"
        PROVE  visitors'[q].position <= servingCounter'[visitors'[q].event]
    <3>1. CASE q = r
      BY <2>1, <2>2, <2>3, <3>1
    <3>2. CASE q # r
      <4>1. visitors[q].status = "admitted"
        BY <2>4, <3>2
      <4>2. visitors[q].position <= servingCounter[visitors[q].event]
        BY <4>1
      <4>3. servingCounter'[visitors[q].event] \in Nat
        BY <2>1, TypeNext DEF TypeOK, Next
      <4> QED BY <2>1, <2>2, <2>3, <4>2, <4>3
    <3> QED BY <3>1, <3>2
  <2> QED BY <2>4
<1>4. ASSUME NEW e \in Events, ReaperTick(e)
      PROVE  AdmittedInTurn'
  <2> USE <1>4 DEF ReaperTick
  <2>1. /\ \A q \in DOMAIN visitors : /\ visitors[q] \in Visitor
                                      /\ visitors[q].event \in Events
                                      /\ visitors[q].position \in Nat
        /\ \A f \in Events : servingCounter[f] \in Nat
        /\ events[e].throughput \in Nat
    BY ThroughputsAssumption DEF TypeOK, Visitor, EventConfig
  <2>2. \A q \in DOMAIN visitors : /\ visitors'[q].event = visitors[q].event
                                   /\ visitors'[q].position = visitors[q].position
                                   /\ visitors'[q].status = "admitted" => visitors[q].status = "admitted"
    BY <2>1 DEF Visitor
  <2>3. \A f \in Events : servingCounter'[f] \in Nat /\ servingCounter'[f] >= servingCounter[f]
    BY <2>1, OverdueFinite DEF Max2, TypeOK
  <2>4. ASSUME NEW q \in DOMAIN visitors, visitors'[q].status = "admitted"
        PROVE  visitors'[q].position <= servingCounter'[visitors'[q].event]
    <3>1. visitors[q].position <= servingCounter[visitors[q].event]
      BY <2>2, <2>4
    <3> QED BY <2>1, <2>2, <2>3, <3>1
  <2> QED BY <2>4
<1>5. CASE Tick
  BY <1>5 DEF Tick
<1>6. CASE UNCHANGED vars
  BY <1>6 DEF vars
<1> QED BY <1>1, <1>2, <1>3, <1>4, <1>5, <1>6 DEF Next

\* Distinct positions no further back than the serving counter: no more of
\* them than places called.
LEMMA TurnsBoundAdmissions ==
  ASSUME TypeOK, PositionsDense, AdmittedInTurn
  PROVE  AdmittedWithinServing
<1> SUFFICES ASSUME NEW e \in Events
             PROVE  CountWithStatus(e, "admitted") <= servingCounter[e]
  BY DEF AdmittedWithinServing
<1> DEFINE S == {r \in VisitorsOf(e) : visitors[r].status = "admitted"}
           T == 1 .. servingCounter[e]
           place == [r \in S |-> visitors[r].position]
<1>1. servingCounter[e] \in Nat
  BY DEF TypeOK
<1>2. IsFiniteSet(T) /\ Cardinality(T) = servingCounter[e]
  <2>1. 1 \in Int /\ servingCounter[e] \in Int
    BY <1>1
  <2>2. IsFiniteSet(T) /\ Cardinality(T) = IF 1 > servingCounter[e] THEN 0
                                          ELSE servingCounter[e] - 1 + 1
    BY <2>1, FS_Interval
  <2> QED BY <1>1, <2>2
<1>3. \A r \in S : visitors[r].position \in 1 .. QueueDepth(e)
  BY DEF PositionsDense, VisitorsOf
<1>4. QueueDepth(e) \in Nat
  BY TicketsFinite DEF TypeOK, QueueDepth
<1>5. \A r \in S : visitors[r].position \in T
  <2> SUFFICES ASSUME NEW r \in S PROVE visitors[r].position \in T
    OBVIOUS
  <2>1. visitors[r].position <= servingCounter[e]
    BY DEF AdmittedInTurn, VisitorsOf
  <2>2. visitors[r].position \in 1 .. QueueDepth(e)
    BY <1>3
  <2> QED BY <1>1, <1>4, <2>1, <2>2
<1>6. place \in Injection(S, T)
  BY <1>5 DEF Injection, IsInjective, PositionsDense
<1>7. Cardinality(S) <= Cardinality(T)
  BY <1>2, <1>6, FS_Injection
<1> QED BY <1>2, <1>7 DEF CountWithStatus

-----------------------------------------------------------------------------

\* The inductive invariant.
IInv == TypeOK /\ OneVisitorPerSession /\ PositionsDense

\* The inductive invariant holds initially.
LEMMA IInvInit == Init => IInv
<1> SUFFICES ASSUME Init PROVE IInv
  OBVIOUS
<1>1. OneVisitorPerSession
  BY DEF Init, OneVisitorPerSession
<1>2. ASSUME NEW e \in Events
      PROVE  VisitorsOf(e) = {} /\ QueueDepth(e) = 0
  BY MergeEmpty DEF Init, VisitorsOf, QueueDepth
<1>3. PositionsDense
  BY <1>2 DEF PositionsDense
<1> QED BY <1>1, <1>3, TypeInit DEF IInv

\* Every operation keeps the inductive invariant.
LEMMA IInvNext ==
  ASSUME IsFiniteSet(RequestIds), IInv, [Next]_vars
  PROVE  IInv'
BY TypeNext, IndexNext, DenseNext DEF IInv

\* An operation never costs a session its place.
LEMMA PlaceStep ==
  ASSUME IInv, [Next]_vars
  PROVE  \A k \in DOMAIN sessionIndex :
            /\ k \in DOMAIN sessionIndex'
            /\ sessionIndex'[k] = sessionIndex[k]
            /\ visitors'[sessionIndex[k]].position = visitors[sessionIndex[k]].position
<1> USE DEF IInv
<1>1. CASE SameLine
  BY <1>1 DEF SameLine, OneVisitorPerSession
<1>2. ASSUME NEW e \in Events, NEW s \in Sessions, NEW r \in RequestIds, Enroll(e, s, r),
             NEW k \in DOMAIN sessionIndex
      PROVE  /\ k \in DOMAIN sessionIndex'
             /\ sessionIndex'[k] = sessionIndex[k]
             /\ visitors'[sessionIndex[k]].position = visitors[sessionIndex[k]].position
  <2>1. NewAtTheEnd(e, s, r)
    BY <1>2, EnrollEffect
  <2> QED BY <2>1 DEF NewAtTheEnd, OneVisitorPerSession
<1> QED BY <1>1, <1>2, LineSteps

\* A session has one visitor per event, found again by its session.
THEOREM OneVisitor ==
  ASSUME IsFiniteSet(RequestIds)
  PROVE  Spec => []OneVisitorPerSession
<1>1. IInv => OneVisitorPerSession
  BY DEF IInv
<1> QED BY <1>1, IInvInit, IInvNext, PTL DEF Spec

\* Every line is dense: positions 1 .. N, one visitor each.
THEOREM Dense ==
  ASSUME IsFiniteSet(RequestIds)
  PROVE  Spec => []PositionsDense
<1>1. IInv => PositionsDense
  BY DEF IInv
<1> QED BY <1>1, IInvInit, IInvNext, PTL DEF Spec

\* Nothing that happens to the store costs a session its place.
THEOREM PlaceIsKept ==
  ASSUME IsFiniteSet(RequestIds)
  PROVE  Spec => PlaceKept
<1> QED BY PlaceStep, IInvInit, IInvNext, PTL DEF Spec, PlaceKept

\* While every visitor is polled under its own event, a token is only ever held
\* by a visitor whose place was called.
THEOREM InTurn ==
  ASSUME IsFiniteSet(RequestIds), ~ForeignPolls
  PROVE  Spec => []AdmittedInTurn
<1>1. Init => AdmittedInTurn
  BY DEF Init, AdmittedInTurn
<1> QED BY <1>1, TurnNext, TypeInit, TypeNext, PTL DEF Spec

\* ... and an event never lets in more visitors than places it has called.
THEOREM WithinServing ==
  ASSUME IsFiniteSet(RequestIds), ~ForeignPolls
  PROVE  Spec => []AdmittedWithinServing
<1>1. IInv => TypeOK /\ PositionsDense
  BY DEF IInv
<1> QED BY <1>1, InTurn, TurnsBoundAdmissions, IInvInit, IInvNext, PTL DEF Spec

\* A dense line has as many visitors as the shard counters say, and each has
\* one of the three statuses.
LEMMA DenseAddsUp ==
  ASSUME IsFiniteSet(RequestIds), TypeOK, PositionsDense
  PROVE  StatsAddUp
<1> SUFFICES ASSUME NEW e \in Events
             PROVE  CountWithStatus(e, "waiting") + CountWithStatus(e, "admitted")
                        + CountWithStatus(e, "expired") = QueueDepth(e)
  BY DEF StatsAddUp
<1> DEFINE V == VisitorsOf(e)
           With(status) == {r \in V : visitors[r].status = status}
           place == [r \in V |-> visitors[r].position]
           T == 1 .. QueueDepth(e)
<1>1. QueueDepth(e) \in Nat
  BY TicketsFinite DEF TypeOK, QueueDepth
<1>2. IsFiniteSet(T) /\ Cardinality(T) = QueueDepth(e)
  <2>1. 1 \in Int /\ QueueDepth(e) \in Int
    BY <1>1
  <2>2. IsFiniteSet(T) /\ Cardinality(T) = IF 1 > QueueDepth(e) THEN 0 ELSE QueueDepth(e) - 1 + 1
    BY <2>1, FS_Interval
  <2> QED BY <1>1, <2>2
<1>3. place \in Injection(V, T) /\ place \in Surjection(V, T)
  BY DEF PositionsDense, Injection, IsInjective, Surjection
<1>4. IsFiniteSet(V) /\ Cardinality(V) = QueueDepth(e)
  BY <1>2, <1>3, FS_Injection
<1>5. /\ IsFiniteSet(With("waiting")) /\ IsFiniteSet(With("admitted")) /\ IsFiniteSet(With("expired"))
      /\ IsFiniteSet(With("waiting") \cup With("admitted"))
  BY <1>4, FS_Subset
<1>6. /\ V = (With("waiting") \cup With("admitted")) \cup With("expired")
      /\ With("waiting") \cap With("admitted") = {}
      /\ (With("waiting") \cup With("admitted")) \cap With("expired") = {}
  BY DEF VisitorsOf, TypeOK, Visitor
<1>7. /\ Cardinality(With("waiting") \cup With("admitted"))
            = Cardinality(With("waiting")) + Cardinality(With("admitted"))
      /\ Cardinality(V) = Cardinality(With("waiting") \cup With("admitted")) + Cardinality(With("expired"))
  <2>1. /\ Cardinality({}) = 0
        /\ Cardinality(With("waiting")) \in Nat
        /\ Cardinality(With("admitted")) \in Nat
        /\ Cardinality(With("expired")) \in Nat
        /\ Cardinality(With("waiting") \cup With("admitted")) \in Nat
    BY <1>5, FS_EmptySet, FS_CardinalityType
  <2>2. Cardinality(With("waiting") \cup With("admitted"))
            = Cardinality(With("waiting")) + Cardinality(With("admitted")) - Cardinality({})
    BY <1>5, <1>6, FS_Union
  <2>3. Cardinality(V)
            = Cardinality(With("waiting") \cup With("admitted")) + Cardinality(With("expired")) - Cardinality({})
    BY <1>5, <1>6, FS_Union
  <2> QED BY <2>1, <2>2, <2>3
<1> QED BY <1>4, <1>7 DEF CountWithStatus

\* event_stats accounts for every place in line.
THEOREM StatsAreComplete ==
  ASSUME IsFiniteSet(RequestIds)
  PROVE  Spec => []StatsAddUp
<1>1. IInv => TypeOK /\ PositionsDense
  BY DEF IInv
<1> QED BY <1>1, DenseAddsUp, IInvInit, IInvNext, PTL DEF Spec

-----------------------------------------------------------------------------

\* Whoever holds a token has the status to go with it, so the reaper, which
\* expires only who is waiting, never touches it.
TokenHeld == \A r \in DOMAIN visitors : visitors[r].admitToken # {} => visitors[r].status = "admitted"

\* A step leaves the token and the status of a token holder alone.
HoldersKept ==
    \A r \in DOMAIN visitors :
        visitors[r].admitToken # {} =>
            /\ r \in DOMAIN visitors'
            /\ visitors'[r].admitToken = visitors[r].admitToken
            /\ visitors'[r].status = "admitted"

\* No operation takes a token back or lets an admitted visitor expire.
LEMMA TokenNext ==
  ASSUME TypeOK, TokenHeld, [Next]_vars
  PROVE  TokenHeld' /\ HoldersKept
<1> USE DEF TokenHeld, HoldersKept
<1>1. ASSUME NEW e \in Events, NEW config \in EventConfig, EnsureEvent(e, config)
      PROVE  TokenHeld' /\ HoldersKept
  BY <1>1 DEF EnsureEvent
<1>2. ASSUME NEW e \in Events, NEW s \in Sessions, NEW r \in RequestIds, Enroll(e, s, r)
      PROVE  TokenHeld' /\ HoldersKept
  <2>1. NewAtTheEnd(e, s, r)
    BY <1>2, EnrollEffect
  <2>2. visitors'[r].admitToken = {}
    BY <2>1 DEF NewAtTheEnd, NewVisitor
  <2> QED BY <2>1, <2>2 DEF NewAtTheEnd
<1>3. ASSUME NEW e \in Events, NEW r \in RequestIds, MaybeAdmit(e, r)
      PROVE  TokenHeld' /\ HoldersKept
  BY <1>3 DEF MaybeAdmit, TypeOK, Visitor
<1>4. ASSUME NEW e \in Events, ReaperTick(e)
      PROVE  TokenHeld' /\ HoldersKept
  <2>1. \A r \in Overdue(e) : visitors[r].status = "waiting"
    BY DEF Overdue
  <2> QED BY <1>4, <2>1 DEF ReaperTick, TypeOK, Visitor
<1>5. CASE Tick
  BY <1>5 DEF Tick
<1>6. CASE UNCHANGED vars
  BY <1>6 DEF vars
<1> QED BY <1>1, <1>2, <1>3, <1>4, <1>5, <1>6 DEF Next

\* Once let in, a visitor stays let in with its first token.
THEOREM AdmissionIsKept ==
  ASSUME IsFiniteSet(RequestIds)
  PROVE  Spec => AdmissionKept
<1>1. Init => TokenHeld
  BY DEF Init, TokenHeld
<1>2. HoldersKept => \A r \in DOMAIN visitors :
          visitors[r].admitToken # {} =>
            /\ visitors'[r].admitToken = visitors[r].admitToken
            /\ visitors'[r].status = "admitted"
  BY DEF HoldersKept
<1> QED BY <1>1, <1>2, TypeInit, TypeNext, TokenNext, PTL DEF Spec, AdmissionKept

-----------------------------------------------------------------------------

\* The sessions that have joined an event's line, as the fair queue sees them.
JoinedSessions(e) == {s \in Sessions : <<e, s>> \in DOMAIN sessionIndex}

\* As many sessions have joined as the shard counters say.
LEMMA JoinedCounted ==
  ASSUME IInv, NEW e \in Events
  PROVE  /\ LineOf(e)!Joined = JoinedSessions(e)
         /\ Cardinality(JoinedSessions(e)) = QueueDepth(e)
<1> USE DEF IInv
<1> DEFINE S == JoinedSessions(e)
           T == 1 .. QueueDepth(e)
           place == [s \in S |-> VisitorOf(e, s).position]
<1>1. QueueDepth(e) \in Nat
  BY TicketsFinite DEF TypeOK, QueueDepth
<1>2. IsFiniteSet(T) /\ Cardinality(T) = QueueDepth(e)
  <2>1. 1 \in Int /\ QueueDepth(e) \in Int
    BY <1>1
  <2>2. IsFiniteSet(T) /\ Cardinality(T) = IF 1 > QueueDepth(e) THEN 0 ELSE QueueDepth(e) - 1 + 1
    BY <2>1, FS_Interval
  <2> QED BY <1>1, <2>2
<1>3. ASSUME NEW s \in S
      PROVE  /\ sessionIndex[<<e, s>>] \in VisitorsOf(e)
             /\ VisitorOf(e, s).session = s
  BY DEF JoinedSessions, OneVisitorPerSession, VisitorsOf, VisitorOf
<1>4. \A r \in VisitorsOf(e) : visitors[r].position \in T
  BY DEF PositionsDense
<1>5. place \in Injection(S, T)
  <2>1. \A s \in S : place[s] \in T
    BY <1>3, <1>4 DEF VisitorOf
  <2>2. ASSUME NEW s \in S, NEW u \in S, place[s] = place[u] PROVE s = u
    <3>1. sessionIndex[<<e, s>>] = sessionIndex[<<e, u>>]
      BY <1>3, <2>2 DEF VisitorOf, PositionsDense
    <3> QED BY <1>3, <3>1 DEF VisitorOf
  <2> QED BY <2>1, <2>2 DEF Injection, IsInjective
<1>6. ASSUME NEW n \in T PROVE \E s \in S : place[s] = n
  <2>1. PICK r \in VisitorsOf(e) : visitors[r].position = n
    BY DEF PositionsDense
  <2>2. /\ <<e, visitors[r].session>> \in DOMAIN sessionIndex
        /\ sessionIndex[<<e, visitors[r].session>>] = r
    BY DEF OneVisitorPerSession, VisitorsOf
  <2>3. visitors[r].session \in Sessions
    BY <2>2 DEF TypeOK
  <2> QED BY <2>1, <2>2, <2>3 DEF JoinedSessions, VisitorOf
<1>7. place \in Surjection(S, T)
  BY <1>5, <1>6 DEF Surjection, Injection
<1>8. Cardinality(S) = Cardinality(T)
  BY <1>2, <1>5, <1>7, FS_Injection
<1>9. LineOf(e)!Joined = S
  <2>1. \A s \in S : VisitorOf(e, s).position > 0
    BY <1>1, <1>3, <1>4 DEF VisitorOf
  <2> QED BY <2>1 DEF LineOf!Joined, JoinedSessions
<1> QED BY <1>2, <1>8, <1>9

\* Cardinality means the same inside the instance.
LEMMA SameCardinality ==
  ASSUME NEW e, NEW S
  PROVE  LineOf(e)!Cardinality(S) = Cardinality(S)
BY DEF LineOf!Cardinality, Cardinality

\* What the fair queue of an event sees of the store.
Place(e) == [s \in Sessions |-> IF <<e, s>> \in DOMAIN sessionIndex
                                THEN VisitorOf(e, s).position ELSE 0]
LetIn(e) == {s \in Sessions : /\ <<e, s>> \in DOMAIN sessionIndex
                              /\ VisitorOf(e, s).admitToken # {}}
Floodgates(e) == e \in DOMAIN events /\ events[e].emergencyOpen

\* An enroll is a Join of its event's line and nothing to the other lines.
LEMMA EnrollJoins ==
  ASSUME IInv, NEW e \in Events, NEW s \in Sessions, NEW r \in RequestIds, Enroll(e, s, r),
         NEW f \in Events
  PROVE  IF f = e THEN LineOf(f)!Join(s) ELSE UNCHANGED LineOf(f)!vars
<1> USE DEF IInv
<1>1. NewAtTheEnd(e, s, r)
  BY EnrollEffect
<1>2. \A k \in DOMAIN sessionIndex : sessionIndex[k] \in DOMAIN visitors
  BY DEF OneVisitorPerSession
<1>3. ASSUME NEW u \in Sessions, f # e \/ u # s
      PROVE  /\ Place(f)'[u] = Place(f)[u]
             /\ u \in LetIn(f)' <=> u \in LetIn(f)
  <2>1. <<f, u>> \in DOMAIN sessionIndex' <=> <<f, u>> \in DOMAIN sessionIndex
    BY <1>1, <1>3 DEF NewAtTheEnd
  <2>2. <<f, u>> \in DOMAIN sessionIndex => VisitorOf(f, u)' = VisitorOf(f, u)
    BY <1>1, <1>2 DEF NewAtTheEnd, VisitorOf
  <2> QED BY <2>1, <2>2 DEF Place, LetIn
<1>4. /\ servingCounter'[f] = servingCounter[f]
      /\ Floodgates(f)' = Floodgates(f)
  BY <1>1 DEF NewAtTheEnd, Floodgates
<1>5. CASE f # e
  <2>1. Place(f)' = Place(f) /\ LetIn(f)' = LetIn(f)
    BY <1>3, <1>5 DEF Place, LetIn
  <2> QED BY <1>4, <1>5, <2>1 DEF LineOf!vars, Place, LetIn, Floodgates
<1>6. CASE f = e
  <2>1. Place(f)[s] = 0 /\ s \notin LetIn(f)
    BY <1>1, <1>6 DEF NewAtTheEnd, Place, LetIn
  <2>2. VisitorOf(f, s)' = NewVisitor(e, s, QueueDepth(e) + 1)
    BY <1>1, <1>6 DEF NewAtTheEnd, VisitorOf
  <2>3. Place(f)'[s] = QueueDepth(e) + 1 /\ s \notin LetIn(f)'
    BY <1>1, <1>6, <2>2 DEF NewAtTheEnd, NewVisitor, Place, LetIn
  <2>4. Cardinality(LineOf(f)!Joined) = QueueDepth(e)
    BY <1>6, JoinedCounted
  <2>5. Place(f)' = [Place(f) EXCEPT ![s] = Cardinality(LineOf(f)!Joined) + 1]
    BY <1>3, <2>3, <2>4 DEF Place
  <2>6. LetIn(f)' = LetIn(f)
    BY <1>3, <2>1, <2>3 DEF LetIn
  <2>7. Place(f)' = [Place(f) EXCEPT ![s] = LineOf(f)!Cardinality(LineOf(f)!Joined) + 1]
    BY <2>5, SameCardinality
  <2>8. LineOf(f)!Join(s)
    BY <1>4, <2>1, <2>6, <2>7 DEF LineOf!Join, Place, LetIn, Floodgates
  <2> QED BY <1>6, <2>8
<1> QED BY <1>5, <1>6

\* A step that keeps every place and every token of a line.
LEMMA PlacesKept ==
  ASSUME IInv, SameLine, NEW f \in Events
  PROVE  /\ Place(f)' = Place(f)
         /\ (\A r \in VisitorsOf(f) : visitors'[r].admitToken = visitors[r].admitToken)
               => LetIn(f)' = LetIn(f)
<1> USE DEF IInv
<1>1. \A u \in Sessions : <<f, u>> \in DOMAIN sessionIndex =>
          /\ sessionIndex[<<f, u>>] \in VisitorsOf(f)
          /\ VisitorOf(f, u).position = visitors[sessionIndex[<<f, u>>]].position
          /\ VisitorOf(f, u)'.position = VisitorOf(f, u).position
          /\ VisitorOf(f, u)' = visitors'[sessionIndex[<<f, u>>]]
  BY DEF OneVisitorPerSession, VisitorsOf, VisitorOf, SameLine
<1>2. sessionIndex' = sessionIndex
  BY DEF SameLine
<1>3. Place(f)' = Place(f)
  BY <1>1, <1>2 DEF Place
<1>4. ASSUME \A r \in VisitorsOf(f) : visitors'[r].admitToken = visitors[r].admitToken
      PROVE  LetIn(f)' = LetIn(f)
  BY <1>1, <1>2, <1>4 DEF LetIn, VisitorOf
<1> QED BY <1>3, <1>4

\* An admission is an Admit of its event's line and nothing to the others.
LEMMA MaybeAdmitAdmits ==
  ASSUME ~ForeignPolls, IInv, NEW e \in Events, NEW r \in RequestIds, MaybeAdmit(e, r),
         NEW s \in Sessions, s = visitors[r].session, NEW f \in Events
  PROVE  IF f = e THEN LineOf(f)!Admit(s) ELSE UNCHANGED LineOf(f)!vars
<1> USE DEF IInv
<1>1. SameLine
  BY DEF MaybeAdmit, SameLine, TypeOK, Visitor
<1>2. /\ r \in VisitorsOf(e)
      /\ s \in Sessions
      /\ <<e, s>> \in DOMAIN sessionIndex
      /\ sessionIndex[<<e, s>>] = r
      /\ visitors[r].position \in Nat
      /\ servingCounter[e] \in Nat
      /\ visitors[r].admitToken = {}
  BY DEF MaybeAdmit, VisitorsOf, TypeOK, Visitor, OneVisitorPerSession
<1>3. /\ visitors'[r].admitToken = {e}
      /\ \A q \in DOMAIN visitors : q # r => visitors'[q] = visitors[q]
      /\ servingCounter' = [servingCounter EXCEPT ![e] = Max2(@, visitors[r].position)]
      /\ UNCHANGED events
  BY <1>2 DEF MaybeAdmit, TypeOK, Visitor
<1>4. Floodgates(f)' = Floodgates(f)
  BY <1>3 DEF Floodgates
<1>5. Place(f)' = Place(f)
  BY <1>1, PlacesKept
<1>6. CASE f # e
  <2>1. \A q \in VisitorsOf(f) : visitors'[q].admitToken = visitors[q].admitToken
    BY <1>2, <1>3, <1>6 DEF VisitorsOf
  <2>2. LetIn(f)' = LetIn(f)
    BY <1>1, <2>1, PlacesKept
  <2>3. servingCounter'[f] = servingCounter[f]
    BY <1>3, <1>6 DEF TypeOK
  <2> QED BY <1>4, <1>5, <1>6, <2>2, <2>3 DEF LineOf!vars, Place, LetIn, Floodgates
<1>7. CASE f = e
  <2>1. Place(f)[s] = visitors[r].position /\ s \notin LetIn(f)
    BY <1>2, <1>7 DEF Place, LetIn, VisitorOf
  <2>2. s \in LineOf(f)!Joined
    <3>1. LineOf(f)!Joined = JoinedSessions(f)
      BY JoinedCounted
    <3> QED BY <1>2, <1>7, <3>1 DEF JoinedSessions
  <2>3. LetIn(f)' = LetIn(f) \cup {s}
    <3>1. sessionIndex' = sessionIndex
      BY <1>1 DEF SameLine
    <3>2. ASSUME NEW u \in Sessions, <<f, u>> \in DOMAIN sessionIndex, u # s
          PROVE  VisitorOf(f, u)' = VisitorOf(f, u)
      <4>1. sessionIndex[<<f, u>>] \in DOMAIN visitors /\ sessionIndex[<<f, u>>] # r
        BY <1>7, <3>2 DEF OneVisitorPerSession
      <4> QED BY <1>3, <3>1, <4>1 DEF VisitorOf
    <3>3. s \in LetIn(f)'
      BY <1>2, <1>3, <1>7, <3>1 DEF LetIn, VisitorOf
    <3> QED BY <3>1, <3>2, <3>3 DEF LetIn
  <2>4. Floodgates(f) \/ Place(f)[s] <= servingCounter[f]
    BY <1>7, <2>1 DEF MaybeAdmit, ShouldAdmit, Floodgates
  <2>5. servingCounter'[f] = IF Place(f)[s] > servingCounter[f] THEN Place(f)[s] ELSE servingCounter[f]
    BY <1>2, <1>3, <1>7, <2>1 DEF TypeOK, Max2
  <2>6. LineOf(f)!Admit(s)
    BY <1>4, <1>5, <2>1, <2>2, <2>3, <2>4, <2>5 DEF LineOf!Admit, Place, LetIn, Floodgates
  <2> QED BY <1>7, <2>6
<1> QED BY <1>6, <1>7

\* A tick of the reaper advances its event's line and nothing else.
LEMMA ReaperTickAdvances ==
  ASSUME IsFiniteSet(RequestIds), IInv, NEW e \in Events, ReaperTick(e), NEW f \in Events
  PROVE  IF f = e THEN LineOf(f)!Advance ELSE UNCHANGED LineOf(f)!vars
<1> USE DEF IInv
<1>1. SameLine
  BY DEF ReaperTick, SameLine, TypeOK, Visitor
<1>2. \A r \in VisitorsOf(f) : visitors'[r].admitToken = visitors[r].admitToken
  BY DEF ReaperTick, VisitorsOf, TypeOK, Visitor
<1>3. Place(f)' = Place(f) /\ LetIn(f)' = LetIn(f)
  BY <1>1, <1>2, PlacesKept
<1>4. Floodgates(f)' = Floodgates(f)
  BY DEF ReaperTick, Floodgates
<1>5. CASE f # e
  <2>1. servingCounter'[f] = servingCounter[f]
    BY <1>5 DEF ReaperTick, TypeOK
  <2> QED BY <1>3, <1>4, <1>5, <2>1 DEF LineOf!vars, Place, LetIn, Floodgates
<1>6. CASE f = e
  <2>1. events[e].throughput \in Nat /\ servingCounter[e] \in Nat
    BY ThroughputsAssumption DEF ReaperTick, TypeOK, EventConfig
  <2>2. servingCounter'[f] \in Nat /\ servingCounter'[f] > servingCounter[f]
    BY <1>6, <2>1, OverdueFinite DEF ReaperTick, TypeOK, Max2
  <2>3. LineOf(f)!Advance
    BY <1>3, <1>4, <2>2 DEF LineOf!Advance, Place, LetIn, Floodgates
  <2> QED BY <1>6, <2>3
<1> QED BY <1>5, <1>6

\* Nobody has joined, nobody is let in, nothing is called.
LEMMA FairQueueInit == Init => \A e \in Events : LineOf(e)!Init
<1> SUFFICES ASSUME Init, NEW e \in Events PROVE LineOf(e)!Init
  OBVIOUS
<1>1. \A s \in Sessions : <<e, s>> \notin DOMAIN sessionIndex
  BY DEF Init
<1>2. servingCounter[e] = 0 /\ e \notin DOMAIN events
  BY DEF Init
<1> QED BY <1>1, <1>2 DEF LineOf!Init

\* Every operation moves each line as the fair queue allows, or not at all.
LEMMA FairQueueNext ==
  ASSUME ~ForeignPolls, IsFiniteSet(RequestIds), IInv, [Next]_vars, NEW f \in Events
  PROVE  [LineOf(f)!Next]_(LineOf(f)!vars)
<1>1. ASSUME NEW e \in Events, NEW config \in EventConfig, EnsureEvent(e, config)
      PROVE  LineOf(f)!Operate \/ UNCHANGED LineOf(f)!vars
  <2>1. SameLine
    BY <1>1 DEF EnsureEvent, SameLine
  <2>2. UNCHANGED <<visitors, servingCounter>>
    BY <1>1 DEF EnsureEvent
  <2>3. Place(f)' = Place(f) /\ LetIn(f)' = LetIn(f) /\ servingCounter'[f] = servingCounter[f]
    BY <2>1, <2>2, PlacesKept
  <2>4. CASE f = e
    <3>1. Floodgates(f)' \in BOOLEAN
      BY <1>1, <2>4 DEF EnsureEvent, Insert, EventConfig, Floodgates
    <3> QED BY <2>3, <3>1 DEF LineOf!Operate, Place, LetIn, Floodgates
  <2>5. CASE f # e
    <3>1. Floodgates(f)' = Floodgates(f)
      BY <1>1, <2>5 DEF EnsureEvent, Insert, Floodgates
    <3> QED BY <2>3, <3>1 DEF LineOf!vars, Place, LetIn, Floodgates
  <2> QED BY <2>4, <2>5
<1>2. ASSUME NEW e \in Events, NEW s \in Sessions, NEW r \in RequestIds, Enroll(e, s, r)
      PROVE  LineOf(f)!Join(s) \/ UNCHANGED LineOf(f)!vars
  BY <1>2, EnrollJoins
<1>3. ASSUME NEW e \in Events, NEW r \in RequestIds, MaybeAdmit(e, r)
      PROVE  (\E s \in Sessions : LineOf(f)!Admit(s)) \/ UNCHANGED LineOf(f)!vars
  <2>1. PICK s \in Sessions : s = visitors[r].session
    BY <1>3 DEF MaybeAdmit, IInv, TypeOK, Visitor
  <2> QED BY <1>3, <2>1, MaybeAdmitAdmits
<1>4. ASSUME NEW e \in Events, ReaperTick(e)
      PROVE  LineOf(f)!Advance \/ UNCHANGED LineOf(f)!vars
  BY <1>4, ReaperTickAdvances
<1>5. CASE Tick \/ UNCHANGED vars
  <2>1. UNCHANGED <<events, visitors, sessionIndex, servingCounter>>
    BY <1>5 DEF Tick, vars
  <2>2. SameLine
    BY <1>5 DEF Tick, vars, SameLine
  <2>3. Place(f)' = Place(f) /\ LetIn(f)' = LetIn(f) /\ Floodgates(f)' = Floodgates(f)
    BY <2>1, <2>2, PlacesKept DEF Floodgates
  <2> QED BY <2>1, <2>3 DEF LineOf!vars, Place, LetIn, Floodgates
<1>6. (\E s \in Sessions : LineOf(f)!Join(s) \/ LineOf(f)!Admit(s)) \/ LineOf(f)!Advance \/ LineOf(f)!Operate
        => LineOf(f)!Next
  BY DEF LineOf!Next
<1> QED BY <1>1, <1>2, <1>3, <1>4, <1>5, <1>6 DEF Next

\* Every event's line is a fair queue, for any number of events and visitors.
THEOREM FairQueueImplemented ==
  ASSUME IsFiniteSet(RequestIds), ~ForeignPolls
  PROVE  Spec => ImplementsFairQueue
<1>1. IInv /\ [Next]_vars => \A e \in Events : [LineOf(e)!Next]_(LineOf(e)!vars)
  BY FairQueueNext
<1> QED BY <1>1, FairQueueInit, IInvInit, IInvNext, PTL DEF Spec, ImplementsFairQueue

=============================================================================
