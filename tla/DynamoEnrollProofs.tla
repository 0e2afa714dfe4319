------------------------- MODULE DynamoEnrollProofs -------------------------
(***************************************************************************)
(* What concurrent enrolls guarantee, for any number of calls, shards and  *)
(* retries and any combination of the faults that a theorem does not       *)
(* exclude.                                                                *)
(*                                                                         *)
(* The argument: the shard counters only grow, so the counters just after  *)
(* a call's own ADD (its base) are no later than the counters now, and     *)
(* every counter it reads afterwards is at least its base.  The ADDs are   *)
(* atomic, so the bases of any two calls are strictly ordered.             *)
(***************************************************************************)
EXTENDS DynamoEnroll, QueueKernelProofs

\* A step of an enroll, or of anything that leaves calls and shards alone.
EnrollMoves == (\E c \in Calls : EnrollStep(c)) \/ UNCHANGED <<shards, calls>>

\* Nothing has happened yet.
LEMMA EnrollTypeInit == EnrollInit => EnrollTypeOK
<1> SUFFICES ASSUME EnrollInit PROVE EnrollTypeOK
  OBVIOUS
<1>1. NoEnrollments \in ShardCounters
  BY MergeEmpty
<1>2. event \in EventItem /\ eventLag \in EventItem
  <2>1. PICK n \in Throughputs : event = [paused |-> FALSE, emergencyOpen |-> FALSE, throughput |-> n]
    BY DEF EnrollInit, TablesInit
  <2>2. [paused |-> FALSE, emergencyOpen |-> FALSE, throughput |-> n] \in EventItem
    BY DEF EventItem
  <2> QED BY <2>1, <2>2 DEF EnrollInit, TablesInit
<1>3. DOMAIN visitors = {} /\ DOMAIN visitorsLag = {}
  BY DEF EnrollInit, TablesInit
<1>4. TablesTypeOK
  BY <1>1, <1>2, <1>3 DEF EnrollInit, TablesInit, TablesTypeOK
<1>5. CallsTypeOK
  BY <1>1 DEF EnrollInit, CallsInit, CallsTypeOK
<1> QED BY <1>4, <1>5 DEF EnrollTypeOK

\* The counters an ADD leaves.
LEMMA AddToShardType ==
  ASSUME TablesTypeOK, NEW c \in Calls, AddToShard(c)
  PROVE  /\ TablesTypeOK'
         /\ shards' \in ShardCounters
         /\ NoLater(shards, shards')
         /\ ShardOf[SessionOf[c]] \in Shards
         /\ shards'[ShardOf[SessionOf[c]]] = shards[ShardOf[SessionOf[c]]] + 1
<1>1. ShardOf[SessionOf[c]] \in Shards /\ shards \in ShardCounters
  BY AssignShardAssumption, CallsAssumption DEF TablesTypeOK
<1>2. /\ shards' \in ShardCounters
      /\ NoLater(shards, shards')
  BY <1>1, MergeCountOne DEF AddToShard
<1>3. shards'[ShardOf[SessionOf[c]]] = shards[ShardOf[SessionOf[c]]] + 1
  BY <1>1 DEF AddToShard, CountOne, ShardCounters
<1> QED BY <1>1, <1>2, <1>3 DEF AddToShard, TablesTypeOK

\* A visitor's item is well typed, its position a number.
LEMMA WriteVisitorType ==
  ASSUME EnrollTypeOK, NEW c \in Calls, WriteVisitor(c)
  PROVE  TablesTypeOK'
<1>1. PositionOf(c) \in Nat
  BY TicketsFinite DEF PositionOf, EnrollTypeOK, CallsTypeOK
<1>2. [session |-> SessionOf[c], position |-> PositionOf(c), admitted |-> FALSE] \in VisitorItem
  BY <1>1, CallsAssumption DEF VisitorItem
<1> QED BY <1>2, CallsAssumption DEF WriteVisitor, EnrollTypeOK, TablesTypeOK, Insert

\* Replicas and TTL keep the tables well typed.
LEMMA AroundType ==
  ASSUME TablesTypeOK, Around
  PROVE  TablesTypeOK'
<1> USE DEF TablesTypeOK
<1>1. CASE ReplicateEvent
  BY <1>1 DEF ReplicateEvent
<1>2. CASE ReplicateServing
  BY <1>2 DEF ReplicateServing
<1>3. ASSUME NEW r \in RequestIds, ReplicateVisitor(r) PROVE TablesTypeOK'
  <2>1. CASE r \in DOMAIN visitors
    BY <1>3, <2>1 DEF ReplicateVisitor, Insert
  <2>2. CASE r \notin DOMAIN visitors
    BY <1>3, <2>2 DEF ReplicateVisitor, Remove
  <2> QED BY <2>1, <2>2
<1>4. ASSUME NEW r \in RequestIds, ExpireVisitor(r) PROVE TablesTypeOK'
  BY <1>4 DEF ExpireVisitor, Remove
<1> QED BY <1>1, <1>2, <1>3, <1>4 DEF Around

\* A step of an enroll keeps tables and calls well typed.
LEMMA EnrollStepType ==
  ASSUME EnrollTypeOK, NEW c \in Calls, EnrollStep(c)
  PROVE  EnrollTypeOK'
<1> USE DEF EnrollTypeOK
<1>1. CASE Begin(c)
  BY <1>1 DEF Begin, tables, TablesTypeOK, CallsTypeOK, Ended
<1>2. CASE Lookup(c)
  <2>1. \A view \in Views("staleVisitors", visitors, visitorsLag) : FoundIn(view, c) \subseteq RequestIds
    BY DEF Views, FoundIn, TablesTypeOK
  <2> QED BY <1>2, <2>1 DEF Lookup, tables, TablesTypeOK, CallsTypeOK, Ended
<1>3. CASE Count(c)
  BY <1>3, AddToShardType DEF Count, CallsTypeOK, Ended
<1>4. CASE CountUnanswered(c)
  BY <1>4, AddToShardType DEF CountUnanswered, CallsTypeOK, Ended
<1>5. ASSUME NEW s \in Shards, ReadShard(c, s) PROVE EnrollTypeOK'
  <2>1. shards[s] \in Nat
    BY DEF TablesTypeOK, ShardCounters
  <2>2. seen' \in [Calls -> ShardCounters]
    BY <1>5, <2>1 DEF ReadShard, CallsTypeOK, ShardCounters
  <2>3. TablesTypeOK'
    BY <1>5 DEF ReadShard, tables, TablesTypeOK
  <2> QED BY <1>5, <2>2, <2>3 DEF ReadShard, AfterReading, CallsTypeOK, Ended
<1>6. ASSUME NEW s \in Shards, SkipShard(c, s) PROVE EnrollTypeOK'
  BY <1>6 DEF SkipShard, AfterReading, tables, TablesTypeOK, CallsTypeOK, Ended
<1>7. CASE Put(c)
  BY <1>7, WriteVisitorType, CallsAssumption DEF Put, CallsTypeOK, Ended
<1>8. CASE PutError(c)
  <2>1. TablesTypeOK'
    BY <1>8, WriteVisitorType DEF PutError, tables, TablesTypeOK
  <2> QED BY <1>8, <2>1, MergeEmpty DEF PutError, CallsTypeOK, Ended
<1>9. CASE Abort(c)
  BY <1>9, MergeEmpty DEF Abort, tables, TablesTypeOK, CallsTypeOK, Ended
<1> QED BY <1>1, <1>2, <1>3, <1>4, <1>5, <1>6, <1>7, <1>8, <1>9 DEF EnrollStep

\* The enrolls alone: everything stays well typed, whatever goes wrong.
THEOREM EnrollTypeCorrect == EnrollSpec => []EnrollTypeOK
<1>1. EnrollTypeOK /\ [EnrollNext]_enrollVars => EnrollTypeOK'
  <2> SUFFICES ASSUME EnrollTypeOK, [EnrollNext]_enrollVars PROVE EnrollTypeOK'
    OBVIOUS
  <2>1. CASE Around
    BY <2>1, AroundType DEF Around, EnrollTypeOK, CallsTypeOK, calls
  <2>2. CASE UNCHANGED enrollVars
    BY <2>2 DEF enrollVars, tables, calls, EnrollTypeOK, TablesTypeOK, CallsTypeOK
  <2> QED BY <2>1, <2>2, EnrollStepType DEF EnrollNext
<1> QED BY <1>1, EnrollTypeInit, PTL DEF EnrollSpec

-----------------------------------------------------------------------------

Home(c) == ShardOf[SessionOf[c]]

\* One vector of counters was taken before another one.
Before(earlier, later) == NoLater(earlier, later) /\ \E s \in Shards : earlier[s] < later[s]

\* Counters taken before others merge to strictly less.
LEMMA BeforeMerge ==
  ASSUME NEW f \in ShardCounters, NEW g \in ShardCounters, Before(f, g)
  PROVE  MergeCounterShards(f) < MergeCounterShards(g)
<1>1. PICK s \in Shards : f[s] < g[s]
  BY DEF Before
<1> QED BY <1>1, MergeStrict DEF Before

\* No later than a vector that was taken no later: transitive.
LEMMA NoLaterTrans ==
  ASSUME NEW f \in ShardCounters, NEW g \in ShardCounters, NEW h \in ShardCounters,
         NoLater(f, g), NoLater(g, h)
  PROVE  NoLater(f, h)
BY DEF NoLater, ShardCounters

\* What a call has done by the time it has got where it is.
Progress ==
    \A c \in Calls :
        /\ NoLater(base[c], shards)
        /\ NoLater(seen[c], shards)
        /\ pc[c] \in {"start", "lookup", "count", "recount", "existing", "rejected"} => ~Counted(c)
        /\ pc[c] \in {"sum", "put", "new"} => Counted(c)
        /\ Counted(c) => base[c][Home(c)] > 0
        /\ pc[c] \in {"put", "new"} => unread[c] = {}

\* A step of one call leaves every other call alone, and shards only grow.
OthersAlone(c) ==
    /\ \A d \in Calls \ {c} :
        /\ pc'[d] = pc[d] /\ unread'[d] = unread[d] /\ seen'[d] = seen[d]
        /\ base'[d] = base[d] /\ ahead'[d] = ahead[d]
    /\ shards' \in ShardCounters
    /\ NoLater(shards, shards')

\* Every step of an enroll is such a step.
LEMMA EnrollFrame ==
  ASSUME EnrollTypeOK, NEW c \in Calls, EnrollStep(c)
  PROVE  OthersAlone(c)
<1> USE DEF EnrollTypeOK, OthersAlone
<1>1. shards \in ShardCounters /\ NoLater(shards, shards)
  BY DEF TablesTypeOK, NoLater, ShardCounters
<1>2. UNCHANGED tables => shards' = shards
  BY DEF tables
<1>3. WriteVisitor(c) => shards' = shards
  BY DEF WriteVisitor
<1>4. CASE Begin(c)
  BY <1>1, <1>2, <1>4 DEF Begin, CallsTypeOK
<1>5. CASE Lookup(c)
  BY <1>1, <1>2, <1>5 DEF Lookup, CallsTypeOK
<1>6. CASE Count(c)
  BY <1>6, AddToShardType DEF Count, CallsTypeOK
<1>7. CASE CountUnanswered(c)
  BY <1>7, AddToShardType DEF CountUnanswered, CallsTypeOK
<1>8. ASSUME NEW s \in Shards, ReadShard(c, s) \/ SkipShard(c, s) PROVE OthersAlone(c)
  BY <1>1, <1>2, <1>8 DEF ReadShard, SkipShard, CallsTypeOK
<1>9. CASE Put(c)
  BY <1>1, <1>3, <1>9 DEF Put, CallsTypeOK
<1>10. CASE PutError(c)
  BY <1>1, <1>2, <1>3, <1>10 DEF PutError, CallsTypeOK
<1>11. CASE Abort(c)
  BY <1>1, <1>2, <1>11 DEF Abort, CallsTypeOK
<1> QED BY <1>4, <1>5, <1>6, <1>7, <1>8, <1>9, <1>10, <1>11 DEF EnrollStep

\* The ADD that is answered is the one step that gives a call its base.
LEMMA CountEffect ==
  ASSUME EnrollTypeOK, NEW c \in Calls, EnrollStep(c)
  PROVE  \/ /\ Count(c)
            /\ pc[c] \in {"count", "recount"} /\ pc'[c] = "sum"
            /\ base'[c] = shards' /\ seen'[c] = seen[c] /\ unread'[c] = Shards
            /\ ahead'[c] = ahead[c]
            /\ Home(c) \in Shards
            /\ shards'[Home(c)] = shards[Home(c)] + 1
         \/ /\ ~Count(c)
            /\ base'[c] = base[c]
<1> USE DEF EnrollTypeOK, CallsTypeOK
<1>1. CASE Count(c)
  BY <1>1, AddToShardType DEF Count, Home
<1>2. CASE ~Count(c)
  BY <1>2 DEF EnrollStep, Begin, Lookup, CountUnanswered, ReadShard, SkipShard, Put, PutError, Abort
<1> QED BY <1>1, <1>2

\* Where each step that is no ADD takes a call, and what it has then seen.
LEMMA OtherEffect ==
  ASSUME EnrollTypeOK, NEW c \in Calls, EnrollStep(c), ~Count(c)
  PROVE  /\ \/ seen'[c] = seen[c]
            \/ seen'[c] = NoEnrollments
            \/ \E s \in Shards : seen'[c] = [seen[c] EXCEPT ![s] = shards[s]]
         /\ \/ /\ pc[c] \in {"start", "lookup", "count"}
               /\ pc'[c] \in {"lookup", "count", "recount", "existing", "rejected"}
            \/ /\ pc[c] = "sum"
               /\ \E s \in unread[c] :
                    /\ unread'[c] = unread[c] \ {s}
                    /\ pc'[c] = AfterReading(c, s)
            \/ /\ pc[c] = "put" /\ pc'[c] = "new" /\ UNCHANGED <<unread, seen>>
            \/ /\ pc[c] = "put" /\ pc'[c] = "sum" /\ unread'[c] = Shards
            \/ pc'[c] = "failed"
<1> USE DEF EnrollTypeOK, CallsTypeOK
<1>1. CASE Begin(c)
  BY <1>1 DEF Begin
<1>2. CASE Lookup(c)
  BY <1>2 DEF Lookup
<1>3. CASE CountUnanswered(c)
  BY <1>3 DEF CountUnanswered
<1>4. ASSUME NEW s \in Shards, ReadShard(c, s)
      PROVE  /\ pc[c] = "sum"
             /\ seen'[c] = [seen[c] EXCEPT ![s] = shards[s]]
             /\ s \in unread[c] /\ unread'[c] = unread[c] \ {s}
             /\ pc'[c] = AfterReading(c, s)
  BY <1>4 DEF ReadShard
<1>5. ASSUME NEW s \in Shards, SkipShard(c, s)
      PROVE  /\ pc[c] = "sum"
             /\ seen'[c] = seen[c]
             /\ s \in unread[c] /\ unread'[c] = unread[c] \ {s}
             /\ pc'[c] = AfterReading(c, s)
  BY <1>5 DEF SkipShard
<1>6. CASE Put(c)
  BY <1>6 DEF Put
<1>7. CASE PutError(c)
  BY <1>7 DEF PutError
<1>8. CASE Abort(c)
  BY <1>8 DEF Abort
<1> QED BY <1>1, <1>2, <1>3, <1>4, <1>5, <1>6, <1>7, <1>8 DEF EnrollStep

\* Every step keeps Progress: what a call has read and counted fits where it is.
LEMMA ProgressNext ==
  ASSUME EnrollTypeOK, Progress, EnrollTypeOK', EnrollMoves
  PROVE  Progress'
<1>1. CASE UNCHANGED <<shards, calls>>
  BY <1>1 DEF Progress, Counted, calls
<1>2. ASSUME NEW c \in Calls, EnrollStep(c), NEW d \in Calls
      PROVE  /\ NoLater(base'[d], shards')
             /\ NoLater(seen'[d], shards')
             /\ pc'[d] \in {"start", "lookup", "count", "recount", "existing", "rejected"} => ~Counted(d)'
             /\ pc'[d] \in {"sum", "put", "new"} => Counted(d)'
             /\ Counted(d)' => base'[d][Home(d)] > 0
             /\ pc'[d] \in {"put", "new"} => unread'[d] = {}
  <2>1. OthersAlone(c)
    BY <1>2, EnrollFrame
  <2>2. /\ shards \in ShardCounters /\ shards' \in ShardCounters
        /\ base[d] \in ShardCounters /\ seen[d] \in ShardCounters /\ seen'[d] \in ShardCounters
        /\ NoLater(shards, shards')
    BY <2>1 DEF OthersAlone, EnrollTypeOK, TablesTypeOK, CallsTypeOK
  <2>3. NoLater(base[d], shards') /\ NoLater(seen[d], shards')
    BY <2>2, NoLaterTrans DEF Progress
  <2>4. CASE d # c
    BY <2>1, <2>3, <2>4 DEF OthersAlone, Progress, Counted
  <2>5. CASE d = c /\ Count(c)
    <3>1. /\ pc'[c] = "sum" /\ base'[c] = shards' /\ seen'[c] = seen[c]
          /\ Home(c) \in Shards /\ shards'[Home(c)] = shards[Home(c)] + 1
      BY <1>2, <2>5, CountEffect
    <3>2. base'[c][Home(c)] > 0
      BY <2>2, <3>1 DEF ShardCounters
    <3>3. base'[c] # NoEnrollments
      BY <3>1, <3>2 DEF NoEnrollments
    <3>4. NoLater(base'[c], shards')
      BY <2>2, <3>1 DEF NoLater, ShardCounters
    <3> QED BY <2>3, <2>5, <3>1, <3>2, <3>3, <3>4 DEF Counted
  <2>6. CASE d = c /\ ~Count(c)
    <3>1. base'[c] = base[c]
      BY <1>2, <2>6, CountEffect
    <3>2. NoLater(seen'[c], shards')
      <4>1. CASE seen'[c] = seen[c]
        BY <2>3, <2>6, <4>1
      <4>2. CASE seen'[c] = NoEnrollments
        BY <2>2, <4>2 DEF NoEnrollments, NoLater, ShardCounters
      <4>3. CASE \E s \in Shards : seen'[c] = [seen[c] EXCEPT ![s] = shards[s]]
        BY <2>2, <2>3, <2>6, <4>3 DEF NoLater, ShardCounters
      <4> QED BY <1>2, <2>6, <4>1, <4>2, <4>3, OtherEffect
    <3>3. /\ Counted(c)' <=> Counted(c)
          /\ Counted(c) => base[c][Home(c)] > 0
      BY <3>1 DEF Counted, Progress
    <3>4. /\ pc'[c] \in {"start", "lookup", "count", "recount", "existing", "rejected"} => ~Counted(c)
          /\ pc'[c] \in {"sum", "put", "new"} => Counted(c)
          /\ pc'[c] \in {"put", "new"} => unread'[c] = {}
      <4>1. CASE /\ pc[c] \in {"start", "lookup", "count"}
                 /\ pc'[c] \in {"lookup", "count", "recount", "existing", "rejected"}
        BY <4>1 DEF Progress
      <4>2. CASE pc[c] = "sum" /\ \E s \in unread[c] : /\ unread'[c] = unread[c] \ {s}
                                                       /\ pc'[c] = AfterReading(c, s)
        BY <4>2 DEF Progress, AfterReading
      <4>3. CASE pc[c] = "put" /\ pc'[c] = "new" /\ UNCHANGED <<unread, seen>>
        BY <4>3 DEF Progress
      <4>4. CASE pc[c] = "put" /\ pc'[c] = "sum" /\ unread'[c] = Shards
        BY <4>4 DEF Progress
      <4>5. CASE pc'[c] = "failed"
        BY <4>5
      <4> QED BY <1>2, <2>6, <4>1, <4>2, <4>3, <4>4, <4>5, OtherEffect
    <3> QED BY <2>3, <2>6, <3>1, <3>2, <3>3, <3>4
  <2> QED BY <2>4, <2>5, <2>6
<1> QED BY <1>1, <1>2 DEF EnrollMoves, Progress

-----------------------------------------------------------------------------

\* The answered ADDs took turns.
Ordered ==
    \A c, d \in Calls :
        Counted(c) /\ Counted(d) /\ c # d => Before(base[c], base[d]) \/ Before(base[d], base[c])

\* Whatever was read or counted before an ADD is before its outcome.
LEMMA BeforeAdd ==
  ASSUME NEW f \in ShardCounters, NEW g \in ShardCounters, NEW h \in ShardCounters,
         NoLater(f, g), NoLater(g, h), NEW s \in Shards, h[s] = g[s] + 1
  PROVE  Before(f, h)
<1>1. NoLater(f, h)
  BY NoLaterTrans
<1>2. f[s] < h[s]
  BY DEF NoLater, ShardCounters
<1> QED BY <1>1, <1>2 DEF Before

\* Every step keeps Ordered: the answers to any two ADDs were taken one before the other.
LEMMA OrderedNext ==
  ASSUME EnrollTypeOK, Progress, Ordered, EnrollMoves
  PROVE  Ordered'
<1>1. CASE UNCHANGED <<shards, calls>>
  BY <1>1 DEF Ordered, Counted, calls
<1>2. ASSUME NEW c \in Calls, EnrollStep(c)
      PROVE  Ordered'
  <2>1. OthersAlone(c)
    BY <1>2, EnrollFrame
  <2>2. CASE Count(c)
    <3>1. /\ base'[c] = shards' /\ Home(c) \in Shards /\ shards'[Home(c)] = shards[Home(c)] + 1
      BY <1>2, <2>2, CountEffect
    <3>2. ASSUME NEW d \in Calls, d # c PROVE Before(base'[d], base'[c])
      <4>1. base'[d] = base[d] /\ base[d] \in ShardCounters /\ NoLater(base[d], shards)
        BY <2>1, <3>2 DEF OthersAlone, Progress, EnrollTypeOK, CallsTypeOK
      <4>2. shards \in ShardCounters /\ shards' \in ShardCounters /\ NoLater(shards, shards')
        BY <2>1 DEF OthersAlone, EnrollTypeOK, TablesTypeOK
      <4> QED BY <3>1, <4>1, <4>2, BeforeAdd
    <3> QED BY <2>1, <3>2 DEF OthersAlone, Ordered, Counted
  <2>3. CASE ~Count(c)
    <3>1. \A d \in Calls : base'[d] = base[d]
      BY <1>2, <2>1, <2>3, CountEffect DEF OthersAlone
    <3> QED BY <3>1 DEF Ordered, Counted
  <2> QED BY <2>2, <2>3
<1> QED BY <1>1, <1>2 DEF EnrollMoves

RanksDistinct ==
    \A c, d \in Calls :
        Counted(c) /\ Counted(d) /\ c # d => RankOf(c) # RankOf(d)

\* When the answers to the ADDs are ordered, no two calls have the same rank.
LEMMA OrderedRanks ==
  ASSUME EnrollTypeOK, Ordered
  PROVE  RanksDistinct
<1> SUFFICES ASSUME NEW c \in Calls, NEW d \in Calls, Counted(c), Counted(d), c # d
             PROVE  RankOf(c) # RankOf(d)
  BY DEF RanksDistinct
<1>1. base[c] \in ShardCounters /\ base[d] \in ShardCounters
  BY DEF EnrollTypeOK, CallsTypeOK
<1>2. RankOf(c) \in Nat /\ RankOf(d) \in Nat
  BY <1>1, TicketsFinite DEF RankOf
<1>3. RankOf(c) < RankOf(d) \/ RankOf(d) < RankOf(c)
  BY <1>1, BeforeMerge DEF Ordered, RankOf
<1> QED BY <1>2, <1>3

-----------------------------------------------------------------------------

\* When no key of a batch is left unprocessed: every counter that a call has
\* read is at least what it was when the call's own ADD was done.
CaughtUp ==
    \A c \in Calls : \A s \in Shards \ unread[c] :
        pc[c] \in {"sum", "put", "new"} => base[c][s] <= seen[c][s]

\* Every step keeps CaughtUp: no shard is read below what it held after the own ADD.
LEMMA CaughtUpNext ==
  ASSUME "partialBatch" \notin Faults, EnrollTypeOK, Progress, CaughtUp, EnrollMoves
  PROVE  CaughtUp'
<1>1. CASE UNCHANGED <<shards, calls>>
  BY <1>1 DEF CaughtUp, calls
<1>2. ASSUME NEW c \in Calls, EnrollStep(c), NEW d \in Calls, NEW s \in Shards \ unread'[d],
             pc'[d] \in {"sum", "put", "new"}
      PROVE  base'[d][s] <= seen'[d][s]
  <2> USE DEF EnrollTypeOK, CallsTypeOK
  <2>1. OthersAlone(c)
    BY <1>2, EnrollFrame
  <2>2. CASE d # c
    BY <1>2, <2>1, <2>2 DEF OthersAlone, CaughtUp
  <2>3. CASE d = c /\ Count(c)
    BY <1>2, <2>3, CountEffect
  <2>4. CASE d = c /\ ~Count(c)
    <3>1. base'[c] = base[c]
      BY <1>2, <2>4, CountEffect
    <3>2. CASE Put(c)
      <4>1. s \in Shards \ unread[c] /\ pc[c] = "put" /\ seen' = seen
        BY <1>2, <2>4, <3>2 DEF Put
      <4> QED BY <2>4, <3>1, <4>1 DEF CaughtUp
    <3>3. ASSUME NEW u \in Shards, ReadShard(c, u)
          PROVE  base'[c][s] <= seen'[c][s]
      <4>1. /\ pc[c] = "sum"
            /\ seen'[c] = [seen[c] EXCEPT ![u] = shards[u]]
            /\ unread'[c] = unread[c] \ {u}
        BY <3>3 DEF ReadShard
      <4>2. CASE s = u
        <5>1. seen'[c][s] = shards[s]
          BY <4>1, <4>2 DEF ShardCounters
        <5>2. base[c][s] <= shards[s]
          BY DEF Progress, NoLater
        <5> QED BY <3>1, <5>1, <5>2
      <4>3. CASE s # u
        <5>1. seen'[c][s] = seen[c][s] /\ s \in Shards \ unread[c]
          BY <1>2, <2>4, <4>1, <4>3 DEF ShardCounters
        <5> QED BY <3>1, <4>1, <5>1 DEF CaughtUp
      <4> QED BY <4>2, <4>3
    <3>4. CASE PutError(c)
      BY <1>2, <2>4, <3>4 DEF PutError
    <3>5. CASE Begin(c) \/ Lookup(c) \/ CountUnanswered(c) \/ Abort(c)
      BY <1>2, <2>4, <3>5 DEF Begin, Lookup, CountUnanswered, Abort
    <3>6. \A u \in Shards : ~SkipShard(c, u)
      BY DEF SkipShard
    <3> QED BY <1>2, <2>4, <3>2, <3>3, <3>4, <3>5, <3>6 DEF EnrollStep
  <2> QED BY <2>2, <2>3, <2>4
<1> QED BY <1>1, <1>2 DEF EnrollMoves, CaughtUp

\* So a call never computes a position before its turn.
LEMMA CaughtUpPosition ==
  ASSUME EnrollTypeOK, Progress, CaughtUp
  PROVE  PositionNotBeforeRank
<1> SUFFICES ASSUME NEW c \in Calls, pc[c] \in {"put", "new"}
             PROVE  RankOf(c) <= PositionOf(c)
  BY DEF PositionNotBeforeRank
<1>1. base[c] \in ShardCounters /\ seen[c] \in ShardCounters
  BY DEF EnrollTypeOK, CallsTypeOK
<1>2. NoLater(base[c], seen[c])
  BY DEF Progress, CaughtUp, NoLater
<1> QED BY <1>1, <1>2, MergeMonotone DEF RankOf, PositionOf

-----------------------------------------------------------------------------

\* Whoever had its position when a call began is before that call's turn.
Queued ==
    \A d \in Calls : \A c \in ahead[d] :
        /\ pc[c] \in Ended
        /\ pc[c] = "new" /\ Counted(d) => Before(seen[c], base[d])

\* Every step keeps Queued: who began after a call had returned counts after it.
LEMMA QueuedNext ==
  ASSUME EnrollTypeOK, Progress, Queued, EnrollMoves
  PROVE  Queued'
<1>1. CASE UNCHANGED <<shards, calls>>
  BY <1>1 DEF Queued, Counted, calls
<1>2. ASSUME NEW e \in Calls, EnrollStep(e), NEW d \in Calls, NEW c \in ahead'[d]
      PROVE  pc'[c] \in Ended /\ (pc'[c] = "new" /\ Counted(d)' => Before(seen'[c], base'[d]))
  <2> USE DEF EnrollTypeOK, CallsTypeOK
  <2>1. OthersAlone(e)
    BY <1>2, EnrollFrame
  <2>2. pc[e] \notin Ended
    BY <1>2 DEF EnrollStep, Begin, Lookup, Count, CountUnanswered, ReadShard, SkipShard, Put,
                PutError, Abort, Ended
  <2>3. CASE ahead'[d] = ahead[d]
    <3>1. c \in Calls /\ pc[c] \in Ended /\ c # e
      BY <1>2, <2>2, <2>3 DEF Queued
    <3>2. pc'[c] = pc[c] /\ pc'[c] \in Ended /\ seen'[c] = seen[c]
      BY <2>1, <3>1 DEF OthersAlone
    <3>3. CASE base'[d] = base[d]
      BY <1>2, <2>3, <3>2, <3>3 DEF Queued, Counted
    <3>4. CASE base'[d] # base[d]
      <4>1. d = e /\ Count(e)
        BY <1>2, <2>1, <3>4, CountEffect DEF OthersAlone
      <4>2. /\ base'[d] = shards' /\ Home(d) \in Shards
            /\ shards'[Home(d)] = shards[Home(d)] + 1
        BY <1>2, <4>1, CountEffect
      <4>3. /\ seen[c] \in ShardCounters /\ shards \in ShardCounters /\ shards' \in ShardCounters
            /\ NoLater(seen[c], shards) /\ NoLater(shards, shards')
        BY <2>1, <3>1 DEF OthersAlone, Progress, TablesTypeOK
      <4> QED BY <3>2, <4>2, <4>3, BeforeAdd
    <3> QED BY <3>3, <3>4, <3>2
  <2>4. CASE ahead'[d] # ahead[d]
    <3>1. d = e /\ Begin(e)
      BY <1>2, <2>1, <2>4 DEF OthersAlone, EnrollStep, Begin, Lookup, Count, CountUnanswered,
                              ReadShard, SkipShard, Put, PutError, Abort
    <3>2. pc[d] = "start" /\ base' = base /\ ahead'[d] \subseteq {q \in Calls : pc[q] \in Ended}
      BY <3>1 DEF Begin
    <3>3. ~Counted(d)'
      BY <3>2 DEF Progress, Counted
    <3>4. c \in Calls /\ pc[c] \in Ended /\ c # e
      BY <1>2, <2>2, <3>2
    <3> QED BY <2>1, <3>3, <3>4 DEF OthersAlone
  <2> QED BY <2>3, <2>4
<1> QED BY <1>1, <1>2 DEF EnrollMoves, Queued

\* When Queued holds of the reads, it holds of the positions they sum to.
LEMMA QueuedPosition ==
  ASSUME EnrollTypeOK, Progress, CaughtUp, Queued
  PROVE  NoOvertaking
<1> SUFFICES ASSUME NEW c \in Calls, NEW d \in Calls, pc[d] \in {"put", "new"}, c \in ahead[d],
                    pc[c] = "new"
             PROVE  PositionOf(c) < PositionOf(d)
  BY DEF NoOvertaking
<1>1. base[d] \in ShardCounters /\ seen[c] \in ShardCounters /\ seen[d] \in ShardCounters
  BY DEF EnrollTypeOK, CallsTypeOK
<1>2. PositionOf(c) < RankOf(d)
  BY <1>1, BeforeMerge DEF Queued, Progress, PositionOf, RankOf
<1>3. RankOf(d) <= PositionOf(d)
  BY CaughtUpPosition DEF PositionNotBeforeRank
<1>4. PositionOf(c) \in Nat /\ RankOf(d) \in Nat /\ PositionOf(d) \in Nat
  BY <1>1, TicketsFinite DEF PositionOf, RankOf
<1> QED BY <1>2, <1>3, <1>4

-----------------------------------------------------------------------------

\* The inductive invariant of the enrolls, whatever goes wrong.
CallsInv == EnrollTypeOK /\ Progress /\ Ordered /\ Queued

\* ... and as long as no batch leaves a key unprocessed.
BatchesInv == "partialBatch" \notin Faults => CaughtUp

\* The invariant holds before any call has begun.
LEMMA CallsInvInit == EnrollInit => CallsInv /\ BatchesInv
<1> SUFFICES ASSUME EnrollInit PROVE CallsInv /\ BatchesInv
  OBVIOUS
<1>1. EnrollTypeOK
  BY EnrollTypeInit
<1>2. Progress
  BY DEF EnrollInit, TablesInit, CallsInit, Progress, NoLater, NoEnrollments, Counted
<1>3. Ordered /\ Queued /\ BatchesInv
  BY DEF EnrollInit, CallsInit, Ordered, Queued, BatchesInv, CaughtUp, Counted
<1> QED BY <1>1, <1>2, <1>3 DEF CallsInv

\* Every step of an enroll, and every step around it, keeps the invariant.
LEMMA CallsInvNext ==
  ASSUME CallsInv, BatchesInv, EnrollTypeOK', EnrollMoves
  PROVE  CallsInv' /\ BatchesInv'
BY ProgressNext, OrderedNext, QueuedNext, CaughtUpNext DEF CallsInv, BatchesInv

\* The invariant holds throughout every behaviour.
LEMMA EnrollInvariant == EnrollSpec => [](CallsInv /\ BatchesInv)
<1>1. CallsInv /\ BatchesInv /\ EnrollTypeOK' /\ [EnrollNext]_enrollVars => (CallsInv /\ BatchesInv)'
  <2> SUFFICES ASSUME CallsInv, BatchesInv, EnrollTypeOK', [EnrollNext]_enrollVars
               PROVE  CallsInv' /\ BatchesInv'
    OBVIOUS
  <2>1. Around => shards' = shards /\ UNCHANGED calls
    BY DEF Around, ReplicateEvent, ReplicateServing, ReplicateVisitor, ExpireVisitor
  <2>2. EnrollMoves
    BY <2>1 DEF EnrollMoves, EnrollNext, enrollVars, tables
  <2> QED BY <2>2, CallsInvNext
<1> QED BY <1>1, CallsInvInit, EnrollTypeCorrect, PTL DEF EnrollSpec

\* Nobody gains a place by racing.
THEOREM PositionsNotEarly ==
  ASSUME "partialBatch" \notin Faults
  PROVE  EnrollSpec => []PositionNotBeforeRank
<1>1. CallsInv /\ BatchesInv => PositionNotBeforeRank
  BY CaughtUpPosition DEF CallsInv, BatchesInv
<1> QED BY <1>1, EnrollInvariant, PTL

\* First come, first served.
THEOREM FirstComeFirstServed ==
  ASSUME "partialBatch" \notin Faults
  PROVE  EnrollSpec => []NoOvertaking
<1>1. CallsInv /\ BatchesInv => NoOvertaking
  BY QueuedPosition DEF CallsInv, BatchesInv
<1> QED BY <1>1, EnrollInvariant, PTL

-----------------------------------------------------------------------------

\* Items are filed under the request and the session of some call.
Owned ==
    \A r \in DOMAIN visitors :
        \E c \in Calls : RequestOf[c] = r /\ SessionOf[c] = visitors[r].session

\* Of a session whose calls took turns: it has one item at most; a call that is
\* about to write one knows of no other; and who was answered was given it.
Single ==
    \A s \in Sessions : TakesTurns(s) =>
        /\ \A q, r \in DOMAIN visitors :
                visitors[q].session = s /\ visitors[r].session = s => q = r
        /\ \A c \in Calls : SessionOf[c] = s =>
                /\ pc[c] \in {"count", "recount", "sum", "put"} =>
                        FoundIn(visitors, c) \subseteq {RequestOf[c]}
                /\ pc[c] \in {"new", "existing"} =>
                        \E r \in FoundIn(visitors, c) : answer[c] = {r}

\* A session whose calls take turns after a step did so before.
LEMMA TurnsTaken ==
  ASSUME EnrollTypeOK, Queued, NEW c \in Calls, EnrollStep(c), NEW s, TakesTurns(s)'
  PROVE  TakesTurns(s)
<1> SUFFICES ASSUME NEW a \in Calls, NEW b \in Calls, SessionOf[a] = s, SessionOf[b] = s,
                    RequestOf[a] # RequestOf[b], {pc[a], pc[b]} \cap {"start", "rejected"} = {}
             PROVE  a \in ahead[b] \/ b \in ahead[a]
  BY DEF TakesTurns
<1>1. \A d \in Calls : pc[d] \notin {"start", "rejected"} =>
            pc'[d] \notin {"start", "rejected"} /\ ahead'[d] = ahead[d]
  <2>1. \A d \in Calls \ {c} : pc'[d] = pc[d] /\ ahead'[d] = ahead[d]
    BY EnrollFrame DEF OthersAlone
  <2>2. pc[c] # "start" => pc'[c] \notin {"start", "rejected"} /\ ahead'[c] = ahead[c]
    BY DEF EnrollStep, Begin, Lookup, Count, CountUnanswered, ReadShard, SkipShard, AfterReading,
           Put, PutError, Abort, EnrollTypeOK, CallsTypeOK
  <2> QED BY <2>1, <2>2
<1> QED BY <1>1 DEF TakesTurns

\* Two calls that are both about to write, of a session whose calls take turns,
\* are deliveries of one message.
LEMMA WritersAgree ==
  ASSUME Queued, NEW s, TakesTurns(s), NEW c \in Calls, NEW d \in Calls,
         SessionOf[c] = s, SessionOf[d] = s,
         {pc[c], pc[d]} \subseteq {"lookup", "count", "recount", "sum", "put"}
  PROVE  RequestOf[c] = RequestOf[d]
BY DEF Queued, TakesTurns, Ended

\* The PUT of a call: its session has the item it writes and no other.
LEMMA WriteSingle ==
  ASSUME EnrollTypeOK, Owned, NEW c \in Calls, WriteVisitor(c)
  PROVE  /\ Owned'
         /\ DOMAIN visitors' = DOMAIN visitors \cup {RequestOf[c]}
         /\ visitors'[RequestOf[c]].session = SessionOf[c]
         /\ \A r \in DOMAIN visitors : visitors'[r].session = visitors[r].session
<1> DEFINE q == RequestOf[c]
           new == [session |-> SessionOf[c], position |-> PositionOf(c), admitted |-> FALSE]
<1>1. visitors' = Insert(visitors, q, new)
  BY DEF WriteVisitor
<1>2. new.session = SessionOf[c]
  OBVIOUS
<1> HIDE DEF new
<1>3. /\ DOMAIN visitors' = DOMAIN visitors \cup {q}
      /\ visitors'[q].session = SessionOf[c]
      /\ \A r \in DOMAIN visitors : r # q => visitors'[r] = visitors[r]
  BY <1>1, <1>2 DEF Insert
<1>4. q \in DOMAIN visitors => visitors[q].session = SessionOf[c]
  BY MessagesAssumption DEF Owned
<1>5. \A r \in DOMAIN visitors : visitors'[r].session = visitors[r].session
  BY <1>3, <1>4
<1>6. Owned'
  BY <1>3, <1>5 DEF Owned
<1> QED BY <1>3, <1>5, <1>6

\* Every step of an enroll keeps Single, as long as the index answers and is current.
LEMMA SingleStep ==
  ASSUME {"staleVisitors", "indexFails"} \cap Faults = {}, EnrollTypeOK, Queued, Owned, Single,
         NEW c \in Calls, EnrollStep(c)
  PROVE  Owned' /\ Single'
<1> USE DEF EnrollTypeOK, CallsTypeOK
<1>1. /\ \A d \in Calls \ {c} : pc'[d] = pc[d] /\ answer'[d] = answer[d]
      /\ OthersAlone(c)
  <2>1. \A d \in Calls \ {c} : answer'[d] = answer[d]
    BY DEF EnrollStep, Begin, Lookup, Count, CountUnanswered, ReadShard, SkipShard, Put, PutError, Abort
  <2> QED BY <2>1, EnrollFrame DEF OthersAlone
<1>2. ASSUME WriteVisitor(c), pc[c] = "put", pc'[c] \in {"sum", "failed", "new"},
             pc'[c] = "new" => answer'[c] = {RequestOf[c]}
      PROVE  Owned' /\ Single'
  <2>1. /\ Owned'
        /\ DOMAIN visitors' = DOMAIN visitors \cup {RequestOf[c]}
        /\ visitors'[RequestOf[c]].session = SessionOf[c]
        /\ \A r \in DOMAIN visitors : visitors'[r].session = visitors[r].session
    BY <1>2, WriteSingle
  <2>2. ASSUME NEW s \in Sessions, TakesTurns(s)'
        PROVE  /\ \A q, r \in DOMAIN visitors' :
                    visitors'[q].session = s /\ visitors'[r].session = s => q = r
               /\ \A d \in Calls : SessionOf[d] = s =>
                    /\ pc'[d] \in {"count", "recount", "sum", "put"} =>
                            FoundIn(visitors, d)' \subseteq {RequestOf[d]}
                    /\ pc'[d] \in {"new", "existing"} =>
                            \E r \in FoundIn(visitors, d)' : answer'[d] = {r}
    <3>1. TakesTurns(s)
      BY <2>2, TurnsTaken
    <3>2. CASE SessionOf[c] # s
      <4>1. \A d \in Calls : SessionOf[d] = s => d # c /\ FoundIn(visitors, d)' = FoundIn(visitors, d)
        BY <2>1, <3>2 DEF FoundIn
      <4> QED BY <1>1, <2>1, <3>1, <3>2, <4>1 DEF Single
    <3>3. CASE SessionOf[c] = s
      <4>1. FoundIn(visitors, c) \subseteq {RequestOf[c]}
        BY <1>2, <3>1, <3>3 DEF Single
      <4>2. \A r \in DOMAIN visitors' : visitors'[r].session = s <=> r = RequestOf[c]
        BY <2>1, <3>3, <4>1 DEF FoundIn
      <4>3. \A d \in Calls : SessionOf[d] = s => FoundIn(visitors, d)' = {RequestOf[c]}
        BY <2>1, <4>2 DEF FoundIn
      <4>4. ASSUME NEW d \in Calls, SessionOf[d] = s, pc'[d] \in {"count", "recount", "sum", "put"}
            PROVE  RequestOf[d] = RequestOf[c]
        BY <1>1, <1>2, <3>1, <3>3, <4>4, WritersAgree
      <4>5. ASSUME NEW d \in Calls, SessionOf[d] = s, pc'[d] \in {"new", "existing"}
            PROVE  \E r \in FoundIn(visitors, d)' : answer'[d] = {r}
        <5>1. CASE d = c
          BY <1>2, <4>3, <4>5, <5>1
        <5>2. CASE d # c
          <6>1. PICK r \in FoundIn(visitors, d) : answer[d] = {r}
            BY <1>1, <3>1, <4>5, <5>2 DEF Single
          <6>2. r \in FoundIn(visitors, d)'
            BY <2>1, <6>1 DEF FoundIn
          <6> QED BY <1>1, <5>2, <6>1, <6>2
        <5> QED BY <5>1, <5>2
      <4> QED BY <4>2, <4>3, <4>4, <4>5
    <3> QED BY <3>2, <3>3
  <2> QED BY <2>1, <2>2 DEF Single
<1>3. ASSUME visitors' = visitors,
             pc'[c] \in {"count", "recount", "sum", "put"} =>
                \/ pc[c] \in {"count", "recount", "sum", "put"}
                \/ FoundIn(visitors, c) = {},
             pc'[c] \in {"new", "existing"} => \E r \in FoundIn(visitors, c) : answer'[c] = {r}
      PROVE  Owned' /\ Single'
  <2>1. \A d \in Calls : FoundIn(visitors, d)' = FoundIn(visitors, d)
    BY <1>3 DEF FoundIn
  <2>2. \A s \in Sessions : TakesTurns(s)' => TakesTurns(s)
    BY TurnsTaken
  <2>3. ASSUME NEW d \in Calls, TakesTurns(SessionOf[d])
        PROVE  /\ pc'[d] \in {"count", "recount", "sum", "put"} =>
                        FoundIn(visitors, d) \subseteq {RequestOf[d]}
               /\ pc'[d] \in {"new", "existing"} =>
                        \E r \in FoundIn(visitors, d) : answer'[d] = {r}
    <3>1. CASE d = c
      BY <1>3, <2>3, <3>1, CallsAssumption DEF Single
    <3>2. CASE d # c
      BY <1>1, <2>3, <3>2, CallsAssumption DEF Single
    <3> QED BY <3>1, <3>2
  <2> QED BY <1>3, <2>1, <2>2, <2>3 DEF Owned, Single
<1>4. CASE Begin(c) \/ Count(c) \/ CountUnanswered(c) \/ Abort(c)
  BY <1>3, <1>4 DEF Begin, Count, CountUnanswered, AddToShard, Abort, tables
<1>5. CASE Lookup(c)
  <2>1. Views("staleVisitors", visitors, visitorsLag) = {visitors} /\ Pages = {RequestIds}
    BY DEF Views, Pages
  <2>2. FoundIn(visitors, c) \cap RequestIds = FoundIn(visitors, c)
    BY DEF FoundIn, EnrollTypeOK, TablesTypeOK
  <2> QED BY <1>3, <1>5, <2>1, <2>2 DEF Lookup, tables
<1>6. ASSUME NEW s \in Shards, ReadShard(c, s) \/ SkipShard(c, s) PROVE Owned' /\ Single'
  BY <1>3, <1>6 DEF ReadShard, SkipShard, AfterReading, tables
<1>7. CASE Put(c)
  BY <1>2, <1>7 DEF Put
<1>8. CASE PutError(c)
  BY <1>2, <1>3, <1>8 DEF PutError, tables
<1> QED BY <1>4, <1>5, <1>6, <1>7, <1>8 DEF EnrollStep

\* Whoever of such a session was answered, was given its one visitor.
LEMMA SingleAnswers ==
  ASSUME Single
  PROVE  SameVisitorAgain
<1> SUFFICES ASSUME NEW c \in Calls, NEW d \in Calls, SessionOf[c] = SessionOf[d],
                    TakesTurns(SessionOf[c]), {pc[c], pc[d]} \subseteq {"new", "existing"}
             PROVE  answer[c] = answer[d]
  BY DEF SameVisitorAgain
<1>1. SessionOf[c] \in Sessions
  BY CallsAssumption
<1>2. PICK q \in FoundIn(visitors, c) : answer[c] = {q}
  BY <1>1 DEF Single
<1>3. PICK r \in FoundIn(visitors, d) : answer[d] = {r}
  BY <1>1 DEF Single
<1>4. q = r
  BY <1>1, <1>2, <1>3 DEF Single, FoundIn
<1> QED BY <1>2, <1>3, <1>4

\* A session that asks again, whether its last call was answered, died or gave
\* up half way, keeps the one visitor it has, as long as the index answers
\* and is current, and TTL spares it; EnrollTwoTabs shows what calls at the same
\* time may do.
THEOREM SameVisitor ==
  ASSUME {"staleVisitors", "indexFails", "ttl"} \cap Faults = {}
  PROVE  EnrollSpec => []SameVisitorAgain
<1>1. EnrollInit => Owned /\ Single
  BY DEF EnrollInit, TablesInit, CallsInit, Owned, Single
<1>2. EnrollTypeOK /\ Queued /\ Owned /\ Single /\ [EnrollNext]_enrollVars => (Owned /\ Single)'
  <2> SUFFICES ASSUME EnrollTypeOK, Queued, Owned, Single, [EnrollNext]_enrollVars
               PROVE  Owned' /\ Single'
    OBVIOUS
  <2>1. CASE Around \/ UNCHANGED enrollVars
    <3>1. visitors' = visitors /\ UNCHANGED calls
      BY <2>1 DEF Around, ReplicateEvent, ReplicateServing, ReplicateVisitor, ExpireVisitor,
                  enrollVars, tables
    <3>2. pc' = pc /\ answer' = answer /\ ahead' = ahead
      BY <3>1 DEF calls
    <3> QED BY <3>1, <3>2 DEF Owned, Single, TakesTurns, FoundIn
  <2> QED BY <2>1, SingleStep DEF EnrollNext
<1>3. CallsInv => EnrollTypeOK /\ Queued
  BY DEF CallsInv
<1>4. Single => SameVisitorAgain
  BY SingleAnswers
<1> QED BY <1>1, <1>2, <1>3, <1>4, EnrollInvariant, PTL DEF EnrollSpec

-----------------------------------------------------------------------------
\* The line only gets longer.
LEMMA LineGrows ==
  ASSUME EnrollTypeOK, EnrollTypeOK', EnrollMoves
  PROVE  /\ MergeCounterShards(shards) \in Nat /\ MergeCounterShards(shards') \in Nat
         /\ MergeCounterShards(shards) <= MergeCounterShards(shards')
<1>1. shards \in ShardCounters /\ shards' \in ShardCounters
  BY DEF EnrollTypeOK, TablesTypeOK
<1>2. NoLater(shards, shards')
  BY <1>1, EnrollFrame DEF EnrollMoves, OthersAlone, NoLater, ShardCounters
<1> QED BY <1>1, <1>2, MergeMonotone, TicketsFinite

\* A call has seen no more than there was to see.
LEMMA SeenWithinLine ==
  ASSUME EnrollTypeOK, Progress, NEW c \in Calls
  PROVE  PositionOf(c) \in Nat /\ PositionOf(c) <= MergeCounterShards(shards)
<1>1. seen[c] \in ShardCounters /\ shards \in ShardCounters /\ NoLater(seen[c], shards)
  BY DEF EnrollTypeOK, CallsTypeOK, TablesTypeOK, Progress
<1> QED BY <1>1, MergeMonotone, TicketsFinite DEF PositionOf

\* Places stay within the line as long as each is an old one or what a call has seen.
LEMMA PlacesKept ==
  ASSUME EnrollTypeOK, EnrollTypeOK', Progress, EnrollMoves, PlacesWithinLine,
         \A r \in DOMAIN visitors' :
            \/ r \in DOMAIN visitors /\ visitors'[r].position = visitors[r].position
            \/ visitors'[r].position = 0
            \/ \E c \in Calls : visitors'[r].position = PositionOf(c)
  PROVE  PlacesWithinLine'
<1>1. /\ MergeCounterShards(shards) \in Nat /\ MergeCounterShards(shards') \in Nat
      /\ MergeCounterShards(shards) <= MergeCounterShards(shards')
  BY LineGrows
<1> SUFFICES ASSUME NEW r \in DOMAIN visitors'
             PROVE  visitors'[r].position <= MergeCounterShards(shards')
  BY DEF PlacesWithinLine
<1>2. CASE r \in DOMAIN visitors /\ visitors'[r].position = visitors[r].position
  <2>1. visitors[r].position \in Nat /\ visitors[r].position <= MergeCounterShards(shards)
    BY <1>2 DEF PlacesWithinLine, EnrollTypeOK, TablesTypeOK, VisitorItem
  <2> QED BY <1>1, <1>2, <2>1
<1>3. CASE visitors'[r].position = 0
  BY <1>1, <1>3
<1>4. ASSUME NEW c \in Calls, visitors'[r].position = PositionOf(c)
      PROVE  visitors'[r].position <= MergeCounterShards(shards')
  <2>1. PositionOf(c) \in Nat /\ PositionOf(c) <= MergeCounterShards(shards)
    BY SeenWithinLine
  <2> QED BY <1>1, <1>4, <2>1
<1> QED BY <1>2, <1>3, <1>4

\* What an enroll, and TTL, may leave of the places.
LEMMA EnrollPlaces ==
  ASSUME EnrollTypeOK, (\E c \in Calls : EnrollStep(c)) \/ Around \/ UNCHANGED visitors
  PROVE  \A r \in DOMAIN visitors' :
            \/ r \in DOMAIN visitors /\ visitors'[r].position = visitors[r].position
            \/ \E c \in Calls : visitors'[r].position = PositionOf(c)
<1>1. ASSUME NEW c \in Calls, EnrollStep(c), NEW r \in DOMAIN visitors'
      PROVE  \/ r \in DOMAIN visitors /\ visitors'[r].position = visitors[r].position
             \/ visitors'[r].position = PositionOf(c)
  <2>1. WriteVisitor(c) \/ UNCHANGED visitors
    BY <1>1 DEF EnrollStep, Begin, Lookup, Count, CountUnanswered, AddToShard, ReadShard, SkipShard,
                Put, PutError, Abort, tables
  <2> QED BY <1>1, <2>1 DEF WriteVisitor, Insert
<1>2. CASE Around
  BY <1>2 DEF Around, ReplicateEvent, ReplicateServing, ReplicateVisitor, ExpireVisitor, Remove
<1> QED BY <1>1, <1>2

\* However incomplete the sums are and whatever is repeated, the line is long
\* enough for everybody that is recorded in it.
THEOREM PlacesInLine == EnrollSpec => []PlacesWithinLine
<1>1. EnrollInit => PlacesWithinLine
  BY DEF EnrollInit, TablesInit, PlacesWithinLine
<1>2. CallsInv /\ EnrollTypeOK' /\ PlacesWithinLine /\ [EnrollNext]_enrollVars => PlacesWithinLine'
  <2> SUFFICES ASSUME CallsInv, EnrollTypeOK', PlacesWithinLine, [EnrollNext]_enrollVars
               PROVE  PlacesWithinLine'
    OBVIOUS
  <2>1. Around => UNCHANGED <<shards, calls>>
    BY DEF Around, ReplicateEvent, ReplicateServing, ReplicateVisitor, ExpireVisitor
  <2>2. EnrollMoves
    BY <2>1 DEF EnrollMoves, EnrollNext, enrollVars, tables
  <2>3. \A r \in DOMAIN visitors' :
            \/ r \in DOMAIN visitors /\ visitors'[r].position = visitors[r].position
            \/ \E c \in Calls : visitors'[r].position = PositionOf(c)
    BY EnrollPlaces DEF EnrollNext, enrollVars, tables, CallsInv
  <2> QED BY <2>2, <2>3, PlacesKept DEF CallsInv
<1> QED BY <1>1, <1>2, EnrollInvariant, EnrollTypeCorrect, PTL DEF EnrollSpec

=============================================================================
