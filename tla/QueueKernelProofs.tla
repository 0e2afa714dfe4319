------------------------- MODULE QueueKernelProofs -------------------------
(***************************************************************************)
(* Facts about MergeCounterShards that the proofs about both stores cite.  *)
(***************************************************************************)
EXTENDS QueueKernel, FiniteSetTheorems, TLAPS

\* Only finitely many tickets were ever handed out, so a position is a number.
LEMMA TicketsFinite ==
  ASSUME NEW f \in ShardCounters
  PROVE  /\ IsFiniteSet(Tickets(f))
         /\ MergeCounterShards(f) \in Nat
<1> DEFINE T == {{s} \X (1 .. f[s]) : s \in Shards}
           g == [s \in Shards |-> {s} \X (1 .. f[s])]
<1>1. g \in Surjection(Shards, T)
  BY DEF Surjection
<1>2. IsFiniteSet(T)
  BY <1>1, FS_Surjection, ShardPlanAssumption
<1>3. \A U \in T : IsFiniteSet(U)
  <2> SUFFICES ASSUME NEW s \in Shards PROVE IsFiniteSet({s} \X (1 .. f[s]))
    OBVIOUS
  <2>1. f[s] \in Nat
    BY DEF ShardCounters
  <2>2. IsFiniteSet(1 .. f[s])
    <3>1. 1 \in Int /\ f[s] \in Int
      BY <2>1
    <3> QED BY <3>1, FS_Interval
  <2>3. IsFiniteSet({s})
    BY FS_Singleton
  <2> QED BY <2>2, <2>3, FS_Product
<1>4. IsFiniteSet(Tickets(f))
  BY <1>2, <1>3, FS_UNION DEF Tickets
<1> QED BY <1>4, FS_CardinalityType DEF MergeCounterShards

\* Which tickets a vector of counters has handed out.
LEMMA TicketsOf ==
  ASSUME NEW f \in ShardCounters, NEW t
  PROVE  t \in Tickets(f) <=>
           \E s \in Shards : \E n \in 1 .. f[s] : t = <<s, n>>
BY DEF Tickets

\* Counters that are no later have handed out no more tickets: positions only
\* grow with the counters they are computed from.
LEMMA MergeMonotone ==
  ASSUME NEW f \in ShardCounters, NEW g \in ShardCounters, NoLater(f, g)
  PROVE  MergeCounterShards(f) <= MergeCounterShards(g)
<1>1. Tickets(f) \subseteq Tickets(g)
  <2> SUFFICES ASSUME NEW s \in Shards, NEW n \in 1 .. f[s]
               PROVE  n \in 1 .. g[s]
    BY DEF Tickets
  <2> f[s] \in Nat /\ g[s] \in Nat /\ f[s] <= g[s]
    BY DEF ShardCounters, NoLater
  <2> QED OBVIOUS
<1> QED BY <1>1, TicketsFinite, FS_Subset DEF MergeCounterShards

\* If the later counters differ anywhere, their sum is strictly larger.
LEMMA MergeStrict ==
  ASSUME NEW f \in ShardCounters, NEW g \in ShardCounters, NoLater(f, g),
         NEW s \in Shards, f[s] < g[s]
  PROVE  MergeCounterShards(f) < MergeCounterShards(g)
<1>1. Tickets(f) \subseteq Tickets(g)
  <2> SUFFICES ASSUME NEW u \in Shards, NEW n \in 1 .. f[u]
               PROVE  n \in 1 .. g[u]
    BY DEF Tickets
  <2> f[u] \in Nat /\ g[u] \in Nat /\ f[u] <= g[u]
    BY DEF ShardCounters, NoLater
  <2> QED OBVIOUS
<1>2. <<s, g[s]>> \in Tickets(g)
  <2> f[s] \in Nat /\ g[s] \in Nat
    BY DEF ShardCounters
  <2> g[s] \in 1 .. g[s]
    OBVIOUS
  <2> QED BY TicketsOf
<1>3. <<s, g[s]>> \notin Tickets(f)
  <2> SUFFICES ASSUME NEW u \in Shards, NEW n \in 1 .. f[u], <<s, g[s]>> = <<u, n>>
               PROVE  FALSE
    BY TicketsOf
  <2> f[u] \in Nat /\ g[s] \in Nat /\ u = s /\ n = g[s]
    BY DEF ShardCounters
  <2> QED OBVIOUS
<1>4. Tickets(f) # Tickets(g)
  BY <1>2, <1>3
<1>5. /\ Cardinality(Tickets(f)) <= Cardinality(Tickets(g))
      /\ Cardinality(Tickets(f)) # Cardinality(Tickets(g))
  BY <1>1, <1>4, TicketsFinite, FS_Subset
<1> QED BY <1>5, TicketsFinite DEF MergeCounterShards

\* One enrollment raises the sum by exactly one.
LEMMA MergeCountOne ==
  ASSUME NEW f \in ShardCounters, NEW s \in Shards
  PROVE  /\ CountOne(f, s) \in ShardCounters
         /\ NoLater(f, CountOne(f, s))
         /\ MergeCounterShards(CountOne(f, s)) = MergeCounterShards(f) + 1
<1> DEFINE g == CountOne(f, s)
           t == <<s, f[s] + 1>>
<1>1. g \in ShardCounters /\ NoLater(f, g)
  BY DEF CountOne, ShardCounters, NoLater
<1>2. t \notin Tickets(f)
  <2> SUFFICES ASSUME NEW u \in Shards, NEW n \in 1 .. f[u], t = <<u, n>>
               PROVE  FALSE
    BY TicketsOf
  <2> f[u] \in Nat /\ u = s /\ n = f[s] + 1
    BY DEF ShardCounters
  <2> QED OBVIOUS
<1>3. Tickets(g) = Tickets(f) \cup {t}
  <2>1. 1 .. g[s] = (1 .. f[s]) \cup {f[s] + 1}
    <3>1. f[s] \in Nat /\ g[s] = f[s] + 1
      BY DEF CountOne, ShardCounters
    <3>2. \A k \in Nat : 1 .. (k + 1) = (1 .. k) \cup {k + 1}
      OBVIOUS
    <3> QED BY <3>1, <3>2
  <2>2. \A u \in Shards : u # s => g[u] = f[u]
    BY DEF CountOne, ShardCounters
  <2>3. ASSUME NEW x PROVE x \in Tickets(g) <=> x \in Tickets(f) \cup {t}
    <3>1. CASE x \in Tickets(g)
      <4>0. PICK u \in Shards : \E n \in 1 .. g[u] : x = <<u, n>>
        BY <3>1, <1>1, TicketsOf
      <4>1. PICK n \in 1 .. g[u] : x = <<u, n>>
        BY <4>0
      <4>2. CASE u = s
        <5>1. n \in 1 .. f[s] \/ n = f[s] + 1
          BY <2>1, <4>2
        <5> QED BY <3>1, <4>1, <4>2, <5>1, TicketsOf
      <4>3. CASE u # s
        BY <3>1, <2>2, <4>1, <4>3, TicketsOf
      <4> QED BY <4>2, <4>3
    <3>2. CASE x \in Tickets(f)
      <4>0. PICK u \in Shards : \E n \in 1 .. f[u] : x = <<u, n>>
        BY <3>2, TicketsOf
      <4>1. PICK n \in 1 .. f[u] : x = <<u, n>>
        BY <4>0
      <4>2. n \in 1 .. g[u]
        BY <2>1, <2>2
      <4> QED BY <1>1, <3>2, <4>1, <4>2, TicketsOf
    <3>3. CASE x = t
      <4>1. f[s] + 1 \in 1 .. g[s]
        BY <2>1
      <4> QED BY <1>1, <3>3, <4>1, TicketsOf
    <3> QED BY <3>1, <3>2, <3>3
  <2> QED BY <2>3
<1>4. Cardinality(Tickets(g)) = Cardinality(Tickets(f)) + 1
  BY <1>2, <1>3, TicketsFinite, FS_AddElement
<1> QED BY <1>1, <1>4 DEF MergeCounterShards

\* Nobody has enrolled yet: the sum is zero.
LEMMA MergeEmpty == NoEnrollments \in ShardCounters /\ MergeCounterShards(NoEnrollments) = 0
<1>1. NoEnrollments \in ShardCounters
  BY DEF NoEnrollments, ShardCounters
<1>2. Tickets(NoEnrollments) = {}
  BY DEF NoEnrollments, Tickets
<1> QED BY <1>1, <1>2, FS_EmptySet DEF MergeCounterShards

=============================================================================
