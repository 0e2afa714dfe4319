---------------------------- MODULE MemoryStore ----------------------------
(***************************************************************************)
(* InMemoryStore: the queue store of the local server.  Every operation    *)
(* takes the one mutex for its whole body, so every operation is one       *)
(* action.  Its hash maps are functions whose domain grows by insertion.   *)
(*                                                                         *)
(* An operation that returns an error changes nothing and is a disabled    *)
(* action here.  The captcha check is left out: it only turns away an      *)
(* enroll that carries no captcha token.                                   *)
(***************************************************************************)
EXTENDS QueueKernel

CONSTANTS
    Events,         \* event ids
    RequestIds,     \* the ids that name visitors
    Throughputs,    \* the values of throughput_per_minute operators choose
    VisitorTtl,     \* visitor_record_ttl_hours, in ticks of the clock
    ForeignPolls,   \* whether a client may poll its request under another event
    MaxClock,       \* bound on the clock
    MaxServing      \* bound: the reaper stops once serving has got this far

ASSUME ThroughputsAssumption == Throughputs \subseteq Nat
ASSUME ClockAssumption == VisitorTtl \in Nat /\ MaxClock \in Nat /\ MaxServing \in Nat
ASSUME ForeignPollsAssumption == ForeignPolls \in BOOLEAN

VARIABLES
    events,         \* event id -> its configuration
    visitors,       \* request id -> its record; the map is shared by all events
    sessionIndex,   \* <<event, session>> -> request id
    shardCounters,  \* per event, the enrollments on each shard
    servingCounter, \* per event, the last position called
    clock           \* Utc::now()

vars == <<events, visitors, sessionIndex, shardCounters, servingCounter, clock>>

EventConfig == [paused : BOOLEAN, emergencyOpen : BOOLEAN, throughput : Throughputs]

\* The admit token is the set of events it was signed for: none or one.
Visitor == [event : Events, session : Sessions, position : Nat,
            status : {"waiting", "admitted", "expired"},
            enrolledAt : Nat, admitToken : SUBSET Events]

Insert(map, key, value) ==
    [k \in DOMAIN map \cup {key} |-> IF k = key THEN value ELSE map[k]]

Max2(m, n) == IF m > n THEN m ELSE n

VisitorsOf(e) == {r \in DOMAIN visitors : visitors[r].event = e}

QueueDepth(e) == MergeCounterShards(shardCounters[e])

-----------------------------------------------------------------------------

Init ==
    /\ events = [e \in {} |-> e]
    /\ visitors = [r \in {} |-> r]
    /\ sessionIndex = [k \in {} |-> k]
    /\ shardCounters = [e \in Events |-> NoEnrollments]
    /\ servingCounter = [e \in Events |-> 0]
    /\ clock = 0

\* Faulty variant: writing the configuration starts the counters afresh.
EnsureEventResetting(e, config) ==
    /\ events' = Insert(events, e, config)
    /\ shardCounters' = [shardCounters EXCEPT ![e] = NoEnrollments]
    /\ UNCHANGED <<visitors, sessionIndex, servingCounter, clock>>

\* Writes an event's configuration; its counters survive.
EnsureEvent(e, config) ==
    /\ events' = Insert(events, e, config)
    /\ UNCHANGED <<visitors, sessionIndex, shardCounters, servingCounter, clock>>

Accepts(config) == config.emergencyOpen \/ ~config.paused

NewVisitor(e, s, position) ==
    [event |-> e, session |-> s, position |-> position, status |-> "waiting",
     enrolledAt |-> clock, admitToken |-> {}]

\* Faulty variant: the position is read before the shard is counted.
EnrollCountingLate(e, s, r) ==
    /\ e \in DOMAIN events
    /\ Accepts(events[e])
    /\ r \notin DOMAIN visitors
    /\ shardCounters' = [shardCounters EXCEPT ![e] = CountOne(@, ShardOf[s])]
    /\ visitors' = Insert(visitors, r, NewVisitor(e, s, MergeCounterShards(shardCounters[e])))
    /\ sessionIndex' = Insert(sessionIndex, <<e, s>>, r)
    /\ UNCHANGED <<events, servingCounter, clock>>

\* Faulty variant: the record is filed under the session, not the request.
EnrollUnderSession(e, s, r) ==
    /\ e \in DOMAIN events
    /\ Accepts(events[e])
    /\ r \notin DOMAIN visitors
    /\ shardCounters' = [shardCounters EXCEPT ![e] = CountOne(@, ShardOf[s])]
    /\ visitors' = Insert(visitors, s, NewVisitor(e, s, MergeCounterShards(shardCounters'[e])))
    /\ sessionIndex' = Insert(sessionIndex, <<e, s>>, r)
    /\ UNCHANGED <<events, servingCounter, clock>>

\* A session the index knows gets its visitor back and nothing changes;
\* otherwise it takes the next position.  A request id is fresh: the store
\* draws a UUID unless the caller has drawn one.
EnrollUnindexed(e, s, r) ==
    /\ e \in DOMAIN events
    /\ Accepts(events[e])
    /\ r \notin DOMAIN visitors
    /\ shardCounters' = [shardCounters EXCEPT ![e] = CountOne(@, ShardOf[s])]
    /\ visitors' = Insert(visitors, r, NewVisitor(e, s, MergeCounterShards(shardCounters'[e])))
    /\ sessionIndex' = Insert(sessionIndex, <<e, s>>, r)
    /\ UNCHANGED <<events, servingCounter, clock>>

Enroll(e, s, r) ==
    /\ <<e, s>> \notin DOMAIN sessionIndex
    /\ EnrollUnindexed(e, s, r)

\* Faulty variant: the next position is let in before it is called.
ShouldAdmitNext(e, r) ==
    \/ events[e].emergencyOpen
    \/ visitors[r].position <= servingCounter[e] + 1

\* The admission decision.  The visitor is found by request id alone, and what
\* its status is plays no part.
ShouldAdmit(e, r) ==
    \/ events[e].emergencyOpen
    \/ visitors[r].position <= servingCounter[e]

\* Faulty variant: the serving counter is left behind an early admission.
MaybeAdmitOnly(e, r) ==
    /\ e \in DOMAIN events
    /\ r \in DOMAIN visitors
    /\ visitors[r].event = e \/ ForeignPolls
    /\ ShouldAdmit(e, r)
    /\ visitors[r].admitToken = {}
    /\ visitors' = [visitors EXCEPT ![r].admitToken = {e}, ![r].status = "admitted"]
    /\ UNCHANGED <<events, sessionIndex, shardCounters, servingCounter, clock>>

\* status and admit: a poll that finds its visitor due signs the token, once,
\* and pulls the serving counter up to the visitor's position.
MaybeAdmit(e, r) ==
    /\ e \in DOMAIN events
    /\ r \in DOMAIN visitors
    /\ visitors[r].event = e \/ ForeignPolls
    /\ ShouldAdmit(e, r)
    /\ visitors[r].admitToken = {}
    /\ visitors' = [visitors EXCEPT ![r].admitToken = {e}, ![r].status = "admitted"]
    /\ servingCounter' = [servingCounter EXCEPT ![e] = Max2(@, visitors[r].position)]
    /\ UNCHANGED <<events, sessionIndex, shardCounters, clock>>

\* Faulty variant: admitted visitors expire too.
OverdueAny(e) == {r \in VisitorsOf(e) : clock - visitors[r].enrolledAt > VisitorTtl}

Overdue(e) ==
    {r \in VisitorsOf(e) : /\ visitors[r].status = "waiting"
                           /\ clock - visitors[r].enrolledAt > VisitorTtl}

\* The overdue visitors whose place has been called, or is the next one.
Abandoned(e) == {r \in Overdue(e) : visitors[r].position <= servingCounter[e] + 1}

\* reaper_tick: expires the overdue visitors and calls the next places.
ReaperTick(e) ==
    /\ e \in DOMAIN events
    /\ servingCounter[e] < MaxServing
    /\ visitors' = [r \in DOMAIN visitors |->
                        IF r \in Overdue(e) THEN [visitors[r] EXCEPT !.status = "expired"]
                                            ELSE visitors[r]]
    /\ servingCounter' = [servingCounter EXCEPT
                            ![e] = @ + Max2(events[e].throughput, 1) + Cardinality(Abandoned(e))]
    /\ UNCHANGED <<events, sessionIndex, shardCounters, clock>>

Tick ==
    /\ clock < MaxClock
    /\ clock' = clock + 1
    /\ UNCHANGED <<events, visitors, sessionIndex, shardCounters, servingCounter>>

Next ==
    \/ \E e \in Events :
        \/ \E config \in EventConfig : EnsureEvent(e, config)
        \/ \E s \in Sessions, r \in RequestIds : Enroll(e, s, r)
        \/ \E r \in RequestIds : MaybeAdmit(e, r)
        \/ ReaperTick(e)
    \/ Tick

Spec == Init /\ [][Next]_vars

-----------------------------------------------------------------------------

\* What event_stats counts among an event's visitors.
CountWithStatus(e, status) == Cardinality({r \in VisitorsOf(e) : visitors[r].status = status})

\* Every map holds what its declaration in MemInner says.
TypeOK ==
    /\ DOMAIN events \subseteq Events
    /\ \A e \in DOMAIN events : events[e] \in EventConfig
    /\ DOMAIN visitors \subseteq RequestIds
    /\ \A r \in DOMAIN visitors : visitors[r] \in Visitor
    /\ DOMAIN sessionIndex \subseteq Events \X Sessions
    /\ \A k \in DOMAIN sessionIndex : sessionIndex[k] \in RequestIds
    /\ shardCounters \in [Events -> ShardCounters]
    /\ servingCounter \in [Events -> Nat]
    /\ clock \in Nat

\* The session index and the visitor map describe the same enrollments: a
\* session has one visitor per event, and every visitor can be found again by
\* its session.
OneVisitorPerSession ==
    /\ \A k \in DOMAIN sessionIndex :
        /\ sessionIndex[k] \in DOMAIN visitors
        /\ k = <<visitors[sessionIndex[k]].event, visitors[sessionIndex[k]].session>>
    /\ \A r \in DOMAIN visitors :
        /\ <<visitors[r].event, visitors[r].session>> \in DOMAIN sessionIndex
        /\ sessionIndex[<<visitors[r].event, visitors[r].session>>] = r

\* The line of an event is dense: its visitors stand at 1 .. N, one each, where
\* N is the sum of its shard counters.
PositionsDense ==
    \A e \in Events :
        /\ {visitors[r].position : r \in VisitorsOf(e)} = 1 .. QueueDepth(e)
        /\ \A q, r \in VisitorsOf(e) : visitors[q].position = visitors[r].position => q = r

\* A visitor that holds a token stands no further back than its own event has
\* called, whether it was called or the floodgates let it in.
AdmittedInTurn ==
    \A r \in DOMAIN visitors :
        visitors[r].status = "admitted" => visitors[r].position <= servingCounter[visitors[r].event]

\* No event has let in more visitors than the places it has called.
AdmittedWithinServing ==
    \A e \in Events : CountWithStatus(e, "admitted") <= servingCounter[e]

\* event_stats accounts for every place in line: waiting, admitted, expired.
StatsAddUp ==
    \A e \in Events :
        CountWithStatus(e, "waiting") + CountWithStatus(e, "admitted") + CountWithStatus(e, "expired")
            = QueueDepth(e)

\* Enrolling again, expiring or reconfiguring never costs a session its place.
PlaceKept ==
    [][\A k \in DOMAIN sessionIndex :
        /\ k \in DOMAIN sessionIndex'
        /\ sessionIndex'[k] = sessionIndex[k]
        /\ visitors'[sessionIndex[k]].position = visitors[sessionIndex[k]].position]_vars

\* Once let in, a visitor stays let in, with the token it was given first.
AdmissionKept ==
    [][\A r \in DOMAIN visitors :
        visitors[r].admitToken # {} =>
            /\ visitors'[r].admitToken = visitors[r].admitToken
            /\ visitors'[r].status = "admitted"]_vars

\* The fair queue that this store keeps for one event.
VisitorOf(e, s) == visitors[sessionIndex[<<e, s>>]]

LineOf(e) == INSTANCE FairQueue WITH
    Visitors <- Sessions,
    position <- [s \in Sessions |-> IF <<e, s>> \in DOMAIN sessionIndex
                                    THEN VisitorOf(e, s).position ELSE 0],
    admitted <- {s \in Sessions : /\ <<e, s>> \in DOMAIN sessionIndex
                                  /\ VisitorOf(e, s).admitToken # {}},
    serving <- servingCounter[e],
    floodgates <- e \in DOMAIN events /\ events[e].emergencyOpen

\* Every event's line behaves as the fair queue that the waiting room promises.
ImplementsFairQueue ==
    /\ \A e \in Events : LineOf(e)!Init
    /\ [][\A e \in Events : [LineOf(e)!Next]_(LineOf(e)!vars)]_vars

=============================================================================
