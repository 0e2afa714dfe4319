---------------------------- MODULE DynamoEnroll ----------------------------
(***************************************************************************)
(* DynamoDbStore::enroll, from its first read to its last write.  A call   *)
(* is one execution of it: a synchronous request, or the enroll worker     *)
(* handling one delivery of a message.  Two deliveries of one message, and *)
(* a client that asks again, are two calls.  Between any two of its        *)
(* requests to DynamoDB a call may be overtaken by every other call.       *)
(*                                                                         *)
(* The captcha check, and the one that the event exists, turn away calls   *)
(* that never get further, and are left out here: see EnrollBuffer.        *)
(***************************************************************************)
EXTENDS DynamoTables

CONSTANTS
    Calls,          \* executions of enroll
    SessionOf,      \* the session a call enrolls
    RequestOf,      \* the request id it carries, or draws as a UUID
    MaxAttempts     \* MAX_ATTEMPTS of the PUT loop

ASSUME CallsAssumption ==
    /\ SessionOf \in [Calls -> Sessions]
    /\ RequestOf \in [Calls -> RequestIds]
    /\ MaxAttempts \in Nat \ {0}

\* Only the deliveries of one message share a request id, and a message
\* carries its session.
ASSUME MessagesAssumption ==
    \A c, d \in Calls : RequestOf[c] = RequestOf[d] => SessionOf[c] = SessionOf[d]

VARIABLES
    pc,         \* the request to DynamoDB that a call makes next, or how it ended
    unread,     \* the shards a call has still to read
    seen,       \* the shard counters it has read, 0 where it has not
    attempt,    \* rounds of its PUT loop
    answer,     \* the request id it returned, if it did
    base,       \* history: the shard counters just after the call's own ADD
    ahead       \* history: the calls that had answered or failed when it began

calls == <<pc, unread, seen, attempt, answer, base, ahead>>
enrollVars == <<tables, calls>>

Ended == {"new", "existing", "rejected", "failed"}
\* The call's ADD is done and its answer received.
Counted(c) == base[c] # NoEnrollments

\* Faulty variant: positions count from 0.
PositionFromZero(c) == MergeCounterShards(seen[c]) - 1

\* Faulty variant: a call counts itself once more.
PositionBehind(c) == MergeCounterShards(seen[c]) + 1

PositionOf(c) == MergeCounterShards(seen[c])    \* the position the call computed
RankOf(c) == MergeCounterShards(base[c])        \* its turn among all ADDs

CallsInit ==
    /\ pc = [c \in Calls |-> "start"]
    /\ unread = [c \in Calls |-> {}]
    /\ seen = [c \in Calls |-> NoEnrollments]
    /\ attempt = [c \in Calls |-> 0]
    /\ answer = [c \in Calls |-> {}]
    /\ base = [c \in Calls |-> NoEnrollments]
    /\ ahead = [c \in Calls |-> {}]

EnrollInit == TablesInit /\ CallsInit

-----------------------------------------------------------------------------

\* get_event: a paused queue turns the call away unless it is open to all.
Begin(c) ==
    /\ pc[c] = "start"
    /\ \E e \in Views("staleEvent", event, eventLag) :
        pc' = [pc EXCEPT ![c] = IF e.paused /\ ~e.emergencyOpen THEN "rejected" ELSE "lookup"]
    /\ ahead' = [ahead EXCEPT ![c] = {d \in Calls : pc[d] \in Ended \ {"rejected"}}]
    /\ UNCHANGED <<tables, unread, seen, attempt, answer, base>>

\* What the lookup gets to see: all visitors through the index, or, when that query
\* fails, the first page of the event's items, which need not hold everybody.
Pages == IF "indexFails" \in Faults THEN SUBSET RequestIds ELSE {RequestIds}

FoundIn(view, c) == {r \in DOMAIN view : view[r].session = SessionOf[c]}

\* Faulty variant: the session is not looked up.
LookupNothing(c) ==
    /\ pc[c] = "lookup"
    /\ pc' = [pc EXCEPT ![c] = "count"]
    /\ UNCHANGED <<tables, unread, seen, attempt, answer, base, ahead>>

\* The idempotent lookup: any one visitor of the session among those it sees.
Lookup(c) ==
    /\ pc[c] = "lookup"
    /\ \E view \in Views("staleVisitors", visitors, visitorsLag), page \in Pages :
        \/ \E r \in FoundIn(view, c) \cap page :
            /\ pc' = [pc EXCEPT ![c] = "existing"]
            /\ answer' = [answer EXCEPT ![c] = {r}]
        \/ /\ FoundIn(view, c) \cap page = {}
           /\ pc' = [pc EXCEPT ![c] = "count"]
           /\ UNCHANGED answer
    /\ UNCHANGED <<tables, unread, seen, attempt, base, ahead>>

AddToShard(c) ==
    /\ shards' = CountOne(shards, ShardOf[SessionOf[c]])
    /\ UNCHANGED <<event, eventLag, serving, servingLag, visitors, visitorsLag>>

\* ADD 1 to the session's shard.
Count(c) ==
    /\ pc[c] \in {"count", "recount"}
    /\ AddToShard(c)
    /\ pc' = [pc EXCEPT ![c] = "sum"]
    /\ unread' = [unread EXCEPT ![c] = Shards]
    /\ base' = [base EXCEPT ![c] = shards']
    /\ UNCHANGED <<seen, attempt, answer, ahead>>

\* The ADD is applied but its answer is lost, and the SDK sends it again: once
\* here, which is the bound, though the SDK would make three attempts.
CountUnanswered(c) ==
    /\ "addRepeated" \in Faults
    /\ pc[c] = "count"
    /\ AddToShard(c)
    /\ pc' = [pc EXCEPT ![c] = "recount"]
    /\ UNCHANGED <<unread, seen, attempt, answer, base, ahead>>

AfterReading(c, s) == IF unread[c] = {s} THEN "put" ELSE "sum"

\* Faulty variant: the sum stops at the first shard it reads.
ReadOneShard(c, s) ==
    /\ pc[c] = "sum"
    /\ s \in unread[c]
    /\ seen' = [seen EXCEPT ![c][s] = shards[s]]
    /\ unread' = [unread EXCEPT ![c] = {}]
    /\ pc' = [pc EXCEPT ![c] = "put"]
    /\ UNCHANGED <<tables, attempt, answer, base, ahead>>

\* BatchGetItem reads each counter consistently, but not all at one moment.
ReadShard(c, s) ==
    /\ pc[c] = "sum"
    /\ s \in unread[c]
    /\ seen' = [seen EXCEPT ![c][s] = shards[s]]
    /\ unread' = [unread EXCEPT ![c] = @ \ {s}]
    /\ pc' = [pc EXCEPT ![c] = AfterReading(c, s)]
    /\ UNCHANGED <<tables, attempt, answer, base, ahead>>

\* A key among UnprocessedKeys: nobody asks for it again and it counts as 0.
SkipShard(c, s) ==
    /\ "partialBatch" \in Faults
    /\ pc[c] = "sum"
    /\ s \in unread[c]
    /\ unread' = [unread EXCEPT ![c] = @ \ {s}]
    /\ pc' = [pc EXCEPT ![c] = AfterReading(c, s)]
    /\ UNCHANGED <<tables, seen, attempt, answer, base, ahead>>

\* Faulty variant: the item is filed under the session, not the request.
WriteVisitorBySession(c) ==
    /\ visitors' = Insert(visitors, SessionOf[c],
                        [session |-> SessionOf[c], position |-> PositionOf(c), admitted |-> FALSE])
    /\ UNCHANGED <<event, eventLag, serving, servingLag, shards, visitorsLag>>

WriteVisitor(c) ==
    /\ visitors' = Insert(visitors, RequestOf[c],
                        [session |-> SessionOf[c], position |-> PositionOf(c), admitted |-> FALSE])
    /\ UNCHANGED <<event, eventLag, serving, servingLag, shards, visitorsLag>>

\* An unconditional PUT of a waiting visitor: it replaces what was there.
Put(c) ==
    /\ pc[c] = "put"
    /\ WriteVisitor(c)
    /\ pc' = [pc EXCEPT ![c] = "new"]
    /\ answer' = [answer EXCEPT ![c] = {RequestOf[c]}]
    /\ UNCHANGED <<unread, seen, attempt, base, ahead>>

\* The PUT reports an error, whether it was applied or not.  The loop starts
\* over, summing again, until its attempts are used up.
PutError(c) ==
    /\ "putError" \in Faults
    /\ pc[c] = "put"
    /\ WriteVisitor(c) \/ UNCHANGED tables
    /\ attempt' = [attempt EXCEPT ![c] = @ + 1]
    /\ IF attempt[c] + 1 < MaxAttempts
        THEN /\ pc' = [pc EXCEPT ![c] = "sum"]
             /\ unread' = [unread EXCEPT ![c] = Shards]
             /\ seen' = [seen EXCEPT ![c] = NoEnrollments]
        ELSE /\ pc' = [pc EXCEPT ![c] = "failed"]
             /\ seen' = [seen EXCEPT ![c] = NoEnrollments]
             /\ UNCHANGED unread
    /\ UNCHANGED <<answer, base, ahead>>

\* A request other than the PUT fails, or the handler dies: the call ends with
\* what it has written so far.
Abort(c) ==
    /\ "crash" \in Faults
    /\ pc[c] \notin Ended
    /\ pc' = [pc EXCEPT ![c] = "failed"]
    /\ unread' = [unread EXCEPT ![c] = {}]
    /\ seen' = [seen EXCEPT ![c] = NoEnrollments]
    /\ UNCHANGED <<tables, attempt, answer, base, ahead>>

EnrollStep(c) ==
    \/ Begin(c)
    \/ Lookup(c)
    \/ Count(c)
    \/ CountUnanswered(c)
    \/ \E s \in Shards : ReadShard(c, s) \/ SkipShard(c, s)
    \/ Put(c)
    \/ PutError(c)
    \/ Abort(c)

\* Everything else that happens to the tables an enroll reads and writes.
Around ==
    /\ \/ ReplicateEvent
       \/ ReplicateServing
       \/ \E r \in RequestIds : ReplicateVisitor(r) \/ ExpireVisitor(r)
    /\ UNCHANGED calls

EnrollNext ==
    \/ \E c \in Calls : EnrollStep(c)
    \/ Around

EnrollSpec == EnrollInit /\ [][EnrollNext]_enrollVars

-----------------------------------------------------------------------------

CallsTypeOK ==
    /\ pc \in [Calls -> {"start", "lookup", "count", "recount", "sum", "put"} \cup Ended]
    /\ unread \in [Calls -> SUBSET Shards]
    /\ seen \in [Calls -> ShardCounters]
    /\ attempt \in [Calls -> Nat]
    /\ answer \in [Calls -> SUBSET RequestIds]
    /\ base \in [Calls -> ShardCounters]
    /\ ahead \in [Calls -> SUBSET Calls]

\* Tables and calls hold values of their types: in particular positions are
\* numbers however the reads and the retries interleave.
EnrollTypeOK == TablesTypeOK /\ CallsTypeOK

\* However its reads interleave with other calls' ADDs, a call computes a
\* position that is not before its turn: nobody jumps the line by racing.
PositionNotBeforeRank ==
    \A c \in Calls : pc[c] \in {"put", "new"} => RankOf(c) <= PositionOf(c)

\* Nobody is put behind the end of the line, where the reaper might never get:
\* every place on record is one that the ADDs so far account for, however many
\* shards a batch left out and however often an ADD or a PUT was repeated.
PlacesWithinLine ==
    \A r \in DOMAIN visitors : visitors[r].position <= MergeCounterShards(shards)

\* First come, first served: who asks after another visitor was given its
\* position gets a later one.
NoOvertaking ==
    \A c, d \in Calls :
        pc[d] \in {"put", "new"} /\ c \in ahead[d] /\ pc[c] = "new"
            => PositionOf(c) < PositionOf(d)

\* No two calls of a session, but for the deliveries of one message, were under
\* way at the same time.
TakesTurns(s) ==
    \A c, d \in Calls :
        /\ SessionOf[c] = s /\ SessionOf[d] = s /\ RequestOf[c] # RequestOf[d]
        /\ {pc[c], pc[d]} \cap {"start", "rejected"} = {}
        => c \in ahead[d] \/ d \in ahead[c]

\* A session that asks again, after an answer or after a call that failed half
\* way, is given the same visitor every time.  It takes an index that answers and
\* is current: with indexFails or staleVisitors the lookup may miss it.
SameVisitorAgain ==
    \A c, d \in Calls :
        /\ SessionOf[c] = SessionOf[d] /\ TakesTurns(SessionOf[c])
        /\ {pc[c], pc[d]} \subseteq {"new", "existing"}
        => answer[c] = answer[d]

\* A session has one visitor.
OneVisitorPerSession ==
    \A q, r \in DOMAIN visitors : visitors[q].session = visitors[r].session => q = r

=============================================================================
