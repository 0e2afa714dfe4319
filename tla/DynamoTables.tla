---------------------------- MODULE DynamoTables ----------------------------
(***************************************************************************)
(* The DynamoDB tables behind DynamoDbStore, as the store uses them: the   *)
(* item of one event, its counters and its visitors.  Every table is keyed *)
(* by the event, so events do not interact and one is enough.              *)
(*                                                                         *)
(* A write, and an ADD, is atomic.  A read is eventually consistent unless *)
(* the code asks for consistency: it may return the item as it is or as a  *)
(* lagging replica (or the bySession index, which lags the same way) still *)
(* has it.  The lag variables are those older copies.                      *)
(***************************************************************************)
EXTENDS QueueKernel

CONSTANTS
    RequestIds,     \* the ids that name visitors
    Throughputs,    \* the values of throughput_per_minute operators choose
    NoSession,      \* the session of a record that carries none
    Faults          \* what goes wrong in this instance

\* staleEvent    eventually consistent reads of the event return an old item
\* staleServing  ... of the serving counter
\* staleVisitors ... of a visitor, and the bySession index
\* indexFails    the query of the bySession index fails, and the query of the
\*               event's items that follows it returns one page of them
\* partialBatch  BatchGetItem leaves keys unprocessed
\* addRepeated   the SDK repeats an ADD whose answer was lost
\* putError      a PUT reports an error, having been applied or not
\* bumpLost      the ADD after an early admission reports an error
\* crash         a handler dies between two calls
\* ttl           TTL deletes visitors
AllFaults == {"staleEvent", "staleServing", "staleVisitors", "indexFails", "partialBatch",
              "addRepeated", "putError", "bumpLost", "crash", "ttl"}

ASSUME ThroughputsAssumption == Throughputs \subseteq Nat
ASSUME FaultsAssumption == Faults \subseteq AllFaults
ASSUME NoSessionAssumption == NoSession \notin Sessions

VARIABLES
    event,          \* Events item
    eventLag,
    serving,        \* Counters item "serving"
    servingLag,
    shards,         \* Counters items "queue#shard0", ...: always read consistently
    visitors,       \* Visitors table: request id -> item
    visitorsLag

tables == <<event, eventLag, serving, servingLag, shards, visitors, visitorsLag>>

EventItem == [paused : BOOLEAN, emergencyOpen : BOOLEAN, throughput : Throughputs]

\* admitted stands for the two attributes that are only ever set together:
\* status "admitted" and the admit token.
VisitorItem == [session : Sessions \cup {NoSession}, position : Nat, admitted : BOOLEAN]

Insert(map, key, value) ==
    [k \in DOMAIN map \cup {key} |-> IF k = key THEN value ELSE map[k]]

Remove(map, key) == [k \in DOMAIN map \ {key} |-> map[k]]

\* What an eventually consistent read of an item or a table may return.
Views(staleness, current, lag) == IF staleness \in Faults THEN {current, lag} ELSE {current}

\* The event exists before anybody enrolls, open and closed to nobody.
TablesInit ==
    /\ \E n \in Throughputs : event = [paused |-> FALSE, emergencyOpen |-> FALSE, throughput |-> n]
    /\ eventLag = event
    /\ serving = 0
    /\ servingLag = 0
    /\ shards = NoEnrollments
    /\ visitors = [r \in {} |-> r]
    /\ visitorsLag = visitors

\* A replica catches up with one item.
ReplicateEvent ==
    /\ "staleEvent" \in Faults
    /\ eventLag' = event
    /\ UNCHANGED <<event, serving, servingLag, shards, visitors, visitorsLag>>

ReplicateServing ==
    /\ "staleServing" \in Faults
    /\ servingLag' = serving
    /\ UNCHANGED <<event, eventLag, serving, shards, visitors, visitorsLag>>

ReplicateVisitor(r) ==
    /\ "staleVisitors" \in Faults
    /\ visitorsLag' = IF r \in DOMAIN visitors THEN Insert(visitorsLag, r, visitors[r])
                                               ELSE Remove(visitorsLag, r)
    /\ UNCHANGED <<event, eventLag, serving, servingLag, shards, visitors>>

\* TTL removes a visitor's item, whatever its state.
ExpireVisitor(r) ==
    /\ "ttl" \in Faults
    /\ r \in DOMAIN visitors
    /\ visitors' = Remove(visitors, r)
    /\ UNCHANGED <<event, eventLag, serving, servingLag, shards, visitorsLag>>

TablesTypeOK ==
    /\ event \in EventItem /\ eventLag \in EventItem
    /\ serving \in Nat /\ servingLag \in Nat
    /\ shards \in ShardCounters
    /\ DOMAIN visitors \subseteq RequestIds /\ DOMAIN visitorsLag \subseteq RequestIds
    /\ \A r \in DOMAIN visitors : visitors[r] \in VisitorItem
    /\ \A r \in DOMAIN visitorsLag : visitorsLag[r] \in VisitorItem

=============================================================================
