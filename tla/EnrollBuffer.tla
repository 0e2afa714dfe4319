---------------------------- MODULE EnrollBuffer ----------------------------
(***************************************************************************)
(* The enroll buffer: handle_enroll puts an accepted enroll on an SQS      *)
(* queue, and enroll workers carry out batches of them against the store.  *)
(*                                                                         *)
(* SQS delivers a message at least once: it hands it out again until a     *)
(* worker has come through with the whole batch, and sometimes afterwards. *)
(* The store's enroll is three steps here: up to its lookup, its ADD, and   *)
(* its PUT of a position between its own turn and the end of the line.     *)
(* How the position is summed up is the subject of DynamoEnroll.           *)
(***************************************************************************)
EXTENDS Naturals, FiniteSets

CONSTANTS
    Ids,            \* the UUIDs that handlers draw
    Workers,        \* concurrent executions of the enroll worker
    BatchSize,      \* batchSize of the worker's event source
    Faults,         \* what goes wrong in this instance
    MaxFailures     \* bound: how often something goes wrong

\* duplicate     SQS delivers a message that is in flight or was deleted
\* dies          a worker, or a handler, dies or fails half way
\* unfit         a record that the store always refuses: it lacks a captcha that
\*               its event asks for, or its event does not exist
\* staleIndex    a lookup misses a visitor
\* addRepeated   the SDK repeats an ADD whose answer was lost
\* putError      a PUT was applied and reports an error
\* pause         the operator pauses and reopens the queue
\* floodgates    ... opens the floodgates and closes them
\* answerLost    the answer to an enroll does not reach the page
\* reload        a visitor reloads the page
\* pollError     a poll fails
\* challengeFails  the captcha, or the service that verifies it, fails
\* tokenExpires  a token expires before it is used
AllFaults == {"duplicate", "dies", "unfit", "staleIndex", "addRepeated", "putError", "pause",
              "floodgates", "answerLost", "reload", "pollError", "challengeFails", "tokenExpires"}

ASSUME BufferAssumption ==
    /\ Faults \subseteq AllFaults
    /\ BatchSize \in Nat \ {0}
    /\ MaxFailures \in Nat
    /\ Workers \cap Ids = {}

VARIABLES
    event,      \* what the operator has set: "running", "paused" or "open"
    depth,      \* the sum of the event's shard counters
    visitors,   \* request id -> item
    serving,    \* the serving counter
    drawn,      \* the UUIDs in use
    buffer,     \* the messages on the queue, in flight or not
    sent,       \* history: every message that was ever put there
    batch,      \* what each worker has received, and what it has yet to enroll
    call,       \* the enroll that a worker, or the handler that drew a request id, is in
    tickets,    \* history: request id -> the turns that calls for it drew
    failures    \* how often something has gone wrong

storeVars == <<depth, visitors, serving, tickets>>
bufferVars == <<event, storeVars, drawn, buffer, sent, batch, call, failures>>

\* Handlers draw a request id, and a session id for those who have none: the
\* session is named by the request id it was drawn with.  fit: the event exists
\* and asks for no captcha that the record lacks.
Message == [request : Ids, session : Ids, fit : BOOLEAN]
Item == [session : Ids, position : Nat, admitted : BOOLEAN]
Batch == [taken : SUBSET Message, left : SUBSET Message]
NoBatch == [taken |-> {}, left |-> {}]

\* An enroll that missed its session has its ADD, and then its PUT, before it.
Call == [step : {"count", "put"}, message : Message, ticket : Nat]
NoCall == [step |-> "idle"]
Callers == Workers \cup Ids

BufferInit ==
    /\ event = "running"
    /\ depth = 0
    /\ visitors = [r \in {} |-> r]
    /\ serving = 0
    /\ drawn = {}
    /\ buffer = {}
    /\ sent = {}
    /\ batch = [w \in Workers |-> NoBatch]
    /\ call = [c \in Callers |-> NoCall]
    /\ tickets = [r \in Ids |-> {}]
    /\ failures = 0

Fails(fault) ==
    /\ fault \in Faults
    /\ failures < MaxFailures
    /\ failures' = failures + 1

-----------------------------------------------------------------------------

Running == event # "paused"

\* The checks at the head of DynamoDbStore::enroll.
Accepts(m) == Running /\ m.fit

\* The request ids a session is enrolled under.
Filed(s) == {r \in DOMAIN visitors : visitors[r].session = s}

Insert(map, key, value) ==
    [k \in DOMAIN map \cup {key} |-> IF k = key THEN value ELSE map[k]]

\* The lookup finds no visitor of the session: there is none, or the index lags.
LookupMisses(c, m) ==
    /\ Accepts(m)
    /\ IF Filed(m.session) = {} THEN UNCHANGED failures ELSE Fails("staleIndex")
    /\ call' = [call EXCEPT ![c] = [step |-> "count", message |-> m, ticket |-> 0]]

\* ADD 1 to a shard.
Count(c) ==
    /\ call[c].step = "count"
    /\ depth' = depth + 1
    /\ call' = [call EXCEPT ![c] = [@ EXCEPT !.step = "put", !.ticket = depth + 1]]
    /\ tickets' = [tickets EXCEPT ![call[c].message.request] = @ \cup {depth + 1}]
    /\ UNCHANGED <<event, visitors, serving, drawn, buffer, sent, batch, failures>>

\* The ADD is applied, its answer is lost, and the SDK will send it again.
CountUnanswered(c) ==
    /\ Fails("addRepeated")
    /\ call[c].step = "count"
    /\ depth' = depth + 1
    /\ UNCHANGED <<event, visitors, serving, tickets, drawn, buffer, sent, batch, call>>

\* The positions a call may have summed up.
Places(c) == call[c].ticket .. depth

\* An unconditional PUT of a waiting visitor: it replaces what was there.
WriteVisitor(c) ==
    LET m == call[c].message
    IN  \E n \in Places(c) : visitors' = Insert(visitors, m.request,
                                [session |-> m.session, position |-> n, admitted |-> FALSE])

\* The enroll ends; a worker is done with the record.
Put(c) ==
    /\ call[c].step = "put"
    /\ WriteVisitor(c)
    /\ call' = [call EXCEPT ![c] = NoCall]
    /\ batch' = [w \in Workers |-> IF w = c THEN [batch[w] EXCEPT !.left = @ \ {call[c].message}]
                                            ELSE batch[w]]
    /\ UNCHANGED <<event, depth, serving, tickets, drawn, buffer, sent, failures>>

\* The PUT is applied but reports an error: it will be tried again.
PutError(c) ==
    /\ Fails("putError")
    /\ call[c].step = "put"
    /\ WriteVisitor(c)
    /\ UNCHANGED <<event, depth, serving, tickets, drawn, buffer, sent, batch, call>>

\* handle_enroll with a buffer: whatever the event's state, a message with both
\* ids is sent, and the ids go back with a 202.
Buffer(m) ==
    /\ drawn' = drawn \cup {m.request}
    /\ buffer' = buffer \cup {m}
    /\ sent' = sent \cup {m}
    /\ UNCHANGED <<event, storeVars, batch, call>>

InFlight == UNION {batch[w].taken : w \in Workers}

\* A worker is handed a batch of messages that no other worker holds.
Receive(w) ==
    /\ batch[w] = NoBatch
    /\ \E ms \in SUBSET (buffer \ InFlight) :
        /\ Cardinality(ms) \in 1 .. BatchSize
        /\ batch' = [batch EXCEPT ![w] = [taken |-> ms, left |-> ms]]
    /\ UNCHANGED <<event, storeVars, drawn, buffer, sent, call, failures>>

\* SQS delivers a message once more.
ReceiveAgain(w) ==
    /\ Fails("duplicate")
    /\ batch[w] = NoBatch
    /\ \E m \in sent : batch' = [batch EXCEPT ![w] = [taken |-> {m}, left |-> {m}]]
    /\ UNCHANGED <<event, storeVars, drawn, buffer, sent, call>>

\* The worker enrolls the records of its batch one by one.  A session that is
\* found keeps the visitor it has, and the record's request id is dropped.
EnrollRecord(w) ==
    /\ call[w] = NoCall
    /\ \E m \in batch[w].left :
        \/ /\ Accepts(m) /\ Filed(m.session) # {}
           /\ batch' = [batch EXCEPT ![w].left = @ \ {m}]
           /\ UNCHANGED <<call, failures>>
        \/ LookupMisses(w, m) /\ UNCHANGED batch
    /\ UNCHANGED <<event, storeVars, drawn, buffer, sent>>

\* The worker is done with its batch, for better or worse.
EndBatch(w) ==
    /\ batch' = [batch EXCEPT ![w] = NoBatch]
    /\ call' = [call EXCEPT ![w] = NoCall]

Refused(w) == call[w] = NoCall /\ \E m \in batch[w].left : ~Accepts(m)

\* Faulty variant: the error is reported and the batch deleted all the same.
RejectAndDelete(w) ==
    /\ Refused(w)
    /\ buffer' = buffer \ batch[w].taken
    /\ EndBatch(w)
    /\ UNCHANGED <<event, storeVars, drawn, sent, failures>>

\* The store refuses a record, because the event is paused or for what the record
\* is: the worker returns the error and the whole batch will be delivered again.
Reject(w) ==
    /\ Refused(w)
    /\ EndBatch(w)
    /\ UNCHANGED <<event, storeVars, drawn, buffer, sent, failures>>

\* A worker dies, times out or meets an error after some of its requests.
WorkerDies(w) ==
    /\ Fails("dies")
    /\ batch[w] # NoBatch
    /\ EndBatch(w)
    /\ UNCHANGED <<event, storeVars, drawn, buffer, sent>>

\* Faulty variant: the batch is deleted as soon as one of its records is in.
AcknowledgeEarly(w) ==
    /\ batch[w].taken # batch[w].left
    /\ buffer' = buffer \ batch[w].taken
    /\ EndBatch(w)
    /\ UNCHANGED <<event, storeVars, drawn, sent, failures>>

\* The worker is through with its batch and SQS deletes it.
Acknowledge(w) ==
    /\ batch[w].taken # {}
    /\ batch[w].left = {}
    /\ buffer' = buffer \ batch[w].taken
    /\ EndBatch(w)
    /\ UNCHANGED <<event, storeVars, drawn, sent, failures>>

WorkerStep(w) ==
    Receive(w) \/ EnrollRecord(w) \/ Count(w) \/ Put(w) \/ Reject(w) \/ Acknowledge(w)

WorkerFault(w) == ReceiveAgain(w) \/ CountUnanswered(w) \/ PutError(w) \/ WorkerDies(w)

\* The operator switches the queue.
Operate ==
    /\ \/ Fails("pause") /\ event' = "paused"
       \/ Fails("floodgates") /\ event' = "open"
       \/ event' = "running" /\ UNCHANGED failures
    /\ event' # event
    /\ UNCHANGED <<storeVars, drawn, buffer, sent, batch, call>>

=============================================================================
