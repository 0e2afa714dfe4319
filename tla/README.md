# Formal specification of the Vazue queue

Vazue Queue is a virtual waiting room: visitors of a website that cannot take
them all at once are put into a fair line and let in at the rate an operator
has set. This directory holds TLA+ modules of its queue, TLC configurations
that check them on small instances, and theorems about them that TLAPS proves
for every value of the constants. Source paths below are relative to the
repository; `crates/` is `packages/core-rust/crates/`.

## 1. The system

### 1.1 Components

| Component | Source | State it keeps | Operations | Here |
|---|---|---|---|---|
| Queue kernel | `crates/queue-kernel/src/counters.rs`, `wait.rs`, `jwt.rs`, `models.rs` | none | `assign_shard`, `merge_counter_shards`, wait estimate, poll interval, sign and verify tokens | `QueueKernel` (counters), `Visits` (tokens) |
| In-memory queue store | `crates/queue-api/src/store.rs` | `MemInner`: events, visitors by request id, session index, shard counters, serving counters, active events; one mutex | `ensure_event`, `enroll`, `status`/`admit` (`maybe_admit`), `reaper_tick`, `event_stats` | `MemoryStore` |
| DynamoDB queue store | `crates/queue-api/src/dynamodb_store.rs` | tables Events, Visitors (index bySession), Counters; TTL on visitors | the same operations, each a chain of requests to DynamoDB with nothing that ties them together | `DynamoTables`, `DynamoEnroll`, `DynamoAdmit`, `DynamoQueue` |
| Lambda runtime | `crates/queue-api/src/lambda_runtime.rs` | the signing key an instance has loaded; the SQS enroll buffer in front of the worker | HTTP handlers (`handle_enroll` answers 201, or 202 and queues a message; status, admit, active event), enroll worker | `EnrollBuffer`, `Visits`; calls and polls of the modules above |
| Serving reaper | `crates/queue-api/src/bin/serving-reaper.rs`, `lambda_runtime.rs:316-351` | what it has listed and not ticked yet | lists the tenant's events, ticks each, warns of failures, exits | `ServingReaper` |
| Admin store | `crates/admin-api/src/store.rs`, `dynamodb_store.rs`, `handlers.rs` | rooms, events, room's active event | rooms and events: create, update, live overrides, one handler each | `RoomAdmin`; what the queue makes of overrides: `DynamoAdmit` |
| Local server | `crates/queue-api/src/bin/local-server.rs` | both in-memory stores in one process | mirrors admin writes into the queue store | `RoomAdmin` |
| Waiting room page | `apps/waiting-room/main.ts` | request and session id in local storage and a cookie, captcha state, a poll timer | find the event to join, enroll, poll, redirect | `WaitingRoom`, `Visits` |
| CloudFront edge | `connectors/cloudfront-lambda-edge/src/handler.ts` | a copy of the signing key and of the default event, baked in when deployed | lets holders of a valid token through, redirects the others | `WaitingRoom`, `Visits` |
| CDK stack | `packages/cdk/lib/data-plane.ts` | deployment | the reaper's schedule (once a minute), the buffer's retention and redelivery, the signing key | deliveries in `EnrollBuffer`, invocations in `ServingReaper`, keys in `Visits`, fairness |
| Admin portal | `apps/admin-portal/app/page.tsx` | the room and the events it listed last, at most five seconds ago | wizard, create event, save room, set active event, override | `RoomAdmin` |
| CLI, SDKs, website, landing pages, scripts | `apps/`, `packages/`, `scripts/` | nothing the queue depends on | forms, clients, documentation, load tests | not modelled |

### 1.2 How they interact

A browser that is not let through by the edge opens the waiting room page,
which enrolls it (`POST .../enroll`) with a session id and then polls
(`GET .../status`). In production an enroll is either carried out by the HTTP
handler, or put on SQS and carried out by the enroll worker, which gets every
message *at least* once. Every poll may let its visitor in (`maybe_admit`):
it compares the visitor's position with the event's serving counter, signs a
token, stores it, and after an early admission advances the serving counter.
Once a minute EventBridge starts the reaper, which adds
`throughput_per_minute` (at least 1) to the serving counter. The operator
writes the event's configuration (`paused`, `emergency_open`,
`throughput_per_minute`) through the admin API at any moment, and the queue
reads it with eventually consistent reads. All of these share state only
through the tables. The operator also says which of a room's events is its
*active* one, where visitors are sent who name no event. In the local server
admin and queue have stores of their own, in one process, and every write of
the admin is repeated in the queue.

### 1.3 What is hard about it

* Enroll is *count, then sum*: it adds 1 to its session's shard, reads all
  shards in one `BatchGetItem`, which is consistent for each key but not
  across keys, and writes the sum as its position. Any number of enrolls may
  stand between these requests, fail there, or be carried out again.
* The lookup that makes enroll idempotent goes through an index that lags and
  is not tied to the write.
* A poll acts on three values read one after the other, each perhaps out of
  date, and on a difference computed from them.
* An `ADD` whose answer is lost is sent again although it counts twice; one
  whose error is thrown away is never sent again.
* Visitors vanish by TTL, and a `SET` that comes after creates an empty one.
* The in-memory store keeps the visitors of all events in one map.
* The enroll buffer answers with ids before anybody has looked whether the
  session has a visitor; a worker carries out a batch record by record and all
  of it is delivered again if one fails.
* The tabs of a browser share the stored ids, each acts on what it read when it
  began, and a page can be reloaded at any moment.
* A portal saves all of the room as it listed it some time ago, and the store
  completes a room it has read in a request before: both lose what was written
  in between. The wizard is two requests, an event in DynamoDB up to three.
* A browser keeps one request id for all events, while links, the room's active
  event (cached for 30 seconds) and the edge's default event send it to
  different ones. A token says which event and request it is for, and the edge
  looks at neither.
* The signing key is loaded once per Lambda instance and baked into the edge; a
  visitor keeps the first token it was given.
* The reaper is a process that exits instead of answering its invocation: Lambda
  may start it again, beside the next minute's, and any tick may fail.
* The local server writes to two stores, each under a mutex of its own, and
  nothing orders the second writes as the first ones.

`PROJECT.json` lists these and the others under `hazards`, each at its line
with the properties that would catch it.

### 1.4 What makes each component correct

* **Kernel**: the merged count grows by one with every enrollment and is
  monotone in every shard.
* **In-memory store**: positions are exactly 1..N; a session has one visitor
  and keeps its place; nobody is let in before their place is called except
  through the floodgates (`emergency_open`), and the serving counter is then
  pulled up to them; a token is never taken back. In one sentence: it
  implements the abstract `FairQueue`.
* **DynamoDB store, enroll**: first come, first served, and nobody behind the
  end of the line; a session that asks again gets the visitor it has. Not
  *dense*: see 3.3.
* **DynamoDB store, polls and reaper**: no more visitors get in than places
  were called; nobody gets in out of turn; an early admission advances the
  line; the counter never falls; who keeps polling gets in. In one sentence: it
  implements the abstract `TicketQueue`.
* **Lambda runtime and waiting room**: an accepted enroll is carried out; what
  a page polls is on record or about to be; nobody gets to the site without a
  ticket that was called; a page that polls gets to the site or stops. In one
  sentence: requests implement `TicketQueue`, however often they are delivered.
* **Serving reaper**: a process ticks each event at most once, passes
  none over, and starves none, however many others fail.
* **Visits of several events**: each event has a `TicketQueue` of its own; nobody
  gets through by an event that did not call them; a page whose polls are
  answered by the event that knows it gets through.
* **Admin store, portal and local server**: visitors are never sent to an event
  that nobody has made; a room with an event gets an active one; the local
  server's queue serves what the admin store says.

## 2. Modules

```
QueueKernel ── MemoryStore ──────────── MCMemoryStore
     │              └── MemoryStoreProofs
     ├── QueueKernelProofs
     └── DynamoTables ─┬─ DynamoEnroll ─┬─ MCDynamoEnroll
                       │                ├─ DynamoEnrollProofs
                       └─ DynamoAdmit ──┴─ DynamoQueue ─┬─ MCDynamoQueue
                                                        └─ DynamoQueueProofs
EnrollBuffer ── WaitingRoom ─┬─ MCWaitingRoom
                             └─ WaitingRoomProofs
RoomAdmin ─┬─ MCRoomAdmin
           └─ RoomAdminProofs
ServingReaper ── ServingReaperProofs
Visits ── VisitsProofs

FairQueue    is implemented by MemoryStore, for each event
TicketQueue  is implemented by DynamoQueue, by WaitingRoom, and for each event by Visits
```

**QueueKernel.** A vector of shard counters and its sum. The sum is written as
the number of tickets the shards have handed out (`Tickets`), which is the same
number; a sum over a set would be a recursive operator, about which nothing
can be proved here.

**FairQueue.** The abstract specification of one event's line: `Join` at the
back, `Admit` when called or when the floodgates are open, `Advance`,
`Operate`. Only the in-memory store keeps it, each of whose operations holds one
mutex: the visitors are the sessions of an event.

**TicketQueue.** What is left of that promise over DynamoDB. Enrolls draw
tickets from one sequence (`Draw`), some of which nobody receives; a visitor is
let in (`LetIn`) on a ticket of its own that was called, unless the floodgates
were ever open; tickets are called and never called back (`Call`). A visitor may
hold several tickets, and nothing is said of the position written on its item,
which is overwritten, lost and shared. A ticket is a turn among all ADDs on an
event's shards: in DynamoQueue those of the calls for one request id
(`TurnsOf`), in WaitingRoom those that its handler or its deliveries drew
(`tickets`), in Visits those of a browser's enrolls.

**MemoryStore.** One action per operation, because every operation holds the
one mutex: `EnsureEvent`, `Enroll`, `MaybeAdmit` (reached by `status` and by
`admit`), `ReaperTick`; `Tick` is the clock that visitors age by. An operation
that returns an error changes nothing and is a disabled action. `ForeignPolls`
says whether a client may poll a request under another event than its own.

**DynamoTables.** One event's items. `event`, `serving`, `shards`, `visitors`
are the items themselves; the `...Lag` variables are what an eventually
consistent read may return instead, and `Replicate...` lets them catch up.
Shard counters have no such copy: the code reads them consistently. The constant `Faults` says what goes wrong in
an instance; every theorem holds for every set of faults unless it excludes
one by name.

**DynamoEnroll.** One execution of `DynamoDbStore::enroll` is a *call*; its
`pc` names the request to DynamoDB it makes next, and each request is an
action: `Begin` (get_event), `Lookup`, `Count` (ADD), `ReadShard` for each key
of the batch, `Put`. The lookup asks the index; if that query fails (`indexFails`)
it reads the first page of the event's items, which need not hold everybody
(`Pages`). There are further `CountUnanswered`, `SkipShard`, `PutError` and
`Abort` for what fails. Two calls with one request id are two deliveries of
one message. `base` and `ahead` are history variables: the counters right
after the call's own ADD, which give it its rank, and the calls that had
returned a visitor, or failed, when this one began.

**DynamoAdmit.** A *poll* is a client that asks for one request id for ever:
`PollEvent`, `PollVisitor`, `PollServing`, `PollSet`, `PollBump` are the
requests `maybe_admit` makes, `PollBumpLost` and `PollAbort` its failures. The
reaper is `ReaperRead` and `ReaperAdd`, the operator `Override`. `letIn` and
`wasOpen` are history variables.

**DynamoQueue.** The whole: calls, polls, reaper, operator, replicas and TTL,
over the same tables.

**EnrollBuffer.** The SQS queue and its workers: `Buffer` is what
`handle_enroll` does when there is a queue; `Receive`, `EnrollRecord`,
`Reject`, `Acknowledge` are the life of a batch, `ReceiveAgain` and
`WorkerDies` what goes wrong with it. `InFlight` is the visibility timeout, as
long as nothing goes wrong. The store's enroll is three steps of a *call*, which
a worker or a handler is in: the checks and the lookup (`LookupMisses`), the
`ADD` (`Count`), and the `PUT` (`Put`) of a position between the call's own turn
and the end of the line (`Places`), as DynamoEnroll shows a sum over the shards
to be. Two deliveries of one message, or a handler and its dead predecessor, may
be in a call at once. `ADD`s are repeated (`CountUnanswered`), and `PUT`s too
(`PutError`). A record is *fit* if its event exists and asks for no captcha that
the record lacks: one that is not is turned away by every worker, and its batch
with it (`Refused`, `Reject`), for ever.

**WaitingRoom.** `main.ts`, the handlers and the edge, from opening a tab to
the site. What a script does between two awaits is one step: `Open`, `Reload`
and `EdgeRedirects` all run `Main`, up to the first request; `Solve` is the
challenge, which other tabs may overtake; `HandleBuffered`, `HandleKnown`,
`HandleNew`, `HandleRefused` are where the handler's side of the enroll begins,
`HandlerStep` is the rest of it, which goes on although its page is gone; `Join`
and `AnswerLost` are the page's side; `Poll` is the poll that finds its visitor
due, with `maybe_admit` in one step, which DynamoQueue takes apart.
`deployment` says whether there is a buffer and a challenge, and is chosen once.
`tickets`, `called`, `letIn` and `wasOpen` are history variables.

**RoomAdmin.** The admin side: what each portal has listed, the requests it
sends, and the store that carries them out, which is DynamoDB's or the local
server's (`backend`, chosen once). A portal's `call` is its request; `pc` is
the next thing that is done about it: `NewRoom`, `PutEvent`, `GetRoom`,
`CheckRoom`, `PutRoom`, `UpdateEvent` are requests to DynamoDB, `Activate` and
`UpdateRoom` what is done under one mutex in memory, `MirrorEvent`, `ReadActive`
and `MirrorActive` what the local server does afterwards. `RefreshEvents` and
`RefreshRoom` are the two lists of `refresh`; they are separate steps, since
nothing ties the two requests together, and only what they return last is
kept. There is one room, since the portal has a name for no other, and of it
the model keeps the active event: whoever saves a name or a theme puts it back
as listed. A second click in one browser is a second portal. `FirstEvent` is
the wizard's event ("default") or the local server's ("demo"). `calm` says
whether operators take turns, act on what is there, and nothing fails; the
properties that no code could keep otherwise are stated of such behaviours.

What a request asks of the admin API's handlers (`handlers.rs`) is an operator
of its own: `PostRoom`, `PostEvent`, `PutListedRoom`, `PatchEvent`.

**ServingReaper.** The serving-reaper binary over all events of a tenant. An
invocation is one firing of the schedule; it has up to `MaxProcesses` processes,
since the binary never asks the Lambda runtime for its event and Lambda takes
its exit for a failure. `List` is start-up and scan, `Read` and `Add` are the two
requests of one tick, `AddUnanswered` is an `ADD` that was applied and that the
SDK sends again, since no answer came; `Warn` is a tick that failed, perhaps after
its `ADD` was applied; `Ends` is a process that ends early, for want of a signing key, a list or
time. Invocations overlap. `listed`, `missed` and `added` are history variables
of one invocation.

**Visits.** A room with several events. `VisitSite` comes through the edge, which
knows one default event; `VisitRoom` asks for the active one, of which
`activeCached` is an answer kept by the browser; `VisitLink` names one. All run
`Main`, which polls the stored request id if there is one. A token is the key it
was signed with (`secret` when the instance was started: `LoadedKeys`), and the
edge accepts those signed with its own copy (`edge`). `Expire`, `Vanish`, `Rotate`
and `DeployEdge` are what time and operators do to them. An enroll is `Count`, its
`ADD`, and `Put`, between which others may count and put: positions are shared and
left out as in production. `EnrollFails` is one that fails in between, or whose
answer is lost, and `PollFails` a poll that fails and ends the page's loop. A poll
is one step here, which `DynamoQueue` takes apart.

Operators named "Faulty variant" are not part of the system. Each is a
plausible mistake in the code (a dropped guard, a swapped order) that the
property it belongs to tells from the code.

## 3. What the runs check

| Run | Checks | Instance | States |
|---|---|---|---|
| MemoryStoreLine | the invariants and action properties of the in-memory store, and that it implements `FairQueue` | 1 event, 3 sessions on 2 shards, 3 request ids, throughput 0 or 2, clock to 2, serving to 3 | 51 000 |
| EnrollStrangers | first come, first served | 3 sessions enroll at once, 2 on the same shard; PUTs fail, applied or not; stale lookups; lookups of one page; TTL | 2 710 000 |
| EnrollAgain | a session whose calls take turns has one visitor; nobody stands behind the end of the line | 3 calls, 2 of one session, ADDs repeated, batches incomplete, handlers dying | 360 000 |
| QueueFaults | no more let in than called; serving never falls | 2 visitors, one message delivered twice, 2 polls, floodgates, the event read late, lost ADDs, dying handlers | 3 870 000 |
| QueueStale | the tables implement `TicketQueue`; nobody is let in out of turn; an early admission advances the line; who keeps polling is let in | 2 visitors, 2 polls, stale event and serving counter, pauses, floodgates that open and close | 290 000 |
| WaitingRoomServed | requests implement `TicketQueue`; no accepted enroll is lost, what is polled comes, the site is reached, and only on a ticket that was called | 2 tabs of 1 browser, 2 workers with batches of 2, every deployment but a buffer behind a challenge; 13 kinds of fault, one at a time | 374 000 |
| RoomAdminRaces | the active event exists; the local server's queue misses no event; both stores agree when operators took turns | 2 portals, 2 events, 1 switch, both stores, calm or with stale reads, failing lists and dying handlers | 825 000 |
| ReaperMinutes | a process passes no event over and ticks none twice; none starves | 2 events, one of which always fails, 2 invocations at once of 2 processes each, 2 more failures, ADDs sent up to twice, throughput 0 or 2 | 427 000 |
| VisitsServed | every event implements `TicketQueue`; nobody gets through by another event; who polls stands in some line; a page that polls its event gets through | 2 browsers, 2 events, links, switches of the active event, 2 signing keys, expiry, TTL, failing enrolls and polls, 2 faults at a time | 306 000 |
| MemoryStoreForeignPolls | *violated* | 2 events that share the visitor map | |
| EnrollTwoTabs | *violated* | nothing fails | |
| WaitingRoomChallenge | *violated* | a buffer behind a challenge, 2 tabs; nothing fails | |

### 3.1 Bounds, and why they are enough

* `MaxServing` stops the reaper, `MaxClock` the clock; both are past the
  number of visitors, so every place is called and every visitor can expire,
  except in QueueFaults, where `MaxServing` is 1 so that the second visitor can
  only get in through the floodgates.
* Three calls are what the races need: one to be overtaken, one to overtake, a
  third to enroll between them or to be a redelivery. Two shards are what a
  torn batch read needs; two sessions share one so that an ADD can race on it.
  The runs of DynamoQueue have one shard: torn reads are the subject of
  EnrollStrangers.
* `MaxAttempts` is 3 in the code (`MAX_ATTEMPTS`); 2 shows the first attempt,
  the repeated one and the last.
* `CountUnanswered` repeats an ADD once; the SDK makes up to three attempts.
* In WaitingRoom, `Ids` has one UUID for each tab's enroll: a page that reloads
  before its answer arrives needs another one and stops where there is none
  left, as it does when an answer is lost. `MaxFailures` is 1: the second thing
  that every property needs to go wrong is what is no fault there, the other tab,
  the other worker, and the reaper, each of which may come between any two steps.
  Two workers with batches of two are what it takes for one message to be in two
  batches, for the two deliveries to be in a call at once, and for a batch to be
  half done. `MaxLead` lets the reaper get past the end of the line by one.
* In RoomAdmin, two portals make every race between two requests; a third would
  only repeat one of them. Two events are the one that is active and the one
  that another operator chose. One switch is enough for two overrides to
  differ in, and each asks for what it likes, whatever is listed.
* In ReaperMinutes, the event that always fails is first in the scan, where it
  would do the most harm. Two invocations overlap as any number would, two
  processes are one and its repetition (Lambda starts up to three), two attempts
  are one and its repetition (the SDK makes three), and two failures are one in
  each of two processes, or two in one. The schedule stops
  when every line that can be ticked has got to `MaxServing`.
* In VisitsServed, two events are the one that knows a browser and another; two
  keys are one before and one after a rotation; two browsers stand behind each
  other in one line or in different ones, and count before either of them puts.
  `MaxLine` leaves room for an enroll that fails after it has counted.

The calls of an instance are finite, so the production instances can come to
rest and turn deadlock checking off. The in-memory store and the portals never
rest: `EnsureEvent` and `RefreshEvents` are always possible, and MemoryStoreLine
and RoomAdminRaces check deadlock, and so does VisitsServed, since a site can
always be visited. ReaperMinutes ends with its bounds and does not.

### 3.2 Fairness

Four runs need it. In QueueStale, `DynamoQueue!Fairness` assumes that clients
keep polling (a page does as long as its polls succeed; other clients poll as they
like, and the property is about those that go on), that the reaper ticks
(EventBridge starts it every minute, `data-plane.ts:173-177`; a process that
runs it exits, the schedule does not) and that replicas catch up. Enrolls are
not assumed to end: the property is about visitors that have an item. It allows a
visitor to wait for ever where the operator stops the line, by a pause or by a
throughput of 0: the documents say that these stop it, the code does not (3.3),
and `EventuallyLetIn` takes no side.

A page polls again only after a poll that was answered (`main.ts:347`): `PollFails`
ends its loop in WaitingRoom and in Visits, and fairness assumes a further poll only
of pages that are still in the loop. In WaitingRoomServed, `WaitingRoom!Fairness`
assumes besides that a page follows a redirect, that SQS keeps delivering and
workers keep working, and the reaper. Neither opening a tab, nor solving a
challenge, nor a handler's steps, nor an answer's arrival is assumed. The operator
is not assumed to reopen a paused queue: the property is about those behaviours in
which it does. Nor is anything assumed of a record that the store always refuses:
it and whoever shares its batches are named as the exception. In ReaperMinutes each
invocation keeps taking steps, and nothing is assumed of *which*: that ticks fail is
bounded by `MaxFailures`, except for the broken event, and so is that processes do
not start. A signing secret that is missing for good, which stops the reaper of all
events, is outside of that bound. In VisitsServed pages that are in the loop poll
again, redirects are followed and the reaper ticks; no browser is assumed to visit
anything, to enroll, or to stay where it is. Nothing is claimed of the in-memory
store's liveness: the local server has no schedule that ticks its reaper.

### 3.3 Violated properties

Each violation run checks one sentence of the documentation and finds a
behaviour of the code that contradicts it; `findings` quotes the sentence.

* **MemoryStoreForeignPolls**. A visitor of event A polls its request under
  event B and is admitted by B's serving counter.
* **EnrollTwoTabs**. Two calls of one session both look up before either
  writes, and the session has two visitors.
* **WaitingRoomChallenge**. Tabs A and B show the challenge. A solves it, joins
  and stores its session; B solves it and enrolls under that session. The
  handler answers B with a fresh request id; the worker finds the session's
  visitor and drops the message. B has stored an id that never gets a visitor
  and polls 404 for ever, and after a reload so does A. Without the buffer B
  gets A's visitor; without the challenge neither tab knows a session before
  it enrolls. Enrolls with a session of a store whose ids were dropped (the
  cookie kept, local storage cleared) go the same way.

More disagreements came to light; they are described here and no run checks
them. Two calls that both add before either reads share a position, and another
position stays empty (`dynamodb_store.rs:519`), although "dense 1..N" is promised
(`concepts/data-model.md:22`, `docs/engineering/dynamodb-models.md:21`). It is harmless for
fairness (EnrollStrangers) and costs the front of the line nothing: the reaper
calls empty places too. `sum_shard_counters` ignores the `UnprocessedKeys` of its batch read
(`dynamodb_store.rs:202`) and counts their shards as 0, so a newcomer may stand
before those who were there, where `fairness-and-throughput.md:7` promises a
monotonically increasing position; `NoOvertaking` fails with the fault
`partialBatch`, and its theorem excludes just that one. What is true all the same
is that nobody stands too far back (`PlacesWithinLine`). The local server's
`BridgedAdminStore` "mirrors event writes into the queue" (`local-server.rs:57`),
but two overrides of one event may be repeated in the other order
(lines 124-131), and the queue then serves the older; `MirrorInStep` fails without
`calm`. The portal says "No rooms yet. Use First event above or create an
event." (`page.tsx:446`), but an event created by the form makes no room, and
once an event is listed the wizard that makes one does not open again (line 182).
A PUT that was applied but reported an error is made again with a
position summed anew (`dynamodb_store.rs:519`), where
`concepts/data-model.md:22` says the record "stores assigned position once". At
throughput 0 the reaper still calls one place a minute (`.max(1)`, line 578),
where `fairness-and-throughput.md:20` says it adds `throughput_per_minute`. The
error of the ADD after an early admission is dropped (line 301) and the counter
stays behind. Concurrent early admissions each add what the counter lacked when
they read it (line 302), so together they take it past the end of the line.
A record for an event that does not exist, or that asks for a
captcha the record lacks, is accepted with a 202 (`lambda_runtime.rs:158`), refused
by every worker, and fails its batch until the queue drops it after a day, on a
queue that all events share; the pages behind it poll a 404 meanwhile and show no
error, where `operations.md:39` calls the 404 after a 202 "Expected briefly". The
reaper does not look whether an event is paused (line 576), where
`guides/operations.md:45` gives a pause as a reason for "Visitors not advancing". It
never looks for expired visitors either, where `fairness-and-throughput.md:21`
has it clean them up at the front and `data-model.md:36` advance serving for them;
only the in-memory store does. A minute's invocation may add more than
`throughput_per_minute`: the binary exits, Lambda starts it again, and each
process adds its slice (`lambda_runtime.rs:350`), more than once if the SDK repeats
an `ADD` that was not answered; `OneTickPerProcess` is what is left of the promise. The edge is to be redeployed after a rotation of the secret
(`operations.md:50`), but visitors that hold a token signed before keep it on
record and are given it again until it expires and beyond (`dynamodb_store.rs:276`):
they go round between site and waiting room. Nothing in the repository sets the
cookie in which the edge looks for a token (`handler.ts:133`), so a visitor with a
valid token is sent to the waiting room at the next click, and there under the
edge's default event, whatever event let it in (line 142): if that is another
one, the page polls a 404 for ever. Status answers return the visitor's own
`return_url` only, where `concepts/visitor-flow.md:94` says "from enroll or event
config". Tokens of a dress rehearsal are not marked, where the comment at
`queue-kernel/src/models.rs:58` says that they are.

## 4. What is proved

TLAPS checks all of the following for any number of sessions, shards, calls,
polls, request ids and any throughput. They rest on the named assumptions of
the modules (a finite, non-empty shard plan; `assign_shard` is a function; a
message carries its session) and on no others unless said.

| Theorem | Says |
|---|---|
| `QueueKernelProofs` | lemmas: the tickets are finite, counting one enrollment adds exactly 1, the merge is monotone and strict |
| `MemoryStoreProofs!TypeCorrect`, `OneVisitor`, `Dense`, `PlaceIsKept`, `StatsAreComplete`, `AdmissionIsKept` | the store's invariants and action properties |
| `MemoryStoreProofs!InTurn`, `WithinServing`, `FairQueueImplemented` | admission in turn, and refinement of `FairQueue`, when requests are polled under their own event |
| `DynamoEnrollProofs!EnrollTypeCorrect` | types, under every fault |
| `DynamoEnrollProofs!PositionsNotEarly`, `FirstComeFirstServed` | positions are never before their turn, and who comes later stands further back, under every fault but incomplete batch reads |
| `DynamoEnrollProofs!PlacesInLine` | nobody is recorded behind the end of the line, under every fault |
| `DynamoEnrollProofs!SameVisitor` | a session whose calls take turns is given one visitor, however many calls it makes and however they end, if the index answers and is current and TTL spares its item |
| `DynamoQueueProofs!TicketsFair` | refinement of `TicketQueue`, under every fault but incomplete batch reads |
| `DynamoQueueProofs!QueueFirstCome`, `QueuePlacesInLine`, `QueueSameVisitor` | what the enrolls guarantee, on the same conditions, they guarantee while polls, the reaper and operators write the same tables |
| `DynamoQueueProofs!QueueTypeCorrect`, `ServingIsKept` | types; the serving counter never falls, under every fault |
| `DynamoQueueProofs!AdmittedWhenCalled` | unless the floodgates were opened, whoever holds a token stands at a place that was called, if every visitor is written once (`OneWriter`), with stale reads and TTL |
| `DynamoQueueProofs!AdmissionsAdvance` | concurrent early admissions pull the serving counter up to everybody they let in, if every visitor is written once, no handler dies and no ADD is lost |
| `DynamoQueueProofs!LetInWithinServing` | unless the floodgates were opened, no more visitors were let in than places called, under every fault but incomplete batch reads |
| `WaitingRoomProofs!RoomTypeCorrect`, `AcceptedKept`, `SiteCalled` | types; no accepted enroll is lost; nobody is let through without a ticket that was called unless the floodgates were opened; in every deployment and under every fault |
| `WaitingRoomProofs!PolledComing` | what a page polls is on record or on the queue, if no deployment joins a buffer and a challenge |
| `WaitingRoomProofs!RoomTickets` | refinement of `TicketQueue` by the requests, in every deployment and under every fault |
| `RoomAdminProofs!AdminTypeCorrect`, `ActiveIsMade`, `MirrorIsComplete` | types; the active event exists; the local server's queue misses no event; under every fault |
| `RoomAdminProofs!MirrorKeepsStep`, `RoomIsActivated` | both stores of the local server agree, and a room with an event has an active one, when no request is under way and operators took turns |
| `ServingReaperProofs!ReaperTypeCorrect`, `OneTick`, `NobodyIsPassedOver` | types; one tick per process and event, and so no more ADDs than the SDK makes of it; a process that came through has ticked or warned of all that it listed |
| `VisitsProofs!VisitsTypeCorrect`, `LetInByOwn`, `PollersHavePlaces` | types; nobody gets through by an event that did not call them; who polls stands in some line; for any events, browsers, keys and faults |
| `VisitsProofs!LinesTickets` | refinement of `TicketQueue`, one for each event |

### 4.1 The inductive invariants

**MemoryStore.** `IInv` is `TypeOK /\ OneVisitorPerSession /\ PositionsDense`.
Density is not inductive alone: a new visitor gets position *N + 1* only if
the session index is complete, because it is the index that decides whether an
enroll counts. The request ids are assumed finite, so that the visitors of an
event can be counted.

**DynamoEnroll.** `CallsInv` adds to the types three facts about a call's
history. `Progress`: what `base`, `seen` and `unread` are at each `pc`.
`Ordered`: of two counted calls, one's counters are no later than the other's
in every shard, and differ. `Queued`: a call that began after another had
returned counted after it. `BatchesInv` (`CaughtUp`) says that a shard already
read was read at or after the call's own ADD. With these, a position is at
least the rank, and the sum over what an earlier call saw is below the sum
over what a later call counted: shards only grow. For the same reason
`PlacesWithinLine` needs `Progress` alone, and survives a batch that leaves
shards out.

`SameVisitorAgain` speaks of a session whose calls *take turns*
(`TakesTurns`): of any two, one had answered or failed when the other began,
unless they are deliveries of one message. `Single` says that such a session has
one item at most, that a call of it which is about to write knows of no other
item than its own, and that an answer names that item; `Owned`, that items are
filed under the session of their message. A call that died after its PUT, or
whose PUT reported an error after it was applied, leaves an item that the next
call finds; one that died before leaves none.

**DynamoQueue.** Positions may coincide, be lost and be overwritten, so
"position <= serving" does not bound the number of visitors let in. What does is
that every admission can be charged to a rank: a visitor let in stands at a
position no lower than the rank of a call that enrolled it (`Backed`,
`LetInBacked`), ranks are distinct, hence at most *serving* of them are at or
below the serving counter. `SignsInTurn` carries the decision of a poll over
its remaining requests, `BumpForward` says that a pending ADD is positive, and
`Shut` that no poll believes the queue open if it never was.

`TicketsFair` is the same argument step by step. A call's ticket is its rank:
the ADD that is answered draws it, one whose answer is lost wastes it
(`CallDraws`), and no step changes it later (`TurnKept`). A poll that stores a
token for somebody who was never let in before has read a position that some
call of this visitor backs, so the visitor holds a ticket, and before the
floodgates are opened a called one (`PollUsesTicket`).

The enrolls' own invariant speaks of no variable that a poll, the reaper or the
operator writes, except the visitors' items, and `EnrollsUndisturbed` shows that
the queue keeps it. For `SameVisitorAgain` one has to know besides that `SET`
never makes an item anew (`Known`): then an admission changes no session.

For the two properties that speak of a visitor's *present* place, `TurnInv` adds
that nobody knows of a visitor whose call has not written it yet (`Unwritten`),
that a visitor therefore stands where a poll or a replica has seen it wait, or,
when `SET` has made its item anew after TTL, at 0 (`Steady`), and that what a poll
has read of the serving counter was reached (`ReadBefore`): so the counter plus
what the poll adds is no less than the place. `OneWriter` is what `Unwritten`
needs: a second delivery of a message writes a visitor that is known already.

**WaitingRoom.** Three invariants, each on top of the types. `BufferInv`: what
a worker has taken and no longer has to enroll belongs to a session with a
visitor (`Carried`), so that deleting a batch loses nothing; for this a request
id must name one session in all messages and calls that carry it (`DrawnOnce`), a
handler's call must be for the id it drew (`OwnCall`), and what is on record must
stay there (`Grown`, proved of every step): a later `PUT` may move it, not remove
it. `SiteInv`: an item's position is not before every ticket its request drew
(`Placed`), and a call about to put holds one (`HoldsTicket`); until the floodgates
open, the serving counter is what the reaper has called, and whoever was ever let
in drew a ticket that was called (`Shut`); whoever is admitted, or on the way to the
site, was let in (`TokenHeld`). This is stated of tickets because items are
overwritten: a second delivery may put a later position, not admitted, where a
visitor on the site has its item. `Opened` says that open floodgates have been
noted. Each step that keeps these is one of `TicketQueue` (`LineStep`). `PageInv`:
pages and browsers hold ids that were enrolled or sent (`Held`), nothing is sent
where there is no buffer (`Synchronous`), and a buffered enroll has a session of its
own (`OwnSession`) - the part that a challenge breaks.

**RoomAdmin.** `ActiveExists` is not inductive alone: a stale room may be put
back long after. `CopiesInv` therefore says of *every* copy of the active event
that its event is made: in the tables and the queue, in what a portal shows
(`ShownExist`), and in the request that will write it (`SoundCall`); events are
never removed, so a copy stays sound for as long as it is kept. `MirrorInv` adds
that the room of the local server keeps the active event it was seeded with or a
later one, and that no wizard opens there. `CalmInv` adds, for calm behaviours,
that one request at a time is under way (`Alone`), and what each step of that
request still has to do: how far the queue is behind (`InStep`), and that the
room lacks an active event only while somebody is about to give it one
(`Activated`).

**ServingReaper.** `IInv` adds to the types that an event a process has still to
tick has been added to by the invocation's earlier processes only, and by the `ADD`s
of the tick under way that were not answered, of which there are fewer than the
SDK's attempts (`Fresh`), without which `OneTickPerProcess` would not survive the
next `ADD`; and that a listed event which is through was added to or warned of
(`Settled`), of which `NobodyPassedOver` is the last moment.

**Visits.** `IInv` adds that a browser keeps a request id exactly if it has a
place in some line (`Placed`), that a page polls only with a stored id and enrolls
only without one (`Paged`), that nobody's place is before every turn it drew
(`Ticketed`), and that a token on record was given at a place that was called
(`Called`). Together they make `LetInByOwnEvent` inductive: a page takes
a token only from the record of its own event and request, a browser is given a
place only once, and counters never fall. They make every step one of the queue of
tickets of its event, and of no other (`CountDraws`, `SignatureLetsIn`).

### 4.2 What stays with TLC

Liveness (`EventuallyLetIn`, `EventuallyServed`, `NobodyStarves`, `GetsThrough`) is
out of the prover's reach. Every invariant and every other action property that a
run checks is a theorem, for the faults and deployments that section 4 names.

Some results are proved and not run. `ImplementsTicketQueue` of the production queue
is run with stale reads and floodgates, but without redelivered messages or failing
handlers, for which QueueFaults is too large: of these the theorem
speaks alone (WaitingRoomServed has them, with coarser steps). What TTL and stale
copies of visitors do to `AdmittedInTurn` and `AdmissionAdvancesServing` is left out
of QueueStale to keep it small. `PlaceKept` is contained in
`ImplementsFairQueue`, which MemoryStoreLine runs, and `EnrollTypeOK` in the
`TypeOK` of the queue.

### 4.3 What the results do not say

* `AdmittedInTurn` of the production queue does not hold when a message is
  delivered again, or a PUT made again, while the visitor is being admitted:
  the item is written anew with a later position. QueueStale and the theorem
  (`OneWriter`) leave these out; `AdmittedWithinServing` survives them.
* `SameVisitorAgain` needs an index that answers and is current, an item that TTL spares, and calls
  that take turns; EnrollTwoTabs shows what two at once do.
* `TicketQueue` orders tickets, not visitors: a visitor whose message was
  delivered again may be admitted on its later ticket only. `NoOvertaking` is
  what is known of positions.
* In WaitingRoom, too, an item may be overwritten by an overlapping delivery, and
  a visitor that is on the site may then stand at a place that was not called, and
  be given a new token. `SiteOnlyWhenCalled` and `TicketQueue` speak of the tickets
  it drew. Positions are left to `Places`: a batch read that is incomplete is the
  subject of DynamoEnroll and left out there, and so are the requests within a poll.
* `AdmissionAdvancesServing` needs the ADD to succeed. It does not bound the
  counter from above: a poll that reads an old copy of a visitor admits it again
  and adds again.
* There are four ways for a page to get lost. A browser whose stored request was
  deleted by TTL, or belongs to another event, polls a 404 for ever (`main.ts:316`).
  A token that expires before it is used, or whose key was rotated, leads to the
  site, back to the waiting room and to the same token, for ever. A poll that fails
  ends the loop (`main.ts:347`): if it was the first the page shows the error, and
  later nothing new (`stopped` in WaitingRoom, `error` in Visits). `GetsThrough` and
  `EventuallyServed` name these and count the last as an end. `EventuallyServed` knows
  a fifth, of pages that poll for what is behind a record that no worker can enroll.
* A message is on the queue until it is deleted. SQS drops it after a day
  (`data-plane.ts:67`), so a longer pause loses enrolls.
* `ActivatedInTurn` needs current reads: right after the wizard has put the room,
  create_event may not find it (`admin-api/src/dynamodb_store.rs:312`) and then
  leaves it without an active event. `MirrorInStep` needs operators that take
  turns: see 3.3.
* `SameVisitorAgain` excludes the lookup's second path too: when the index fails it
  reads one page, of a megabyte at most (`dynamodb_store.rs:478-499`), and in a longer
  line the session may not be on it.
* `ActiveExists` says that the active event exists, not that it is the one last
  chosen: a portal that saves a room it listed before takes the choice back.
* Tokens are present or absent. Two polls may both sign one, and the second
  replaces the first on record; both are valid, and no decision tells them
  apart.

## 5. Not modelled

* How a token is encoded and signed, RS256, captcha, tenant headers, HTTP
  routing: stateless, and covered by unit tests or by an external service.
* Wait estimates and poll intervals: no state depends on them.
* The answer of a poll reads the serving counter once more; it changes nothing.
* The seeding of DynamoDB Local, and the portal's sign-in, statistics and export.
* The CloudFront cache in front of the status API, which may answer a poll with
  one that is up to 30 seconds old: a poll that takes longer.
* Public paths and cookies at the edge. The floodgates in `Visits`, the second page
  of the reaper's scan, and a change of the number of shards.
* Request ids that clients choose. `MemoryStore!EnrollUnindexed` draws a fresh one,
  where the handlers accept one from the body of the request and `HashMap::insert`
  would replace the entry it names; the page never sends one (`main.ts:257-261`).
* Landing pages, website, CLI, SDKs, scripts, deployment.

## 6. Plan

Done, in this order: `QueueKernel`, `FairQueue`, `MemoryStore` and its proofs;
`DynamoTables`, `DynamoEnroll` and its proofs; `DynamoAdmit`, `DynamoQueue` and
its proofs; `EnrollBuffer`, `WaitingRoom` and its proofs; `RoomAdmin` and its
proofs; `ServingReaper` and its proofs; `Visits` and its proofs; the proofs of
`AdmittedInTurn` and `AdmissionAdvancesServing`; that `DynamoQueue`, `WaitingRoom` and
`Visits` implement `TicketQueue`, over enrolls that overlap;
`SameVisitorAgain` and `PlacesWithinLine`, alone and in the queue.

What could follow:

1. The configuration of a deployment, from the CLI's answers to the stack: which
   combinations can be deployed, so that "no buffer behind a challenge" is a fact
   about them or a finding.
2. `Visits` with the floodgates and with the requests of a poll taken apart, as a
   refinement of what is there.
