------------------------- MODULE WaitingRoomProofs -------------------------
(***************************************************************************)
(* Proofs about WaitingRoom, for any number of tabs, browsers, workers and *)
(* ids, and for every set of faults.                                       *)
(***************************************************************************)
EXTENDS WaitingRoom, FiniteSetTheorems, TLAPS

Ids2 == [request : Ids \cup {NoId}, session : Ids \cup {NoId}]

\* The two halves of TypeOK.
BufferTypes ==
    /\ event \in {"running", "paused", "open"}
    /\ depth \in Nat /\ serving \in Nat /\ failures \in Nat
    /\ DOMAIN visitors \subseteq Ids
    /\ \A r \in DOMAIN visitors : visitors[r] \in Item
    /\ drawn \subseteq Ids
    /\ buffer \subseteq Message /\ sent \subseteq Message
    /\ batch \in [Workers -> Batch]
    /\ call \in [Callers -> Call \cup {NoCall}]
    /\ tickets \in [Ids -> SUBSET Nat]

RoomTypes ==
    /\ deployment \in Deployment
    /\ tab \in [Tabs -> Tab]
    /\ storage \in [Browsers -> Ids2]
    /\ expired \subseteq Ids
    /\ called \in Nat /\ letIn \subseteq Ids /\ wasOpen \in BOOLEAN

LEMMA TypeHalves == TypeOK <=> BufferTypes /\ RoomTypes
BY DEF TypeOK, BufferTypes, RoomTypes, Ids2

\* The operators that make a tab's record.
LEMMA InType ==
    ASSUME NEW phase \in Phases, NEW ids,
           ids.request \in Ids \cup {NoId}, ids.session \in Ids \cup {NoId}
    PROVE  In(phase, ids) \in Tab
BY DEF In, Tab

LEMMA NoIdsType == NoIds \in Ids2
BY DEF NoIds, Ids2

\* A page that starts, or starts over, shows something of its type.
LEMMA MainType ==
    ASSUME RoomTypes, NEW t \in Tabs, Main(t)
    PROVE  tab' \in [Tabs -> Tab]
<1> USE RoomAssumption
<1>1. Stored(t) \in Ids2 /\ NoIds \in Ids2
  BY NoIdsType DEF RoomTypes, Stored
<1>2. Enrolling(t) \in Tab
  BY <1>1, InType DEF Enrolling, Ids2, Phases
<1>3. In("polling", Stored(t)) \in Tab /\ In("challenge", NoIds) \in Tab
  BY <1>1, InType DEF Ids2, Phases
<1> QED
  BY <1>2, <1>3 DEF Main, RoomTypes

\* What a handler assigns to an enroll.
LEMMA AssignedType ==
    ASSUME RoomTypes, NEW t \in Tabs, NEW r \in Ids, NEW fit \in BOOLEAN
    PROVE  /\ Assigned(t, r, fit) \in Message
           /\ Assigned(t, r, fit).request = r /\ Assigned(t, r, fit).session \in Ids
           /\ In("answered", Assigned(t, r, fit)) \in Tab
           /\ In("handled", Assigned(t, r, fit)) \in Tab
<1>1. tab[t].session \in Ids \cup {NoId}
  BY DEF RoomTypes, Tab
<1>2. /\ Assigned(t, r, fit) \in Message
      /\ Assigned(t, r, fit).request = r /\ Assigned(t, r, fit).session \in Ids
  BY <1>1 DEF Assigned, Message
<1> QED
  BY <1>2, InType DEF Phases

-----------------------------------------------------------------------------

\* What calls do on their own.
CallStep(c) == Count(c) \/ CountUnanswered(c) \/ Put(c) \/ PutError(c)

\* A call that counts or puts is a call.
LEMMA CallShape ==
    ASSUME BufferTypes, NEW c \in Callers, call[c].step \in {"count", "put"}
    PROVE  /\ call[c] \in Call /\ call[c] # NoCall
           /\ call[c].message \in Message /\ call[c].message.request \in Ids
           /\ call[c].message.session \in Ids /\ call[c].ticket \in Nat
<1>1. call[c] \in Call
  BY DEF BufferTypes, NoCall
<1> QED
  BY <1>1 DEF Call, Message, NoCall

\* The PUT of a call adds, or overwrites, the item of its request.
LEMMA WriteShape ==
    ASSUME BufferTypes, NEW c \in Callers, call[c].step = "put", WriteVisitor(c)
    PROVE  /\ DOMAIN visitors' = DOMAIN visitors \cup {call[c].message.request}
           /\ \A r \in DOMAIN visitors : r # call[c].message.request => visitors'[r] = visitors[r]
           /\ visitors'[call[c].message.request] \in Item
           /\ visitors'[call[c].message.request].session = call[c].message.session
           /\ ~visitors'[call[c].message.request].admitted
           /\ call[c].ticket <= visitors'[call[c].message.request].position
<1> DEFINE m == call[c].message
<1>1. m \in Message /\ m.session \in Ids /\ call[c].ticket \in Nat /\ depth \in Nat
  BY CallShape DEF BufferTypes
<1>2. PICK n \in Places(c) : visitors' = Insert(visitors, m.request,
                                [session |-> m.session, position |-> n, admitted |-> FALSE])
  BY DEF WriteVisitor
<1>3. n \in Nat /\ call[c].ticket <= n
  BY <1>1, <1>2 DEF Places
<1> DEFINE item == [session |-> m.session, position |-> n, admitted |-> FALSE]
<1>4. item \in Item /\ item.session = m.session /\ ~item.admitted /\ item.position = n
  BY <1>1, <1>3 DEF Item
<1>5. /\ DOMAIN visitors' = DOMAIN visitors \cup {m.request}
      /\ \A r \in DOMAIN visitors : r # m.request => visitors'[r] = visitors[r]
      /\ visitors'[m.request] = item
  BY <1>2 DEF Insert
<1> QED
  BY <1>3, <1>4, <1>5

\* The steps of a call keep the types.
LEMMA CallType ==
    ASSUME BufferTypes, NEW c \in Callers, CallStep(c)
    PROVE  BufferTypes'
<1>0. call[c].step \in {"count", "put"}
  BY DEF CallStep, Count, CountUnanswered, Put, PutError
<1>1. /\ call[c] \in Call /\ call[c].message \in Message
      /\ call[c].message.request \in Ids /\ depth + 1 \in Nat
  BY <1>0, CallShape DEF BufferTypes
<1>2. CASE Count(c)
  <2>1. [call[c] EXCEPT !.step = "put", !.ticket = depth + 1] \in Call
    BY <1>1 DEF Call
  <2>2. call' \in [Callers -> Call \cup {NoCall}]
    BY <1>2, <2>1 DEF Count, BufferTypes
  <2>3. tickets' \in [Ids -> SUBSET Nat] /\ depth' \in Nat
    BY <1>1, <1>2 DEF Count, BufferTypes
  <2> QED
    BY <1>2, <2>2, <2>3 DEF Count, BufferTypes
<1>3. CASE CountUnanswered(c)
  BY <1>1, <1>3 DEF CountUnanswered, Fails, BufferTypes
<1>4. CASE Put(c) \/ PutError(c)
  <2>1. WriteVisitor(c) /\ call[c].step = "put"
    BY <1>4 DEF Put, PutError
  <2>2. DOMAIN visitors' \subseteq Ids /\ \A r \in DOMAIN visitors' : visitors'[r] \in Item
    BY <1>1, <2>1, WriteShape DEF BufferTypes
  <2>3. CASE Put(c)
    <3>1. call' \in [Callers -> Call \cup {NoCall}]
      BY <2>3 DEF Put, BufferTypes
    <3>2. \A w \in Workers : [batch[w] EXCEPT !.left = @ \ {call[c].message}] \in Batch
      BY DEF BufferTypes, Batch
    <3>3. batch' \in [Workers -> Batch]
      BY <2>3, <3>2 DEF Put, BufferTypes
    <3> QED
      BY <2>2, <2>3, <3>1, <3>3 DEF Put, BufferTypes
  <2>4. CASE PutError(c)
    BY <2>2, <2>4 DEF PutError, Fails, BufferTypes
  <2> QED
    BY <1>4, <2>3, <2>4
<1> QED
  BY <1>2, <1>3, <1>4 DEF CallStep

\* A lookup that misses begins a call.
LEMMA LookupType ==
    ASSUME BufferTypes, NEW c \in Callers, NEW m \in Message, LookupMisses(c, m)
    PROVE  /\ call' \in [Callers -> Call \cup {NoCall}] /\ failures' \in Nat
           /\ \A d \in Callers : call'[d] = IF d = c THEN [step |-> "count", message |-> m, ticket |-> 0]
                                            ELSE call[d]
<1>1. [step |-> "count", message |-> m, ticket |-> 0] \in Call
  BY DEF Call
<1>2. failures' \in Nat
  BY DEF LookupMisses, Fails, BufferTypes
<1> QED
  BY <1>1, <1>2 DEF LookupMisses, BufferTypes

\* Every worker step keeps the types.
LEMMA WorkerType ==
    ASSUME BufferTypes, NEW w \in Workers, WorkerStep(w) \/ WorkerFault(w)
    PROVE  BufferTypes'
<1>6. CASE CallStep(w)
  BY <1>6, CallType DEF Callers
<1> USE DEF BufferTypes, storeVars
<1>0. NoBatch \in Batch /\ w \in Callers
  BY DEF NoBatch, Batch, Callers
<1>1. CASE Receive(w)
  <2>1. PICK ms \in SUBSET (buffer \ InFlight) :
            batch' = [batch EXCEPT ![w] = [taken |-> ms, left |-> ms]]
    BY <1>1 DEF Receive
  <2>2. [taken |-> ms, left |-> ms] \in Batch
    BY <2>1 DEF Batch
  <2> QED
    BY <1>1, <2>1, <2>2 DEF Receive
<1>2. CASE EnrollRecord(w)
  <2>1. PICK m \in batch[w].left :
            \/ batch' = [batch EXCEPT ![w].left = @ \ {m}] /\ UNCHANGED <<call, failures>>
            \/ LookupMisses(w, m) /\ UNCHANGED batch
    BY <1>2 DEF EnrollRecord
  <2>2. m \in Message
    <3>1. batch[w] \in Batch
      OBVIOUS
    <3> QED
      BY <2>1, <3>1 DEF Batch
  <2>3. call' \in [Callers -> Call \cup {NoCall}] /\ failures' \in Nat
    BY <1>0, <2>1, <2>2, LookupType
  <2>4. batch' \in [Workers -> Batch]
    <3>1. [batch[w] EXCEPT !.left = @ \ {m}] \in Batch
      BY DEF Batch
    <3> QED
      BY <2>1, <3>1 DEF LookupMisses
  <2> QED
    BY <1>2, <2>3, <2>4 DEF EnrollRecord
<1>3. ASSUME EndBatch(w)
      PROVE  batch' \in [Workers -> Batch] /\ call' \in [Callers -> Call \cup {NoCall}]
  BY <1>0, <1>3 DEF EndBatch
<1>4. CASE Reject(w) \/ Acknowledge(w) \/ WorkerDies(w)
  BY <1>3, <1>4 DEF Reject, Acknowledge, WorkerDies, Fails
<1>5. CASE ReceiveAgain(w)
  <2>1. PICK m \in sent : batch' = [batch EXCEPT ![w] = [taken |-> {m}, left |-> {m}]]
    BY <1>5 DEF ReceiveAgain
  <2>2. [taken |-> {m}, left |-> {m}] \in Batch
    BY <2>1 DEF Batch
  <2>3. batch' \in [Workers -> Batch]
    BY <2>1, <2>2
  <2>4. failures' \in Nat
    BY <1>5 DEF ReceiveAgain, Fails
  <2> QED
    BY <1>5, <2>3, <2>4 DEF ReceiveAgain
<1> QED
  BY <1>1, <1>2, <1>4, <1>5, <1>6 DEF WorkerStep, WorkerFault, CallStep

\* The tabs that are answered stay tabs.
LEMMA AnswerType ==
    ASSUME RoomTypes, NEW r, NEW phase \in Phases, Answer(r, phase)
    PROVE  /\ tab' \in [Tabs -> Tab]
           /\ \A t \in Tabs : \/ tab'[t] = tab[t]
                              \/ /\ tab[t].phase = "handled" /\ tab'[t].phase = phase
                                 /\ tab[t].request = r /\ tab'[t].request = r
                                 /\ tab'[t].session = tab[t].session
<1>1. \A t \in Tabs : [tab[t] EXCEPT !.phase = phase] \in Tab
  BY DEF RoomTypes, Tab
<1>2. \A t \in Tabs : tab[t] \in Tab
  BY DEF RoomTypes
<1> QED
  BY <1>1, <1>2 DEF Answer, Tab

\* Every step of a handler keeps the types.
LEMMA HandlerType ==
    ASSUME TypeOK, NEW r \in Ids, HandlerStep(r)
    PROVE  TypeOK'
<1>0. BufferTypes /\ RoomTypes /\ r \in Callers
  BY TypeHalves DEF Callers
<1>1. CASE (Count(r) \/ CountUnanswered(r) \/ PutError(r)) /\ UNCHANGED roomVars
  <2>1. BufferTypes'
    BY <1>0, <1>1, CallType DEF CallStep
  <2>2. RoomTypes'
    BY <1>0, <1>1 DEF RoomTypes, roomVars, ghosts
  <2> QED
    BY <2>1, <2>2 DEF TypeOK, BufferTypes, RoomTypes, Ids2
<1>2. CASE HandlerPuts(r)
  <2>1. BufferTypes'
    BY <1>0, <1>2, CallType DEF CallStep, HandlerPuts
  <2>2. tab' \in [Tabs -> Tab]
    BY <1>0, <1>2, AnswerType DEF HandlerPuts, Phases
  <2>3. RoomTypes'
    BY <1>0, <1>2, <2>2 DEF RoomTypes, HandlerPuts, ghosts
  <2> QED
    BY <2>1, <2>3 DEF TypeOK, BufferTypes, RoomTypes, Ids2
<1>3. CASE HandlerDies(r)
  <2>1. BufferTypes'
    BY <1>0, <1>3 DEF HandlerDies, BufferTypes, storeVars, Fails
  <2>2. tab' \in [Tabs -> Tab]
    BY <1>0, <1>3, AnswerType DEF HandlerDies, Phases
  <2>3. RoomTypes'
    BY <1>0, <1>3, <2>2 DEF RoomTypes, HandlerDies, ghosts
  <2> QED
    BY <2>1, <2>3 DEF TypeOK, BufferTypes, RoomTypes, Ids2
<1> QED
  BY <1>1, <1>2, <1>3 DEF HandlerStep

\* Every step of a page, and of the handler it calls, keeps the types.
LEMMA TabType ==
    ASSUME TypeOK, NEW t \in Tabs, TabStep(t) \/ TabFault(t)
    PROVE  TypeOK'
<1> USE RoomAssumption
<1>0. BufferTypes /\ RoomTypes
  BY TypeHalves
<1>1. In("stopped", NoIds) \in Tab
  BY InType, NoIdsType DEF Phases, Ids2
<1>2. CASE Open(t) \/ Reload(t) \/ EdgeRedirects(t)
  <2>1. tab' \in [Tabs -> Tab]
    BY <1>0, <1>2, MainType DEF Open, Reload, EdgeRedirects
  <2>2. UNCHANGED <<deployment, storage, expired, called, letIn, wasOpen>>
    BY <1>2 DEF Open, Reload, EdgeRedirects, Main, ghosts
  <2>3. UNCHANGED <<event, depth, visitors, serving, tickets, drawn, buffer, sent, batch, call>>
        /\ failures' \in Nat
    BY <1>0, <1>2 DEF Open, Reload, EdgeRedirects, Fails, bufferVars, storeVars, BufferTypes
  <2> QED
    BY <2>1, <2>2, <2>3 DEF TypeOK
<1>5. CASE Solve(t)
  <2>1. Stored(t) \in Ids2
    BY <1>0 DEF RoomTypes, Stored
  <2>2. Enrolling(t) \in Tab
    BY <2>1, InType DEF Enrolling, Phases, Ids2
  <2> QED
    BY <1>5, <2>2 DEF Solve, TypeOK, bufferVars, storeVars, ghosts
<1>6. CASE HandleBuffered(t)
  <2>1. PICK r \in Ids \ drawn, fit \in BOOLEAN :
            /\ IF fit THEN UNCHANGED failures ELSE Fails("unfit")
            /\ Buffer(Assigned(t, r, fit))
            /\ tab' = [tab EXCEPT ![t] = In("answered", Assigned(t, r, fit))]
    BY <1>6 DEF HandleBuffered
  <2>2. /\ Assigned(t, r, fit) \in Message /\ In("answered", Assigned(t, r, fit)) \in Tab
        /\ Assigned(t, r, fit).request \in Ids
    BY <1>0, AssignedType
  <2>3. failures' \in Nat
    BY <1>0, <2>1 DEF Fails, BufferTypes
  <2>4. tab' \in [Tabs -> Tab]
    BY <1>0, <2>1, <2>2 DEF RoomTypes
  <2>5. /\ drawn' \subseteq Ids /\ buffer' \subseteq Message /\ sent' \subseteq Message
        /\ UNCHANGED <<event, depth, visitors, serving, tickets, batch, call>>
    BY <1>0, <2>1, <2>2 DEF Buffer, BufferTypes, storeVars
  <2>6. UNCHANGED <<deployment, storage, expired, called, letIn, wasOpen>>
    BY <1>6 DEF HandleBuffered, ghosts
  <2> QED
    BY <2>3, <2>4, <2>5, <2>6 DEF TypeOK
<1>7. CASE HandleKnown(t)
  <2>1. PICK q \in Filed(tab[t].session) : tab' = [tab EXCEPT ![t] =
                    In("answered", [request |-> q, session |-> tab[t].session])]
    BY <1>7 DEF HandleKnown
  <2>2. q \in Ids /\ tab[t].session \in Ids \cup {NoId}
    BY <1>0 DEF Filed, BufferTypes, RoomTypes, Tab
  <2>3. In("answered", [request |-> q, session |-> tab[t].session]) \in Tab
    BY <2>2, InType DEF Phases
  <2> QED
    BY <1>7, <2>1, <2>3 DEF HandleKnown, TypeOK, bufferVars, storeVars, ghosts
<1>8. CASE HandleNew(t)
  <2>1. PICK r \in Ids \ drawn :
            /\ LookupMisses(r, Assigned(t, r, TRUE))
            /\ drawn' = drawn \cup {r}
            /\ tab' = [tab EXCEPT ![t] = In("handled", Assigned(t, r, TRUE))]
    BY <1>8 DEF HandleNew
  <2>2. Assigned(t, r, TRUE) \in Message /\ In("handled", Assigned(t, r, TRUE)) \in Tab
    BY <1>0, AssignedType
  <2>3. call' \in [Callers -> Call \cup {NoCall}] /\ failures' \in Nat
    BY <1>0, <2>1, <2>2, LookupType DEF Callers
  <2> QED
    BY <1>8, <2>1, <2>2, <2>3 DEF HandleNew, TypeOK, storeVars, ghosts
<1>9. CASE HandleRefused(t)
  <2>1. failures' \in Nat
    BY <1>0, <1>9 DEF HandleRefused, Fails, BufferTypes
  <2> QED
    BY <1>1, <1>9, <2>1 DEF HandleRefused, TypeOK, storeVars, ghosts
<1>10. CASE Join(t)
  BY <1>10 DEF Join, TypeOK, Tab, Phases, bufferVars, storeVars, ghosts
<1>11. CASE Poll(t)
  <2>1. \A r \in DOMAIN visitors : visitors[r] \in Item /\ visitors[r].position \in Nat
    BY DEF TypeOK, Item
  <2>2. /\ DOMAIN visitors' = DOMAIN visitors
        /\ \A r \in DOMAIN visitors' : visitors'[r] \in Item
    BY <1>11, <2>1 DEF Poll, Item
  <2>3. serving' \in Nat
    BY <1>11, <2>1 DEF Poll, ServingAfter, TypeOK
  <2>4. tab' \in [Tabs -> Tab]
    BY <1>11 DEF Poll, TypeOK, Tab, Phases
  <2>5. letIn' \subseteq Ids /\ expired' \subseteq Ids
    BY <1>11 DEF Poll, TypeOK
  <2> QED
    BY <1>11, <2>2, <2>3, <2>4, <2>5 DEF Poll, TypeOK
<1>12. CASE EdgeLetsIn(t)
  BY <1>12 DEF EdgeLetsIn, TypeOK, Tab, Phases, bufferVars, storeVars, ghosts
<1>13. CASE AnswerLost(t) \/ ChallengeFails(t)
  BY <1>1, <1>13 DEF AnswerLost, ChallengeFails, Fails, TypeOK, storeVars, ghosts
<1>14. CASE PollFails(t)
  BY <1>14 DEF PollFails, Fails, TypeOK, Tab, Phases, storeVars, ghosts
<1> QED
  BY <1>2, <1>5, <1>6, <1>7, <1>8, <1>9, <1>10, <1>11, <1>12, <1>13, <1>14 DEF TabStep, TabFault

\* Every step keeps the types.
LEMMA TypeNext ==
    ASSUME TypeOK, [Next]_vars
    PROVE  TypeOK'
<1>1. ASSUME NEW t \in Tabs, TabStep(t) \/ TabFault(t)
      PROVE  TypeOK'
  BY <1>1, TabType
<1>2. ASSUME NEW w \in Workers, (WorkerStep(w) \/ WorkerFault(w)) /\ UNCHANGED roomVars
      PROVE  TypeOK'
  <2>1. BufferTypes'
    BY <1>2, TypeHalves, WorkerType
  <2> QED
    BY <1>2, <2>1 DEF TypeOK, BufferTypes, roomVars, ghosts
<1>3. ASSUME NEW r \in Ids, HandlerStep(r)
      PROVE  TypeOK'
  BY <1>3, HandlerType
<1>4. ASSUME NEW r \in Ids, TokenExpires(r)
      PROVE  TypeOK'
  BY <1>4 DEF TokenExpires, Fails, TypeOK, storeVars, ghosts
<1>5. CASE Reaper
  BY <1>5 DEF Reaper, TypeOK
<1>6. CASE Operate /\ wasOpen' = (wasOpen \/ event' = "open")
                   /\ UNCHANGED <<deployment, tab, storage, expired, called, letIn>>
  BY <1>6 DEF Operate, Fails, TypeOK, storeVars
<1>7. CASE UNCHANGED vars
  BY <1>7 DEF vars, bufferVars, roomVars, storeVars, ghosts, TypeOK
<1> QED
  BY <1>1, <1>2, <1>3, <1>4, <1>5, <1>6, <1>7 DEF Next

LEMMA TypeInit == Init => TypeOK
<1> SUFFICES ASSUME Init PROVE TypeOK
  OBVIOUS
<1>1. NoBatch \in Batch /\ In("closed", NoIds) \in Tab /\ NoIds \in Ids2
  BY InType, NoIdsType DEF NoBatch, Batch, Phases, Ids2
<1>2. storage \in [Browsers -> [request : Ids \cup {NoId}, session : Ids \cup {NoId}]]
  BY <1>1 DEF Init, Ids2
<1> QED
  BY <1>1, <1>2, RoomAssumption DEF Init, BufferInit, TypeOK

\* All state of the way of a visitor stays well typed.
THEOREM RoomTypeCorrect == Spec => []TypeOK
BY TypeInit, TypeNext, PTL DEF Spec

-----------------------------------------------------------------------------

\* The messages that were sent, or that a handler or a worker is enrolling.
Known == sent \cup {m \in Message : \E c \in Callers : call[c] # NoCall /\ call[c].message = m}

\* A request id is drawn once: it names one session at most.
DrawnOnce ==
    /\ DOMAIN visitors \subseteq drawn
    /\ \A m \in Known : m.request \in drawn
    /\ \A m, n \in Known : m.request = n.request => m.session = n.session
    /\ \A m \in Known : m.request \in DOMAIN visitors => visitors[m.request].session = m.session

\* The call of a handler is for the request id the handler drew.
OwnCall == \A r \in Ids : call[r] # NoCall => call[r].message.request = r

\* Workers carry messages that were sent; what a worker has taken is still to
\* be enrolled, or its session has a visitor.
Carried ==
    /\ buffer \subseteq sent
    /\ \A w \in Workers : batch[w].taken \subseteq sent /\ batch[w].left \subseteq sent
    /\ \A w \in Workers : \A m \in batch[w].taken : m \in batch[w].left \/ Filed(m.session) # {}

\* What is on record stays there, under the session it had.
Grown ==
    \A r \in DOMAIN visitors : r \in DOMAIN visitors' /\ visitors'[r].session = visitors[r].session

\* A session that has a visitor keeps one.
LEMMA FiledGrows == ASSUME Grown PROVE \A s : Filed(s) # {} => Filed(s)' # {}
BY DEF Grown, Filed

\* A store that is left alone is left as it is.
LEMMA UnchangedGrows == UNCHANGED visitors => Grown
BY DEF Grown

BufferInv == BufferTypes /\ DrawnOnce /\ OwnCall /\ Carried /\ AcceptedIsKept

\* If neither the messages nor the store change, and no call begins, what holds of
\* them holds on.
LEMMA BufferIdle ==
    ASSUME BufferInv, UNCHANGED <<visitors, drawn, buffer, sent, batch>>,
           \A c \in Callers : call'[c] # NoCall => call[c] # NoCall /\ call'[c].message = call[c].message
    PROVE  Grown /\ (DrawnOnce /\ OwnCall /\ Carried /\ AcceptedIsKept)'
<1>1. Known' \subseteq Known
  BY DEF Known
<1>2. DrawnOnce'
  BY <1>1 DEF BufferInv, DrawnOnce
<1>3. OwnCall'
  BY DEF BufferInv, OwnCall, Callers
<1> QED
  BY <1>2, <1>3, UnchangedGrows DEF BufferInv, Carried, AcceptedIsKept, Filed

\* A PUT leaves the session of its request on record.
LEMMA WriteKeeps ==
    ASSUME BufferInv, NEW c \in Callers, call[c].step = "put", WriteVisitor(c)
    PROVE  /\ Grown
           /\ \E r \in DOMAIN visitors' : visitors'[r].session = call[c].message.session
           /\ call[c].message.request \in DOMAIN visitors'
           /\ Known' \subseteq Known /\ drawn' = drawn => DrawnOnce'
<1> DEFINE m == call[c].message
<1>1. /\ DOMAIN visitors' = DOMAIN visitors \cup {m.request}
      /\ \A r \in DOMAIN visitors : r # m.request => visitors'[r] = visitors[r]
      /\ visitors'[m.request].session = m.session
  BY WriteShape DEF BufferInv
<1>2. m \in Known
  <2>1. call[c] # NoCall /\ call[c].message = m /\ m \in Message
    BY CallShape DEF BufferInv
  <2> QED
    BY <2>1 DEF Known
<1>3. Grown
  BY <1>1, <1>2 DEF Grown, BufferInv, DrawnOnce
<1>4. \E r \in DOMAIN visitors' : visitors'[r].session = m.session
  BY <1>1
<1>5. ASSUME Known' \subseteq Known, drawn' = drawn
      PROVE  DrawnOnce'
  BY <1>1, <1>2, <1>5 DEF BufferInv, DrawnOnce
<1> QED
  BY <1>1, <1>3, <1>4, <1>5

\* No step of a call loses a message.
LEMMA CallKeeps ==
    ASSUME BufferInv, NEW c \in Callers, CallStep(c)
    PROVE  Grown /\ (DrawnOnce /\ OwnCall /\ Carried /\ AcceptedIsKept)'
<1>1. call \in [Callers -> Call \cup {NoCall}]
  BY DEF BufferInv, BufferTypes
<1>2. ASSUME NEW d \in Callers, call'[d] # NoCall
      PROVE  call[d] # NoCall /\ call'[d].message = call[d].message
  <2>1. CASE Count(c)
    <3>1. call[c] \in Call /\ call[c] # NoCall
      BY <2>1, CallShape DEF BufferInv, Count
    <3>2. call'[d] = IF d = c THEN [call[c] EXCEPT !.step = "put", !.ticket = depth + 1] ELSE call[d]
      BY <1>1, <2>1 DEF Count
    <3> QED
      BY <1>2, <3>1, <3>2 DEF Call
  <2>2. CASE Put(c)
    BY <1>1, <1>2, <2>2 DEF Put
  <2>3. CASE CountUnanswered(c) \/ PutError(c)
    BY <1>2, <2>3 DEF CountUnanswered, PutError
  <2> QED
    BY <2>1, <2>2, <2>3 DEF CallStep
<1>3. CASE Count(c) \/ CountUnanswered(c)
  <2>1. UNCHANGED <<visitors, drawn, buffer, sent, batch>>
    BY <1>3 DEF Count, CountUnanswered
  <2> QED
    BY <1>2, <2>1, BufferIdle
<1>4. CASE Put(c) \/ PutError(c)
  <2> DEFINE m == call[c].message
  <2>1. call[c].step = "put" /\ WriteVisitor(c) /\ UNCHANGED <<drawn, buffer, sent>>
    BY <1>4 DEF Put, PutError
  <2>2. Known' \subseteq Known
    <3>1. SUFFICES ASSUME NEW n \in Message, NEW d \in Callers, call'[d] # NoCall, call'[d].message = n
                   PROVE  n \in Known
      BY <2>1 DEF Known
    <3> QED
      BY <1>2, <3>1 DEF Known
  <2>3. /\ Grown /\ DrawnOnce'
        /\ \A s : s = m.session => Filed(s)' # {}
    BY <2>1, <2>2, WriteKeeps DEF Filed
  <2>4. OwnCall'
    BY <1>2 DEF BufferInv, OwnCall, Callers
  <2>5. \A w \in Workers : /\ batch'[w].taken = batch[w].taken
                           /\ batch'[w].left \subseteq batch[w].left
                           /\ batch[w].left \subseteq batch'[w].left \cup {m}
    <3>1. \A w \in Workers : batch[w] \in Batch
      BY DEF BufferInv, BufferTypes
    <3>2. CASE Put(c)
      BY <3>1, <3>2 DEF Put, Batch
    <3>3. CASE PutError(c)
      BY <3>3 DEF PutError
    <3> QED
      BY <1>4, <3>2, <3>3
  <2>6. Carried'
    <3>1. \A w \in Workers : \A n \in batch'[w].taken :
                n \in batch'[w].left \/ Filed(n.session)' # {}
      BY <2>3, <2>5, FiledGrows DEF BufferInv, Carried
    <3>2. \A w \in Workers : batch'[w].taken \subseteq sent /\ batch'[w].left \subseteq sent
      BY <2>5 DEF BufferInv, Carried
    <3> QED
      BY <2>1, <3>1, <3>2 DEF BufferInv, Carried
  <2>7. AcceptedIsKept'
    BY <2>1, <2>3, FiledGrows DEF BufferInv, AcceptedIsKept
  <2> QED
    BY <2>3, <2>4, <2>6, <2>7
<1> QED
  BY <1>3, <1>4 DEF CallStep

\* No worker step loses a message.
LEMMA WorkerKeeps ==
    ASSUME BufferInv, NEW w \in Workers, WorkerStep(w) \/ WorkerFault(w)
    PROVE  Grown /\ (DrawnOnce /\ OwnCall /\ Carried /\ AcceptedIsKept)'
<1>0. /\ batch \in [Workers -> Batch] /\ \A v \in Workers : batch[v] \in Batch
      /\ call \in [Callers -> Call \cup {NoCall}] /\ w \in Callers /\ w \notin Ids
  BY BufferAssumption DEF BufferInv, BufferTypes, Callers
<1>1. ASSUME NEW ms \in SUBSET sent, batch' = [batch EXCEPT ![w] = [taken |-> ms, left |-> ms]],
             UNCHANGED <<visitors, drawn, buffer, sent, call>>
      PROVE  Grown /\ (DrawnOnce /\ OwnCall /\ Carried /\ AcceptedIsKept)'
  <2>1. \A v \in Workers : batch'[v] = IF v = w THEN [taken |-> ms, left |-> ms] ELSE batch[v]
    BY <1>0, <1>1
  <2>2. Carried'
    BY <1>1, <2>1 DEF BufferInv, Carried, Filed
  <2>3. DrawnOnce' /\ OwnCall'
    BY <1>1 DEF BufferInv, DrawnOnce, OwnCall, Known
  <2> QED
    BY <1>1, <2>2, <2>3, UnchangedGrows DEF BufferInv, AcceptedIsKept, Filed
<1>2. CASE Receive(w)
  <2>1. PICK ms \in SUBSET (buffer \ InFlight) :
            batch' = [batch EXCEPT ![w] = [taken |-> ms, left |-> ms]]
    BY <1>2 DEF Receive
  <2>2. ms \in SUBSET sent
    BY <2>1 DEF BufferInv, Carried
  <2> QED
    BY <1>1, <1>2, <2>1, <2>2 DEF Receive, storeVars
<1>3. CASE ReceiveAgain(w)
  <2>1. PICK m \in sent : batch' = [batch EXCEPT ![w] = [taken |-> {m}, left |-> {m}]]
    BY <1>3 DEF ReceiveAgain
  <2>2. {m} \in SUBSET sent
    BY <2>1
  <2> QED
    BY <1>1, <1>3, <2>1, <2>2 DEF ReceiveAgain, storeVars
<1>4. CASE EnrollRecord(w)
  <2>1. PICK m \in batch[w].left :
            \/ /\ Filed(m.session) # {}
               /\ batch' = [batch EXCEPT ![w].left = @ \ {m}] /\ UNCHANGED call
            \/ LookupMisses(w, m) /\ UNCHANGED batch
    BY <1>4 DEF EnrollRecord
  <2>2. UNCHANGED <<visitors, drawn, buffer, sent>>
    BY <1>4 DEF EnrollRecord, storeVars
  <2>3. m \in sent /\ m \in Message
    BY <2>1 DEF BufferInv, Carried, BufferTypes
  <2>4. CASE /\ Filed(m.session) # {}
             /\ batch' = [batch EXCEPT ![w].left = @ \ {m}] /\ UNCHANGED call
    <3>1. \A v \in Workers : /\ batch'[v].taken = batch[v].taken
                             /\ batch'[v].left = IF v = w THEN batch[v].left \ {m} ELSE batch[v].left
      BY <1>0, <2>4 DEF Batch
    <3>2. Carried'
      BY <2>2, <2>4, <3>1 DEF BufferInv, Carried, Filed
    <3>3. DrawnOnce' /\ OwnCall'
      BY <2>2, <2>4 DEF BufferInv, DrawnOnce, OwnCall, Known
    <3> QED
      BY <2>2, <3>2, <3>3, UnchangedGrows DEF BufferInv, AcceptedIsKept, Filed
  <2>5. CASE LookupMisses(w, m) /\ UNCHANGED batch
    <3>1. \A d \in Callers : call'[d] = IF d = w THEN [step |-> "count", message |-> m, ticket |-> 0]
                                        ELSE call[d]
      BY <1>0, <2>3, <2>5, LookupType DEF BufferInv
    <3>2. Known' \subseteq Known
      BY <2>2, <2>3, <3>1 DEF Known
    <3>3. DrawnOnce'
      BY <2>2, <3>2 DEF BufferInv, DrawnOnce
    <3>4. OwnCall'
      BY <1>0, <3>1 DEF BufferInv, OwnCall, Callers
    <3> QED
      BY <2>2, <2>5, <3>3, <3>4, UnchangedGrows DEF BufferInv, Carried, AcceptedIsKept, Filed
  <2> QED
    BY <2>1, <2>4, <2>5
<1>5. ASSUME EndBatch(w)
      PROVE  /\ \A v \in Workers : batch'[v] = IF v = w THEN NoBatch ELSE batch[v]
             /\ \A d \in Callers : call'[d] = IF d = w THEN NoCall ELSE call[d]
  BY <1>0, <1>5 DEF EndBatch
<1>6. ASSUME EndBatch(w), UNCHANGED <<visitors, drawn, sent>>,
             buffer' = buffer \/ (buffer' = buffer \ batch[w].taken /\ batch[w].left = {})
      PROVE  Grown /\ (DrawnOnce /\ OwnCall /\ Carried /\ AcceptedIsKept)'
  <2>1. Known' \subseteq Known
    BY <1>5, <1>6 DEF Known
  <2>2. DrawnOnce'
    BY <1>6, <2>1 DEF BufferInv, DrawnOnce
  <2>3. OwnCall'
    BY <1>5, <1>6 DEF BufferInv, OwnCall, Callers
  <2>4. Carried'
    BY <1>5, <1>6 DEF BufferInv, Carried, Filed, NoBatch
  <2>5. AcceptedIsKept'
    BY <1>6 DEF BufferInv, AcceptedIsKept, Carried, Filed
  <2> QED
    BY <1>6, <2>2, <2>3, <2>4, <2>5, UnchangedGrows
<1>7. CASE Reject(w) \/ WorkerDies(w) \/ Acknowledge(w)
  BY <1>6, <1>7 DEF Reject, WorkerDies, Acknowledge, storeVars
<1>8. CASE CallStep(w)
  BY <1>0, <1>8, CallKeeps
<1> QED
  BY <1>2, <1>3, <1>4, <1>7, <1>8 DEF WorkerStep, WorkerFault, CallStep

\* Handling an enroll loses no message either.
LEMMA HandlerKeeps ==
    ASSUME BufferInv, RoomTypes, NEW t \in Tabs, HandleBuffered(t) \/ HandleNew(t)
    PROVE  Grown /\ (DrawnOnce /\ OwnCall /\ Carried /\ AcceptedIsKept)'
<1>1. CASE HandleBuffered(t)
  <2>1. PICK r \in Ids \ drawn, fit \in BOOLEAN : Buffer(Assigned(t, r, fit))
    BY <1>1 DEF HandleBuffered
  <2> DEFINE m == Assigned(t, r, fit)
  <2>3. m.request = r /\ m \in Message
    BY AssignedType
  <2>2. /\ drawn' = drawn \cup {r} /\ buffer' = buffer \cup {m} /\ sent' = sent \cup {m}
        /\ UNCHANGED <<visitors, batch, call>>
    BY <2>1, <2>3 DEF Buffer, storeVars
  <2> HIDE DEF m
  <2>4. Known' = Known \cup {m}
    BY <2>2 DEF Known
  <2>5. DrawnOnce'
    BY <2>1, <2>2, <2>3, <2>4 DEF BufferInv, DrawnOnce
  <2>6. Carried' /\ AcceptedIsKept' /\ OwnCall'
    BY <2>2 DEF BufferInv, Carried, AcceptedIsKept, Filed, OwnCall
  <2> QED
    BY <2>2, <2>5, <2>6, UnchangedGrows
<1>2. CASE HandleNew(t)
  <2>1. PICK r \in Ids \ drawn : LookupMisses(r, Assigned(t, r, TRUE)) /\ drawn' = drawn \cup {r}
    BY <1>2 DEF HandleNew
  <2> DEFINE m == Assigned(t, r, TRUE)
  <2>2. m.request = r /\ m \in Message
    BY AssignedType
  <2>3. UNCHANGED <<visitors, buffer, sent, batch>>
    BY <1>2 DEF HandleNew, storeVars
  <2>4. \A d \in Callers : call'[d] = IF d = r THEN [step |-> "count", message |-> m, ticket |-> 0]
                                      ELSE call[d]
    BY <2>1, <2>2, LookupType DEF Callers, BufferInv
  <2> HIDE DEF m
  <2>5. Known' \subseteq Known \cup {m}
    BY <2>3, <2>4 DEF Known
  <2>6. DrawnOnce'
    BY <2>1, <2>2, <2>3, <2>5 DEF BufferInv, DrawnOnce
  <2>7. OwnCall'
    BY <2>2, <2>4 DEF BufferInv, OwnCall, Callers
  <2> QED
    BY <2>3, <2>6, <2>7, UnchangedGrows DEF BufferInv, Carried, AcceptedIsKept, Filed
<1> QED
  BY <1>1, <1>2

\* A poll changes no more of the store than who is admitted.
LEMMA PollShape ==
    ASSUME BufferTypes, NEW t \in Tabs, Poll(t)
    PROVE  /\ DOMAIN visitors' = DOMAIN visitors
           /\ \A r \in DOMAIN visitors :
                /\ visitors'[r].session = visitors[r].session
                /\ visitors'[r].position = visitors[r].position
                /\ visitors'[r].admitted = (visitors[r].admitted \/ r = tab[t].request)
           /\ UNCHANGED <<drawn, buffer, sent, batch, call, tickets, depth, event>>
<1>1. /\ DOMAIN visitors' = DOMAIN visitors
      /\ \A r \in DOMAIN visitors :
            visitors'[r] = IF r = tab[t].request THEN [visitors[r] EXCEPT !.admitted = TRUE]
                           ELSE visitors[r]
  BY DEF Poll
<1>2. \A r \in DOMAIN visitors : visitors[r] \in Item
  BY DEF BufferTypes
<1>3. \A r \in DOMAIN visitors :
        /\ visitors'[r].session = visitors[r].session
        /\ visitors'[r].position = visitors[r].position
        /\ visitors'[r].admitted = (visitors[r].admitted \/ r = tab[t].request)
  BY <1>1, <1>2 DEF Item
<1> QED
  BY <1>1, <1>3 DEF Poll

\* A poll loses nothing.
LEMMA PollKeeps ==
    ASSUME BufferInv, NEW t \in Tabs, Poll(t)
    PROVE  Grown /\ (DrawnOnce /\ OwnCall /\ Carried /\ AcceptedIsKept)'
<1>1. /\ DOMAIN visitors' = DOMAIN visitors
      /\ \A r \in DOMAIN visitors : visitors'[r].session = visitors[r].session
      /\ UNCHANGED <<drawn, buffer, sent, batch, call>>
  BY PollShape DEF BufferInv
<1>2. Grown /\ \A s : Filed(s)' = Filed(s)
  BY <1>1 DEF Grown, Filed
<1>3. Known' = Known
  BY <1>1 DEF Known
<1> QED
  BY <1>1, <1>2, <1>3 DEF BufferInv, DrawnOnce, OwnCall, Carried, AcceptedIsKept

\* No step loses a message or what is on record.
LEMMA BufferNext ==
    ASSUME TypeOK, BufferInv, [Next]_vars
    PROVE  BufferInv' /\ Grown
<1>0. BufferTypes' /\ RoomTypes
  BY TypeNext, TypeHalves DEF TypeOK, BufferTypes
<1> SUFFICES Grown /\ (DrawnOnce /\ OwnCall /\ Carried /\ AcceptedIsKept)'
  BY <1>0 DEF BufferInv
<1>1. CASE UNCHANGED <<visitors, drawn, buffer, sent, batch, call>>
  BY <1>1, BufferIdle
<1>2. ASSUME NEW t \in Tabs, HandleBuffered(t) \/ HandleNew(t)
      PROVE  Grown /\ (DrawnOnce /\ OwnCall /\ Carried /\ AcceptedIsKept)'
  BY <1>0, <1>2, HandlerKeeps
<1>3. ASSUME NEW t \in Tabs, Poll(t)
      PROVE  Grown /\ (DrawnOnce /\ OwnCall /\ Carried /\ AcceptedIsKept)'
  BY <1>3, PollKeeps
<1>4. ASSUME NEW w \in Workers, (WorkerStep(w) \/ WorkerFault(w)) /\ UNCHANGED roomVars
      PROVE  Grown /\ (DrawnOnce /\ OwnCall /\ Carried /\ AcceptedIsKept)'
  BY <1>4, WorkerKeeps
<1>5. ASSUME NEW r \in Ids, HandlerStep(r)
      PROVE  Grown /\ (DrawnOnce /\ OwnCall /\ Carried /\ AcceptedIsKept)'
  <2>1. CASE CallStep(r)
    BY <2>1, CallKeeps DEF Callers
  <2>2. CASE HandlerDies(r)
    <3>1. \A c \in Callers : call'[c] # NoCall => call[c] # NoCall /\ call'[c].message = call[c].message
      BY <2>2 DEF HandlerDies, BufferInv, BufferTypes
    <3>2. UNCHANGED <<visitors, drawn, buffer, sent, batch>>
      BY <2>2 DEF HandlerDies, storeVars
    <3> QED
      BY <3>1, <3>2, BufferIdle
  <2> QED
    BY <1>5, <2>1, <2>2 DEF HandlerStep, HandlerPuts, CallStep
<1>6. ASSUME NEW t \in Tabs,
             \/ Open(t) \/ Solve(t) \/ HandleKnown(t) \/ HandleRefused(t) \/ Join(t)
             \/ EdgeLetsIn(t) \/ EdgeRedirects(t) \/ TabFault(t)
      PROVE  UNCHANGED <<visitors, drawn, buffer, sent, batch, call>>
  BY <1>6 DEF Open, Solve, HandleKnown, HandleRefused, Join, EdgeLetsIn, EdgeRedirects, TabFault,
              Reload, AnswerLost, ChallengeFails, PollFails, bufferVars, storeVars
<1>7. ASSUME NEW r \in Ids, TokenExpires(r)
      PROVE  UNCHANGED <<visitors, drawn, buffer, sent, batch, call>>
  BY <1>7 DEF TokenExpires, storeVars
<1>8. CASE Reaper \/ Operate \/ UNCHANGED vars
  BY <1>1, <1>8 DEF Reaper, Operate, vars, bufferVars, storeVars
<1> QED
  BY <1>1, <1>2, <1>3, <1>4, <1>5, <1>6, <1>7, <1>8 DEF Next, TabStep

LEMMA BufferStart == Init => BufferInv
<1> SUFFICES ASSUME Init PROVE BufferInv
  OBVIOUS
<1>1. BufferTypes
  BY TypeInit, TypeHalves
<1>2. Known = {}
  BY DEF Init, BufferInit, Known
<1>3. OwnCall
  BY DEF Init, BufferInit, OwnCall, Callers
<1> QED
  BY <1>1, <1>2, <1>3 DEF Init, BufferInit, BufferInv, DrawnOnce, Carried, AcceptedIsKept, NoBatch

\* Whatever SQS, the workers, the pages and the operator do, in every
\* deployment: an enroll that was accepted is on the queue or its session is
\* on record.
THEOREM AcceptedKept == Spec => []AcceptedIsKept
<1>1. TypeOK /\ BufferInv /\ [Next]_vars => (TypeOK /\ BufferInv)'
  BY TypeNext, BufferNext
<1>2. BufferInv => AcceptedIsKept
  BY DEF BufferInv
<1> QED
  BY <1>1, <1>2, TypeInit, BufferStart, PTL DEF Spec

-----------------------------------------------------------------------------

\* The place on record for a request is not before every turn it drew: it drew
\* one that is not behind it.
Placed == \A r \in DOMAIN visitors : \E n \in tickets[r] : n <= visitors[r].position

\* A call that is about to PUT holds the ticket it will be placed by.
HoldsTicket ==
    \A c \in Callers : call[c].step = "put" => call[c].ticket \in tickets[call[c].message.request]

\* Until the floodgates are opened it is the reaper alone that moves serving,
\* and whoever was given a token holds a ticket that was called.
Shut ==
    ~wasOpen =>
        /\ event # "open"
        /\ serving = called
        /\ \A r \in letIn : \E n \in tickets[r] : n <= called

\* Whoever is admitted, on record or on a page, was given a token.
TokenHeld ==
    /\ \A r \in DOMAIN visitors : visitors[r].admitted => r \in letIn
    /\ \A t \in Tabs : tab[t].phase \in {"leaving", "site"} => tab[t].request \in letIn

SiteInv == Placed /\ HoldsTicket /\ Shut /\ TokenHeld

\* What the queue of tickets sees.
LineStep == [Line!Next]_Line!vars

\* A step that neither enrolls nor admits.
LEMMA SiteIdle ==
    ASSUME SiteInv, UNCHANGED <<visitors, depth, tickets, letIn, serving, called, wasOpen>>,
           event' = event \/ ~(event' = "open" /\ ~wasOpen),
           \A c \in Callers : call'[c].step = "put" => call'[c] = call[c],
           \A t \in Tabs : tab'[t].phase \in {"leaving", "site"} =>
                tab[t].phase \in {"leaving", "site"} /\ tab'[t].request = tab[t].request
    PROVE  SiteInv' /\ LineStep
<1>1. Placed' /\ HoldsTicket' /\ TokenHeld'
  BY DEF SiteInv, Placed, HoldsTicket, TokenHeld
<1>2. Shut'
  BY DEF SiteInv, Shut
<1> QED
  BY <1>1, <1>2 DEF SiteInv, LineStep, Line!vars

\* A call draws tickets, and places its visitor by the last one it drew.
LEMMA CallSite ==
    ASSUME TypeOK, SiteInv, NEW c \in Callers, CallStep(c),
           UNCHANGED <<letIn, called, wasOpen>>,
           \A t \in Tabs : tab'[t].phase \in {"leaving", "site"} =>
                tab[t].phase \in {"leaving", "site"} /\ tab'[t].request = tab[t].request
    PROVE  SiteInv' /\ LineStep
<1>0. BufferTypes
  BY TypeHalves
<1> DEFINE m == call[c].message
<1>1. /\ call[c] \in Call /\ m.request \in Ids /\ depth \in Nat
      /\ call \in [Callers -> Call \cup {NoCall}] /\ tickets \in [Ids -> SUBSET Nat]
  BY <1>0, CallShape DEF CallStep, Count, CountUnanswered, Put, PutError, BufferTypes
<1>2. CASE Count(c)
  <2>1. /\ UNCHANGED <<event, visitors, serving>> /\ depth' = depth + 1
        /\ tickets' = [tickets EXCEPT ![m.request] = @ \cup {depth + 1}]
        /\ call' = [call EXCEPT ![c] = [@ EXCEPT !.step = "put", !.ticket = depth + 1]]
    BY <1>2 DEF Count
  <2>2. \A r \in Ids : tickets[r] \subseteq tickets'[r]
    BY <1>1, <2>1
  <2>3. Placed'
    <3>1. DOMAIN visitors \subseteq Ids
      BY <1>0 DEF BufferTypes
    <3> QED
      BY <2>1, <2>2, <3>1 DEF SiteInv, Placed
  <2>4. HoldsTicket'
    <3>1. /\ call'[c].ticket = depth + 1 /\ call'[c].message = m
          /\ depth + 1 \in tickets'[m.request]
      BY <1>1, <2>1 DEF Call
    <3>2. ASSUME NEW d \in Callers, d # c, call'[d].step = "put"
          PROVE  call'[d].ticket \in tickets'[call'[d].message.request]
      <4>1. call'[d] = call[d]
        BY <1>1, <2>1, <3>2
      <4>2. call[d].message.request \in Ids
        BY <1>0, <3>2, <4>1, CallShape
      <4> QED
        BY <2>2, <3>2, <4>1, <4>2 DEF SiteInv, HoldsTicket
    <3> QED
      BY <3>1, <3>2 DEF HoldsTicket
  <2>5. Shut'
    BY <2>1, <2>2 DEF SiteInv, Shut, TypeOK
  <2>6. TokenHeld'
    BY <2>1 DEF SiteInv, TokenHeld
  <2>7. Line!Draw
    BY <1>1, <2>1 DEF Line!Draw, Line!Take
  <2> QED
    BY <2>3, <2>4, <2>5, <2>6, <2>7 DEF SiteInv, LineStep, Line!Next
<1>3. CASE CountUnanswered(c)
  <2>1. UNCHANGED <<event, visitors, serving, tickets, call>> /\ depth' = depth + 1
    BY <1>3 DEF CountUnanswered
  <2>2. SiteInv'
    BY <2>1 DEF SiteInv, Placed, HoldsTicket, Shut, TokenHeld
  <2>3. Line!Draw
    BY <2>1 DEF Line!Draw
  <2> QED
    BY <2>2, <2>3 DEF LineStep, Line!Next
<1>4. CASE Put(c) \/ PutError(c)
  <2>1. /\ call[c].step = "put" /\ WriteVisitor(c)
        /\ UNCHANGED <<event, depth, serving, tickets>>
    BY <1>4 DEF Put, PutError
  <2>2. /\ DOMAIN visitors' = DOMAIN visitors \cup {m.request}
        /\ \A r \in DOMAIN visitors : r # m.request => visitors'[r] = visitors[r]
        /\ ~visitors'[m.request].admitted
        /\ call[c].ticket <= visitors'[m.request].position
    BY <1>0, <2>1, WriteShape
  <2>3. call[c].ticket \in tickets[m.request]
    BY <2>1 DEF SiteInv, HoldsTicket
  <2>4. Placed'
    <3>1. \E n \in tickets'[m.request] : n <= visitors'[m.request].position
      BY <2>1, <2>2, <2>3
    <3> QED
      BY <2>1, <2>2, <3>1 DEF SiteInv, Placed
  <2>5. HoldsTicket'
    <3>1. ASSUME NEW d \in Callers, call'[d].step = "put"
          PROVE  call'[d] = call[d]
      BY <1>1, <1>4, <3>1 DEF Put, PutError, NoCall
    <3> QED
      BY <2>1, <3>1 DEF SiteInv, HoldsTicket
  <2>6. Shut' /\ TokenHeld'
    BY <2>1, <2>2 DEF SiteInv, Shut, TokenHeld
  <2>7. UNCHANGED Line!vars
    BY <2>1 DEF Line!vars
  <2> QED
    BY <2>4, <2>5, <2>6, <2>7 DEF SiteInv, LineStep
<1> QED
  BY <1>2, <1>3, <1>4 DEF CallStep

\* The poll that admits.
LEMMA PollSite ==
    ASSUME TypeOK, SiteInv, NEW t \in Tabs, Poll(t), event = "open" => wasOpen
    PROVE  SiteInv' /\ LineStep
<1> DEFINE r == tab[t].request
<1>0. BufferTypes /\ RoomTypes
  BY TypeHalves
<1>1. /\ r \in DOMAIN visitors /\ Due(r) /\ letIn' = letIn \cup {r} /\ serving' = ServingAfter(r)
      /\ UNCHANGED <<depth, tickets, event, called, wasOpen>>
  BY DEF Poll
<1>2. /\ DOMAIN visitors' = DOMAIN visitors
      /\ \A q \in DOMAIN visitors : /\ visitors'[q].position = visitors[q].position
                                    /\ visitors'[q].admitted = (visitors[q].admitted \/ q = r)
      /\ call' = call
  BY <1>0, PollShape
<1>3. r \in Ids /\ serving \in Nat /\ visitors[r].position \in Nat /\ tickets[r] \subseteq Nat
      /\ called \in Nat
  BY <1>0, <1>1 DEF BufferTypes, RoomTypes, Item
<1>4. PICK n \in tickets[r] : n <= visitors[r].position
  BY <1>1 DEF SiteInv, Placed
<1>5. n \in Nat
  BY <1>3, <1>4
<1>6. ASSUME r \notin letIn
      PROVE  wasOpen \/ (visitors[r].position <= serving /\ n <= serving)
  <2>1. ~visitors[r].admitted
    BY <1>1, <1>6 DEF SiteInv, TokenHeld
  <2>2. event = "open" \/ visitors[r].position <= serving
    BY <1>1, <2>1 DEF Due
  <2> QED
    BY <1>3, <1>4, <1>5, <2>2
<1>7. ASSUME ~wasOpen
      PROVE  serving' = serving
  <2>1. visitors[r].admitted \/ visitors[r].position <= serving
    BY <1>1, <1>7 DEF Due, SiteInv, Shut
  <2> QED
    BY <1>1, <1>3, <2>1 DEF ServingAfter
<1>8. serving' = serving \/ (serving' > serving /\ serving' \in Nat)
  BY <1>1, <1>3 DEF ServingAfter
<1>9. Placed' /\ HoldsTicket'
  BY <1>1, <1>2 DEF SiteInv, Placed, HoldsTicket
<1>10. Shut'
  <2> SUFFICES ASSUME ~wasOpen PROVE Shut'
    BY <1>1 DEF Shut
  <2>1. event # "open" /\ serving = called /\ \A q \in letIn : \E k \in tickets[q] : k <= called
    BY DEF SiteInv, Shut
  <2>2. \E k \in tickets[r] : k <= called
    <3>1. CASE r \in letIn
      BY <2>1, <3>1
    <3>2. CASE r \notin letIn
      BY <1>4, <1>6, <2>1, <3>2
    <3> QED
      BY <3>1, <3>2
  <2> QED
    BY <1>1, <1>7, <2>1, <2>2 DEF Shut
<1>11. TokenHeld'
  <2>1. \A u \in Tabs : u # t => tab'[u] = tab[u]
    BY <1>0 DEF Poll, RoomTypes
  <2>2. tab'[t].request = r
    BY <1>0 DEF Poll, RoomTypes, Tab
  <2> QED
    BY <1>1, <1>2, <2>1, <2>2 DEF SiteInv, TokenHeld
<1>12. CASE r \in letIn
  <2>1. letIn' = letIn
    BY <1>1, <1>12
  <2>2. ASSUME serving' = serving
        PROVE  LineStep
    BY <1>1, <2>1, <2>2 DEF LineStep, Line!vars
  <2>3. ASSUME serving' # serving
        PROVE  LineStep
    <3>1. Line!Call
      BY <1>1, <1>8, <2>1, <2>3 DEF Line!Call, Line!Forward
    <3> QED
      BY <3>1 DEF LineStep, Line!Next
  <2> QED
    BY <1>9, <1>10, <1>11, <2>2, <2>3 DEF SiteInv
<1>13. CASE r \notin letIn
  <2>1. Line!MayEnter(r)
    BY <1>4, <1>6, <1>13 DEF Line!MayEnter
  <2>2. UNCHANGED serving \/ (wasOpen /\ Line!Forward)
    BY <1>7, <1>8 DEF Line!Forward
  <2>3. Line!LetIn(r)
    BY <1>1, <1>13, <2>1, <2>2 DEF Line!LetIn
  <2> QED
    BY <1>3, <1>9, <1>10, <1>11, <2>3 DEF SiteInv, LineStep, Line!Next
<1> QED
  BY <1>12, <1>13

\* The page that starts, or starts over, holds no token.
LEMMA MainPhase ==
    ASSUME RoomTypes, NEW t \in Tabs, Main(t)
    PROVE  /\ tab'[t].phase \in {"polling", "challenge", "enrolling"}
           /\ \A u \in Tabs : u # t => tab'[u] = tab[u]
BY DEF Main, RoomTypes, Enrolling, In

\* No other step of a page gives it a token, or what it had is of the same request.
LEMMA PagePhases ==
    ASSUME RoomTypes, NEW t \in Tabs, TabStep(t) \/ TabFault(t), ~Poll(t)
    PROVE  \A u \in Tabs : tab'[u].phase \in {"leaving", "site"} =>
                tab[u].phase \in {"leaving", "site"} /\ tab'[u].request = tab[u].request
<1>1. CASE Open(t) \/ Reload(t) \/ EdgeRedirects(t)
  BY <1>1, MainPhase DEF Open, Reload, EdgeRedirects
<1>2. CASE Solve(t)
  BY <1>2 DEF Solve, Enrolling, In, RoomTypes
<1>4. CASE HandleBuffered(t)
  <2>1. PICK r \in Ids, fit \in BOOLEAN : tab' = [tab EXCEPT ![t] = In("answered", Assigned(t, r, fit))]
    BY <1>4 DEF HandleBuffered
  <2> QED
    BY <2>1 DEF In, RoomTypes
<1>5. CASE HandleKnown(t)
  <2>1. PICK q \in Filed(tab[t].session) : tab' = [tab EXCEPT ![t] =
                    In("answered", [request |-> q, session |-> tab[t].session])]
    BY <1>5 DEF HandleKnown
  <2> QED
    BY <2>1 DEF In, RoomTypes
<1>6. CASE HandleNew(t)
  <2>1. PICK r \in Ids : tab' = [tab EXCEPT ![t] = In("handled", Assigned(t, r, TRUE))]
    BY <1>6 DEF HandleNew
  <2> QED
    BY <2>1 DEF In, RoomTypes
<1>7. CASE HandleRefused(t) \/ AnswerLost(t) \/ ChallengeFails(t)
  <2>1. tab' = [tab EXCEPT ![t] = In("stopped", NoIds)]
    BY <1>7 DEF HandleRefused, AnswerLost, ChallengeFails
  <2> QED
    BY <2>1 DEF In, RoomTypes
<1>3. CASE Join(t) \/ EdgeLetsIn(t) \/ PollFails(t)
  BY <1>3 DEF Join, EdgeLetsIn, PollFails, RoomTypes, Tab
<1> QED
  BY <1>1, <1>2, <1>3, <1>4, <1>5, <1>6, <1>7 DEF TabStep, TabFault

\* The floodgates that are open were opened.
Opened == event = "open" => wasOpen

\* Every step keeps tickets and tokens in order, and is one of a queue of tickets.
LEMMA SiteNext ==
    ASSUME TypeOK, SiteInv, Opened, [Next]_vars
    PROVE  SiteInv' /\ Opened' /\ LineStep
<1>0. BufferTypes /\ RoomTypes
  BY TypeHalves
<1>1. ASSUME NEW t \in Tabs, TabStep(t) \/ TabFault(t)
      PROVE  SiteInv' /\ Opened' /\ LineStep
  <2>1. CASE Poll(t)
    BY <2>1, PollSite DEF Opened, Poll
  <2>2. CASE ~Poll(t)
    <3>1. UNCHANGED <<event, visitors, depth, tickets, letIn, serving, called, wasOpen>>
      BY <1>1, <2>2 DEF TabStep, TabFault, Open, Solve, HandleBuffered, Buffer, HandleKnown, HandleNew,
            HandleRefused, Join, EdgeLetsIn, EdgeRedirects, Reload, ChallengeFails, AnswerLost, PollFails,
            Main, bufferVars, storeVars, ghosts
    <3>2. \A c \in Callers : call'[c].step = "put" => call'[c] = call[c]
      <4>1. CASE HandleNew(t)
        <5>1. PICK r \in Ids \ drawn : LookupMisses(r, Assigned(t, r, TRUE))
          BY <4>1 DEF HandleNew
        <5>2. \A d \in Callers : call'[d] =
                    IF d = r THEN [step |-> "count", message |-> Assigned(t, r, TRUE), ticket |-> 0]
                             ELSE call[d]
          BY <1>0, <5>1, AssignedType, LookupType DEF Callers
        <5> QED
          BY <5>2
      <4>2. CASE ~HandleNew(t)
        <5>1. UNCHANGED call
          BY <1>1, <2>2, <4>2 DEF TabStep, TabFault, Open, Solve, HandleBuffered, Buffer, HandleKnown,
                HandleRefused, Join, EdgeLetsIn, EdgeRedirects, Reload, ChallengeFails, AnswerLost,
                PollFails, bufferVars
        <5> QED
          BY <5>1
      <4> QED
        BY <4>1, <4>2
    <3>3. \A u \in Tabs : tab'[u].phase \in {"leaving", "site"} =>
                tab[u].phase \in {"leaving", "site"} /\ tab'[u].request = tab[u].request
      BY <1>0, <1>1, <2>2, PagePhases
    <3> QED
      BY <3>1, <3>2, <3>3, SiteIdle DEF Opened
  <2> QED
    BY <2>1, <2>2
<1>2. ASSUME NEW w \in Workers, (WorkerStep(w) \/ WorkerFault(w)) /\ UNCHANGED roomVars
      PROVE  SiteInv' /\ Opened' /\ LineStep
  <2>0. w \in Callers /\ UNCHANGED <<tab, called, letIn, wasOpen>>
    BY <1>2 DEF Callers, roomVars, ghosts
  <2>1. CASE CallStep(w)
    <3>1. event' = event
      BY <2>1 DEF CallStep, Count, CountUnanswered, Put, PutError
    <3> QED
      BY <2>0, <2>1, <3>1, CallSite DEF Opened
  <2>2. CASE ~CallStep(w)
    <3>1. UNCHANGED <<event, visitors, depth, tickets, serving>>
      BY <1>2, <2>2 DEF WorkerStep, WorkerFault, CallStep, Receive, ReceiveAgain, EnrollRecord, Reject,
            Acknowledge, WorkerDies, storeVars
    <3>2. \A c \in Callers : call'[c].step = "put" => call'[c] = call[c]
      <4>1. CASE EnrollRecord(w)
        <5>1. PICK m \in batch[w].left : UNCHANGED call \/ LookupMisses(w, m)
          BY <4>1 DEF EnrollRecord
        <5>2. m \in Message
          <6>1. batch[w] \in Batch
            BY <1>0 DEF BufferTypes
          <6> QED
            BY <5>1, <6>1 DEF Batch
        <5>3. CASE LookupMisses(w, m)
          <6>1. \A d \in Callers : call'[d] =
                    IF d = w THEN [step |-> "count", message |-> m, ticket |-> 0] ELSE call[d]
            BY <1>0, <2>0, <5>2, <5>3, LookupType
          <6> QED
            BY <6>1
        <5> QED
          BY <5>1, <5>3
      <4>2. CASE Receive(w) \/ ReceiveAgain(w)
        BY <4>2 DEF Receive, ReceiveAgain
      <4>3. CASE Reject(w) \/ Acknowledge(w) \/ WorkerDies(w)
        <5>1. call' = [call EXCEPT ![w] = NoCall]
          BY <4>3 DEF Reject, Acknowledge, WorkerDies, EndBatch
        <5> QED
          BY <1>0, <5>1 DEF BufferTypes, NoCall
      <4> QED
        BY <1>2, <2>2, <4>1, <4>2, <4>3 DEF WorkerStep, WorkerFault, CallStep
    <3> QED
      BY <2>0, <3>1, <3>2, SiteIdle DEF Opened
  <2> QED
    BY <2>1, <2>2
<1>3. ASSUME NEW r \in Ids, HandlerStep(r)
      PROVE  SiteInv' /\ Opened' /\ LineStep
  <2>0. r \in Callers /\ UNCHANGED <<called, letIn, wasOpen>>
    BY <1>3 DEF Callers, HandlerStep, HandlerPuts, HandlerDies, roomVars, ghosts
  <2>1. \A t \in Tabs : tab'[t].phase \in {"leaving", "site"} =>
                tab[t].phase \in {"leaving", "site"} /\ tab'[t].request = tab[t].request
    <3>1. CASE UNCHANGED roomVars
      BY <3>1 DEF roomVars
    <3>2. CASE HandlerPuts(r) \/ HandlerDies(r)
      <4>1. \A t \in Tabs : tab'[t] = tab[t] \/ tab'[t].phase \in {"answered", "stopped"}
        BY <1>0, <3>2, AnswerType DEF HandlerPuts, HandlerDies, Phases
      <4> QED
        BY <4>1
    <3> QED
      BY <1>3, <3>1, <3>2 DEF HandlerStep
  <2>2. CASE CallStep(r)
    <3>1. event' = event
      BY <2>2 DEF CallStep, Count, CountUnanswered, Put, PutError
    <3> QED
      BY <2>0, <2>1, <2>2, <3>1, CallSite DEF Opened
  <2>3. CASE HandlerDies(r)
    <3>1. UNCHANGED <<event, visitors, depth, tickets, serving>>
          /\ call' = [call EXCEPT ![r] = NoCall]
      BY <2>3 DEF HandlerDies, storeVars
    <3>2. \A c \in Callers : call'[c].step = "put" => call'[c] = call[c]
      BY <1>0, <3>1 DEF BufferTypes, NoCall
    <3> QED
      BY <2>0, <2>1, <3>1, <3>2, SiteIdle DEF Opened
  <2> QED
    BY <1>3, <2>2, <2>3 DEF HandlerStep, HandlerPuts, CallStep
<1>4. ASSUME NEW r \in Ids, TokenExpires(r)
      PROVE  SiteInv' /\ Opened' /\ LineStep
  <2>1. UNCHANGED <<event, visitors, depth, tickets, letIn, serving, called, wasOpen, call, tab>>
    BY <1>4 DEF TokenExpires, storeVars, ghosts
  <2> QED
    BY <2>1, SiteIdle DEF Opened
<1>5. CASE Reaper
  <2>1. /\ UNCHANGED <<event, visitors, depth, tickets, letIn, wasOpen, call, tab>>
        /\ serving' = serving + 1 /\ called' = called + 1 /\ serving \in Nat /\ called \in Nat
    BY <1>0, <1>5 DEF Reaper, BufferTypes, RoomTypes
  <2>2. Placed' /\ HoldsTicket' /\ TokenHeld'
    BY <2>1 DEF SiteInv, Placed, HoldsTicket, TokenHeld
  <2>3. Shut'
    <3> SUFFICES ASSUME ~wasOpen, NEW r \in letIn
                 PROVE  \E n \in tickets[r] : n <= called + 1
      BY <2>1 DEF SiteInv, Shut
    <3>1. PICK n \in tickets[r] : n <= called
      BY DEF SiteInv, Shut
    <3>2. n \in Nat
      BY <1>0, <3>1 DEF BufferTypes, RoomTypes
    <3> QED
      BY <2>1, <3>1, <3>2
  <2>4. Line!Call
    BY <2>1 DEF Line!Call, Line!Forward
  <2> QED
    BY <2>1, <2>2, <2>3, <2>4 DEF SiteInv, Opened, LineStep, Line!Next
<1>6. CASE Operate /\ wasOpen' = (wasOpen \/ event' = "open")
                   /\ UNCHANGED <<deployment, tab, storage, expired, called, letIn>>
  <2>1. UNCHANGED <<visitors, depth, tickets, letIn, serving, called, call, tab>>
    BY <1>6 DEF Operate, storeVars
  <2>2. SiteInv' /\ Opened'
    BY <1>6, <2>1 DEF SiteInv, Placed, HoldsTicket, TokenHeld, Shut, Opened
  <2>3. CASE wasOpen' = wasOpen
    BY <2>1, <2>2, <2>3 DEF LineStep, Line!vars
  <2>4. CASE wasOpen' # wasOpen
    <3>1. ~wasOpen /\ wasOpen'
      BY <1>0, <1>6, <2>4 DEF RoomTypes
    <3>2. Line!Open
      BY <2>1, <3>1 DEF Line!Open
    <3> QED
      BY <2>2, <3>2 DEF LineStep, Line!Next
  <2> QED
    BY <2>3, <2>4
<1>7. CASE UNCHANGED vars
  <2>1. UNCHANGED <<event, visitors, depth, tickets, letIn, serving, called, wasOpen, call, tab>>
    BY <1>7 DEF vars, bufferVars, roomVars, storeVars, ghosts
  <2> QED
    BY <2>1, SiteIdle DEF Opened
<1> QED
  BY <1>1, <1>2, <1>3, <1>4, <1>5, <1>6, <1>7 DEF Next

LEMMA SiteStart == Init => SiteInv /\ Opened /\ Line!Init
<1> SUFFICES ASSUME Init PROVE SiteInv /\ Opened /\ Line!Init
  OBVIOUS
<1>1. /\ event = "running" /\ serving = 0 /\ called = 0 /\ DOMAIN visitors = {} /\ letIn = {}
      /\ depth = 0 /\ tickets = [r \in Ids |-> {}] /\ wasOpen = FALSE
      /\ \A c \in Callers : call[c].step = "idle"
      /\ \A t \in Tabs : tab[t].phase = "closed"
  BY DEF Init, BufferInit, In, NoCall
<1> QED
  BY <1>1 DEF SiteInv, Placed, HoldsTicket, Shut, TokenHeld, Opened, Line!Init

\* Unless the floodgates were opened, whoever the edge lets through drew a place
\* that the reaper has called, in every deployment and with every fault: also if
\* its item was overwritten by a place that is not called yet.
THEOREM SiteCalled == Spec => []SiteOnlyWhenCalled
<1>1. TypeOK /\ SiteInv /\ Opened /\ [Next]_vars => (TypeOK /\ SiteInv /\ Opened)'
  BY TypeNext, SiteNext
<1>2. SiteInv => SiteOnlyWhenCalled
  BY DEF SiteInv, Shut, TokenHeld, SiteOnlyWhenCalled
<1> QED
  BY <1>1, <1>2, TypeInit, SiteStart, PTL DEF Spec

\* The way of a visitor implements the queue of tickets: overlapping deliveries
\* count twice and overwrite each other's items, yet tickets are drawn one by one
\* and nobody is let in but on one of its own.
THEOREM RoomTickets == Spec => ImplementsTicketQueue
<1>1. TypeOK /\ SiteInv /\ Opened /\ [Next]_vars => (TypeOK /\ SiteInv /\ Opened)' /\ LineStep
  BY TypeNext, SiteNext
<1>2. Init => TypeOK /\ SiteInv /\ Opened /\ Line!Init
  BY TypeInit, SiteStart
<1> QED
  BY <1>1, <1>2, PTL DEF Spec, ImplementsTicketQueue, Line!Spec, LineStep

-----------------------------------------------------------------------------

\* A request that is on record, or in a message that was sent.
Joined(r) == r \in DOMAIN visitors \/ \E m \in sent : m.request = r

\* With a buffer and no challenge a browser has no session before its requests
\* do: every request is enrolled under a session of its own.
OwnSession ==
    deployment.buffered =>
        /\ \A m \in Known : m.session = m.request
        /\ \A r \in DOMAIN visitors : visitors[r].session = r
        /\ \A t \in Tabs : /\ tab[t].phase # "challenge"
                           /\ tab[t].phase = "enrolling" => tab[t].session = NoId

\* Without a buffer nothing is ever sent.
Synchronous == ~deployment.buffered => sent = {}

\* Pages and browsers hold requests that have joined.
Held ==
    /\ \A t \in Tabs : tab[t].phase \in {"answered", "polling", "leaving"} => Joined(tab[t].request)
    /\ \A b \in Browsers : storage[b] # NoIds => Joined(storage[b].request)

RoomInv == deployment \in Deployments /\ OwnSession /\ Synchronous /\ Held

PageInv == TypeOK /\ BufferInv /\ RoomInv

Apart == \A d \in Deployments : ~(d.buffered /\ d.challenge)

\* A request that has joined stays joined.
LEMMA JoinedGrows ==
    ASSUME Grown, sent \subseteq sent'
    PROVE  \A r : Joined(r) => Joined(r)'
BY DEF Grown, Joined

\* If nobody asks for anything new, no page comes to enroll, and those that get
\* an answer or poll name a request that has joined, all stays well.
LEMMA RoomIdle ==
    ASSUME PageInv, Grown, UNCHANGED <<sent, deployment, storage>>, Known' \subseteq Known,
           deployment.buffered => \A r \in DOMAIN visitors' : visitors'[r].session = r,
           \A t \in Tabs :
                \/ tab'[t] = tab[t]
                \/ /\ tab'[t].phase \notin {"challenge", "enrolling"}
                   /\ tab'[t].phase \in {"answered", "polling", "leaving"} =>
                        \E r : Joined(r)' /\ tab'[t].request = r
    PROVE  RoomInv'
<1>1. \A r : Joined(r) => Joined(r)'
  BY JoinedGrows
<1>2. OwnSession'
  BY DEF PageInv, RoomInv, OwnSession
<1>3. Held'
  BY <1>1 DEF PageInv, RoomInv, Held
<1> QED
  BY <1>2, <1>3 DEF PageInv, RoomInv, Synchronous

\* A page that starts, or starts over, polls a request that has joined; with a
\* buffer and no challenge it enrolls without a session.
LEMMA MainHolds ==
    ASSUME Apart, PageInv, NEW t \in Tabs, Main(t), UNCHANGED <<visitors, sent, call>>
    PROVE  RoomInv'
<1>0. RoomTypes /\ UNCHANGED <<deployment, storage>> /\ Known' = Known
  BY TypeHalves DEF PageInv, Main, Known
<1>1. \A u \in Tabs : u # t => tab'[u] = tab[u]
  BY <1>0 DEF Main, RoomTypes
<1>2. \A r : Joined(r)' <=> Joined(r)
  BY DEF Joined
<1>3. Stored(t) # NoIds => Joined(Stored(t).request)
  BY RoomAssumption DEF PageInv, RoomInv, Held, Stored
<1>4. tab'[t] = IF Stored(t) # NoIds THEN In("polling", Stored(t))
                ELSE IF deployment.challenge THEN In("challenge", NoIds) ELSE Enrolling(t)
  BY <1>0 DEF Main, RoomTypes
<1>5. tab'[t].phase \in {"answered", "polling", "leaving"} => Joined(tab'[t].request)
  BY <1>3, <1>4 DEF In, Enrolling
<1>6. ASSUME deployment.buffered
      PROVE  /\ tab'[t].phase # "challenge"
             /\ tab'[t].phase = "enrolling" => tab'[t].session = NoId
  <2>1. ~deployment.challenge
    BY <1>6 DEF Apart, PageInv, RoomInv
  <2> QED
    BY <1>4, <2>1 DEF In, Enrolling, NoIds
<1>7. Held'
  BY <1>0, <1>1, <1>2, <1>5 DEF PageInv, RoomInv, Held
<1>8. OwnSession'
  BY <1>0, <1>1, <1>6 DEF PageInv, RoomInv, OwnSession
<1> QED
  BY <1>0, <1>7, <1>8 DEF PageInv, RoomInv, Synchronous

\* What a handler sends or looks up, and whom it answers.
LEMMA HandlerHolds ==
    ASSUME PageInv, Grown, NEW t \in Tabs, HandleBuffered(t) \/ HandleKnown(t) \/ HandleNew(t)
    PROVE  RoomInv'
<1>0. BufferTypes /\ RoomTypes
  BY TypeHalves DEF PageInv
<1>1. CASE HandleBuffered(t)
  <2>1. PICK r \in Ids \ drawn, fit \in BOOLEAN :
            /\ Buffer(Assigned(t, r, fit))
            /\ tab' = [tab EXCEPT ![t] = In("answered", Assigned(t, r, fit))]
    BY <1>1 DEF HandleBuffered
  <2> DEFINE m == Assigned(t, r, fit)
  <2>2. /\ sent' = sent \cup {m} /\ call' = call
        /\ UNCHANGED <<visitors, deployment, storage>>
        /\ tab[t].phase = "enrolling" /\ deployment.buffered
    BY <1>1, <2>1 DEF HandleBuffered, Buffer, storeVars
  <2>3. m.request = r /\ m.session = r
    BY <2>2 DEF Assigned, PageInv, RoomInv, OwnSession
  <2>4. /\ \A u \in Tabs : u # t => tab'[u] = tab[u]
        /\ tab'[t].phase = "answered" /\ tab'[t].request = m.request
    BY <1>0, <2>1 DEF In, RoomTypes
  <2> HIDE DEF m
  <2>5. Known' \subseteq Known \cup {m}
    BY <2>2 DEF Known
  <2>6. \A q : Joined(q) => Joined(q)'
    BY <2>2, JoinedGrows
  <2>7. Joined(r)'
    BY <2>2, <2>3 DEF Joined
  <2>8. OwnSession'
    BY <2>2, <2>3, <2>4, <2>5 DEF PageInv, RoomInv, OwnSession
  <2>9. Held'
    BY <2>2, <2>3, <2>4, <2>6, <2>7 DEF PageInv, RoomInv, Held
  <2> QED
    BY <2>2, <2>8, <2>9 DEF PageInv, RoomInv, Synchronous
<1>2. CASE HandleKnown(t)
  <2>1. PICK q \in Filed(tab[t].session) : tab' = [tab EXCEPT ![t] =
                    In("answered", [request |-> q, session |-> tab[t].session])]
    BY <1>2 DEF HandleKnown
  <2>2. /\ ~deployment.buffered /\ UNCHANGED <<visitors, sent, call, deployment, storage>>
        /\ q \in DOMAIN visitors
    BY <1>2, <2>1 DEF HandleKnown, bufferVars, storeVars, Filed
  <2>3. /\ \A u \in Tabs : u # t => tab'[u] = tab[u]
        /\ tab'[t].phase = "answered" /\ tab'[t].request = q
    BY <1>0, <2>1 DEF In, RoomTypes
  <2>4. Known' = Known /\ Joined(q)'
    BY <2>2 DEF Known, Joined
  <2> QED
    BY <2>2, <2>3, <2>4, RoomIdle
<1>3. CASE HandleNew(t)
  <2>1. PICK r \in Ids \ drawn : tab' = [tab EXCEPT ![t] = In("handled", Assigned(t, r, TRUE))]
    BY <1>3 DEF HandleNew
  <2>2. ~deployment.buffered /\ UNCHANGED <<visitors, sent, deployment, storage>>
    BY <1>3 DEF HandleNew, storeVars
  <2>3. /\ \A u \in Tabs : u # t => tab'[u] = tab[u]
        /\ tab'[t].phase = "handled"
    BY <1>0, <2>1 DEF In, RoomTypes
  <2>4. Held'
    BY <2>2, <2>3 DEF PageInv, RoomInv, Held, Joined
  <2> QED
    BY <2>2, <2>4 DEF PageInv, RoomInv, OwnSession, Synchronous
<1> QED
  BY <1>1, <1>2, <1>3

\* The other steps of a page.
LEMMA PageHolds ==
    ASSUME Apart, PageInv, Grown, NEW t \in Tabs, TabStep(t) \/ TabFault(t)
    PROVE  RoomInv'
<1>0. BufferTypes /\ RoomTypes
  BY TypeHalves DEF PageInv
<1>1. CASE HandleBuffered(t) \/ HandleKnown(t) \/ HandleNew(t)
  BY <1>1, HandlerHolds
<1>2. CASE Open(t) \/ Reload(t) \/ EdgeRedirects(t)
  <2>1. Main(t) /\ UNCHANGED <<visitors, sent, call>>
    BY <1>2 DEF Open, Reload, EdgeRedirects, bufferVars, storeVars
  <2> QED
    BY <2>1, MainHolds
<1>3. CASE HandleRefused(t) \/ AnswerLost(t) \/ ChallengeFails(t) \/ EdgeLetsIn(t) \/ PollFails(t)
  <2>1. UNCHANGED <<visitors, sent, call, deployment, storage>>
    BY <1>3 DEF HandleRefused, AnswerLost, ChallengeFails, EdgeLetsIn, PollFails, bufferVars, storeVars
  <2>2. CASE HandleRefused(t) \/ AnswerLost(t) \/ ChallengeFails(t)
    <3>1. tab' = [tab EXCEPT ![t] = In("stopped", NoIds)]
      BY <2>2 DEF HandleRefused, AnswerLost, ChallengeFails
    <3>2. \A u \in Tabs : tab'[u] = tab[u] \/ tab'[u].phase = "stopped"
      BY <1>0, <3>1 DEF In, RoomTypes
    <3> QED
      BY <2>1, <3>2, RoomIdle DEF Known, PageInv, RoomInv, OwnSession
  <2>3. CASE EdgeLetsIn(t) \/ PollFails(t)
    <3>1. \A u \in Tabs : tab'[u] = tab[u] \/ tab'[u].phase \in {"stopped", "site"}
      BY <1>0, <2>3 DEF EdgeLetsIn, PollFails, RoomTypes, Tab
    <3> QED
      BY <2>1, <3>1, RoomIdle DEF Known, PageInv, RoomInv, OwnSession
  <2> QED
    BY <1>3, <2>2, <2>3
<1>4. CASE Poll(t)
  <2>1. UNCHANGED <<sent, call, deployment, storage>> /\ tab[t].phase = "polling"
    BY <1>4 DEF Poll
  <2>2. /\ DOMAIN visitors' = DOMAIN visitors
        /\ \A r \in DOMAIN visitors : visitors'[r].session = visitors[r].session
    BY <1>0, <1>4, PollShape
  <2>3. \A u \in Tabs : tab'[u] = tab[u] \/ (/\ u = t /\ tab'[u].phase = "leaving"
                                             /\ tab'[u].request = tab[u].request)
    BY <1>0, <1>4 DEF Poll, RoomTypes, Tab
  <2>4. \E r : Joined(r)' /\ tab[t].request = r
    <3>1. Joined(tab[t].request)
      BY <2>1 DEF PageInv, RoomInv, Held
    <3>2. \A r : Joined(r) => Joined(r)'
      BY <2>1, JoinedGrows
    <3> QED
      BY <3>1, <3>2
  <2>5. Known' = Known
    BY <2>1 DEF Known
  <2>6. deployment.buffered => \A r \in DOMAIN visitors' : visitors'[r].session = r
    BY <2>2 DEF PageInv, RoomInv, OwnSession
  <2> QED
    BY <2>1, <2>3, <2>4, <2>5, <2>6, RoomIdle
<1>5. CASE Solve(t)
  <2>1. /\ UNCHANGED <<visitors, sent, call, deployment, storage>>
        /\ tab' = [tab EXCEPT ![t] = Enrolling(t)] /\ tab[t].phase = "challenge"
    BY <1>5 DEF Solve, bufferVars, storeVars
  <2>2. ~deployment.buffered
    BY <2>1 DEF PageInv, RoomInv, OwnSession
  <2>3. \A u \in Tabs : tab'[u] = tab[u] \/ tab'[u].phase = "enrolling"
    BY <1>0, <2>1 DEF Enrolling, In, RoomTypes
  <2>4. Held'
    BY <2>1, <2>3 DEF PageInv, RoomInv, Held, Joined
  <2> QED
    BY <2>1, <2>2, <2>4 DEF PageInv, RoomInv, OwnSession, Synchronous
<1>6. CASE Join(t)
  <2>1. UNCHANGED <<visitors, sent, call, deployment>>
    BY <1>6 DEF Join, bufferVars, storeVars
  <2>2. Joined(tab[t].request)
    BY <1>6 DEF Join, PageInv, RoomInv, Held
  <2>3. \A u \in Tabs : tab'[u] = tab[u] \/ (/\ u = t /\ tab'[u].phase = "polling"
                                             /\ tab'[u].request = tab[u].request)
    BY <1>0, <1>6 DEF Join, RoomTypes, Tab
  <2>4. \A b \in Browsers : storage'[b] = storage[b] \/ storage'[b].request = tab[t].request
    BY <1>0, <1>6 DEF Join, RoomTypes
  <2>5. \A r : Joined(r)' <=> Joined(r)
    BY <2>1 DEF Joined
  <2>6. Held'
    BY <2>2, <2>3, <2>4, <2>5 DEF PageInv, RoomInv, Held
  <2>7. OwnSession'
    BY <2>1, <2>3 DEF PageInv, RoomInv, OwnSession, Known
  <2> QED
    BY <2>1, <2>6, <2>7 DEF PageInv, RoomInv, Synchronous
<1> QED
  BY <1>1, <1>2, <1>3, <1>4, <1>5, <1>6 DEF TabStep, TabFault

\* A call puts on record what was sent, or what its handler was asked.
LEMMA CallHolds ==
    ASSUME PageInv, NEW c \in Callers, CallStep(c)
    PROVE  /\ Known' \subseteq Known
           /\ deployment.buffered => \A r \in DOMAIN visitors' : visitors'[r].session = r
<1>0. BufferTypes
  BY TypeHalves DEF PageInv
<1>1. call[c] # NoCall /\ call[c].message \in Message
  BY <1>0, CallShape DEF CallStep, Count, CountUnanswered, Put, PutError
<1>2. call[c].message \in Known
  BY <1>1 DEF Known
<1>3. sent' = sent /\ \A d \in Callers : call'[d] # NoCall =>
                            call[d] # NoCall /\ call'[d].message = call[d].message
  <2>1. CASE Count(c)
    <3>1. /\ sent' = sent
          /\ call' = [call EXCEPT ![c] = [@ EXCEPT !.step = "put", !.ticket = depth + 1]]
      BY <2>1 DEF Count
    <3>2. call[c] \in Call
      BY <1>0, <2>1, CallShape DEF Count
    <3>3. [call[c] EXCEPT !.step = "put", !.ticket = depth + 1].message = call[c].message
      BY <3>2 DEF Call
    <3>4. \A d \in Callers : call'[d] = IF d = c THEN [call[c] EXCEPT !.step = "put", !.ticket = depth + 1]
                                        ELSE call[d]
      BY <1>0, <3>1 DEF BufferTypes
    <3> QED
      BY <1>1, <3>1, <3>3, <3>4
  <2>2. CASE CountUnanswered(c) \/ PutError(c)
    BY <2>2 DEF CountUnanswered, PutError
  <2>3. CASE Put(c)
    BY <1>0, <2>3 DEF Put, BufferTypes
  <2> QED
    BY <2>1, <2>2, <2>3 DEF CallStep
<1>4. Known' \subseteq Known
  BY <1>3 DEF Known
<1>5. ASSUME deployment.buffered, NEW r \in DOMAIN visitors'
      PROVE  visitors'[r].session = r
  <2>1. CASE Count(c) \/ CountUnanswered(c)
    BY <1>5, <2>1 DEF Count, CountUnanswered, PageInv, RoomInv, OwnSession
  <2>2. CASE Put(c) \/ PutError(c)
    <3>1. call[c].step = "put" /\ WriteVisitor(c)
      BY <2>2 DEF Put, PutError
    <3>2. /\ DOMAIN visitors' = DOMAIN visitors \cup {call[c].message.request}
          /\ \A q \in DOMAIN visitors : q # call[c].message.request => visitors'[q] = visitors[q]
          /\ visitors'[call[c].message.request].session = call[c].message.session
      BY <1>0, <3>1, WriteShape
    <3> QED
      BY <1>2, <1>5, <3>2 DEF PageInv, RoomInv, OwnSession
  <2> QED
    BY <2>1, <2>2 DEF CallStep
<1> QED
  BY <1>4, <1>5

\* Workers enroll what was sent.
LEMMA WorkerHolds ==
    ASSUME PageInv, Grown, NEW w \in Workers, WorkerStep(w) \/ WorkerFault(w), UNCHANGED roomVars
    PROVE  RoomInv'
<1>0. BufferTypes /\ Carried /\ w \in Callers
  BY TypeHalves DEF PageInv, BufferInv, Callers
<1>1. UNCHANGED <<sent, deployment, tab, storage>>
  BY DEF WorkerStep, WorkerFault, Receive, ReceiveAgain, EnrollRecord, Count, CountUnanswered, Put,
         PutError, Reject, Acknowledge, WorkerDies, roomVars
<1>2. /\ Known' \subseteq Known
      /\ deployment.buffered => \A r \in DOMAIN visitors' : visitors'[r].session = r
  <2>1. CASE CallStep(w)
    BY <1>0, <2>1, CallHolds
  <2>2. CASE EnrollRecord(w)
    <3>1. visitors' = visitors
      BY <2>2 DEF EnrollRecord, storeVars
    <3>2. PICK m \in batch[w].left : UNCHANGED call \/ LookupMisses(w, m)
      BY <2>2 DEF EnrollRecord
    <3>3. m \in sent /\ m \in Message
      BY <1>0, <3>2 DEF Carried, BufferTypes
    <3>4. CASE UNCHANGED call
      BY <1>1, <3>1, <3>4 DEF Known, PageInv, RoomInv, OwnSession
    <3>5. CASE LookupMisses(w, m)
      <4>1. \A d \in Callers : call'[d] = IF d = w THEN [step |-> "count", message |-> m, ticket |-> 0]
                                          ELSE call[d]
        BY <1>0, <3>3, <3>5, LookupType
      <4>2. \A d \in Callers : call'[d] = call[d] \/ call'[d].message = m
        BY <4>1
      <4>3. Known' \subseteq Known
        BY <1>1, <3>3, <4>2 DEF Known
      <4> QED
        BY <3>1, <4>3 DEF PageInv, RoomInv, OwnSession
    <3> QED
      BY <3>2, <3>4, <3>5
  <2>3. CASE Receive(w) \/ ReceiveAgain(w)
    <3>1. UNCHANGED <<visitors, call>>
      BY <2>3 DEF Receive, ReceiveAgain, storeVars
    <3> QED
      BY <1>1, <3>1 DEF Known, PageInv, RoomInv, OwnSession
  <2>4. CASE Reject(w) \/ Acknowledge(w) \/ WorkerDies(w)
    <3>1. visitors' = visitors /\ call' = [call EXCEPT ![w] = NoCall]
      BY <2>4 DEF Reject, Acknowledge, WorkerDies, EndBatch, storeVars
    <3>2. \A d \in Callers : call'[d] # NoCall => call'[d] = call[d]
      BY <1>0, <3>1 DEF BufferTypes
    <3>3. Known' \subseteq Known
      BY <1>1, <3>2 DEF Known
    <3> QED
      BY <3>1, <3>3 DEF PageInv, RoomInv, OwnSession
  <2> QED
    BY <2>1, <2>2, <2>3, <2>4 DEF WorkerStep, WorkerFault, CallStep
<1> QED
  BY <1>1, <1>2, RoomIdle

\* A handler that is through has put on record the request it answers with.
LEMMA HandlerStepHolds ==
    ASSUME PageInv, Grown, NEW r \in Ids, HandlerStep(r)
    PROVE  RoomInv'
<1>0. BufferTypes /\ RoomTypes /\ OwnCall /\ r \in Callers
  BY TypeHalves DEF PageInv, BufferInv, Callers
<1>1. UNCHANGED <<deployment, storage, sent>>
  BY DEF HandlerStep, HandlerPuts, HandlerDies, Count, CountUnanswered, Put, PutError, roomVars
<1>2. CASE HandlerDies(r)
  <2>1. /\ visitors' = visitors /\ call' = [call EXCEPT ![r] = NoCall] /\ Answer(r, "stopped")
    BY <1>2 DEF HandlerDies, storeVars
  <2>2. \A d \in Callers : call'[d] # NoCall => call'[d] = call[d]
    BY <1>0, <2>1 DEF BufferTypes
  <2>3. Known' \subseteq Known
    BY <1>1, <2>2 DEF Known
  <2>4. \A t \in Tabs : tab'[t] = tab[t] \/ tab'[t].phase = "stopped"
    BY <1>0, <2>1, AnswerType DEF Phases
  <2> QED
    BY <1>1, <2>1, <2>3, <2>4, RoomIdle DEF PageInv, RoomInv, OwnSession
<1>3. CASE CallStep(r)
  <2>1. /\ Known' \subseteq Known
        /\ deployment.buffered => \A q \in DOMAIN visitors' : visitors'[q].session = q
    BY <1>0, <1>3, CallHolds
  <2>2. CASE HandlerPuts(r)
    <3>1. call[r].step = "put" /\ WriteVisitor(r) /\ Answer(r, "answered")
      BY <2>2 DEF HandlerPuts, Put
    <3>2. call[r].message.request = r
      BY <1>0, <3>1, CallShape DEF OwnCall
    <3>3. r \in DOMAIN visitors'
      BY <1>0, <3>1, <3>2, WriteShape
    <3>4. Joined(r)'
      BY <3>3 DEF Joined
    <3>5. \A t \in Tabs : tab'[t] = tab[t] \/ (tab'[t].phase = "answered" /\ tab'[t].request = r)
      BY <1>0, <3>1, AnswerType DEF Phases
    <3> QED
      BY <1>1, <2>1, <3>4, <3>5, RoomIdle
  <2>3. CASE UNCHANGED roomVars
    BY <1>1, <2>1, <2>3, RoomIdle DEF roomVars
  <2>4. CASE HandlerDies(r)
    BY <1>2, <2>4
  <2> QED
    BY <2>2, <2>3, <2>4 DEF HandlerStep
<1> QED
  BY <1>2, <1>3 DEF HandlerStep, HandlerPuts, CallStep

LEMMA PageNext ==
    ASSUME Apart, PageInv, [Next]_vars
    PROVE  PageInv'
<1>0. TypeOK' /\ BufferInv' /\ Grown
  BY TypeNext, BufferNext DEF PageInv
<1>1. ASSUME NEW t \in Tabs, TabStep(t) \/ TabFault(t)
      PROVE  RoomInv'
  BY <1>0, <1>1, PageHolds
<1>2. ASSUME NEW w \in Workers, (WorkerStep(w) \/ WorkerFault(w)) /\ UNCHANGED roomVars
      PROVE  RoomInv'
  BY <1>0, <1>2, WorkerHolds
<1>3. ASSUME NEW r \in Ids, HandlerStep(r)
      PROVE  RoomInv'
  BY <1>0, <1>3, HandlerStepHolds
<1>4. ASSUME \/ \E r \in Ids : TokenExpires(r)
             \/ Reaper
             \/ Operate /\ UNCHANGED <<deployment, tab, storage>>
             \/ UNCHANGED vars
      PROVE  RoomInv'
  <2>1. UNCHANGED <<visitors, sent, call, tab, deployment, storage>>
    BY <1>4 DEF TokenExpires, Reaper, Operate, vars, bufferVars, roomVars, storeVars
  <2>2. Known' = Known
    BY <2>1 DEF Known
  <2> QED
    BY <1>0, <2>1, <2>2, RoomIdle DEF PageInv, RoomInv, OwnSession
<1> QED
  BY <1>0, <1>1, <1>2, <1>3, <1>4 DEF Next, PageInv

LEMMA PageStart == Init => PageInv
<1> SUFFICES ASSUME Init PROVE PageInv
  OBVIOUS
<1>1. TypeOK /\ BufferInv /\ deployment \in Deployments
  BY TypeInit, BufferStart DEF Init
<1>2. \A t \in Tabs : tab[t].phase = "closed"
  BY DEF Init, In
<1>3. sent = {} /\ DOMAIN visitors = {} /\ \A b \in Browsers : storage[b] = NoIds
  BY DEF Init, BufferInit
<1>4. Known = {}
  BY DEF Init, BufferInit, Known
<1> QED
  BY <1>1, <1>2, <1>3, <1>4 DEF PageInv, RoomInv, OwnSession, Synchronous, Held

\* Where no deployment has both a buffer and a challenge, the request that a
\* page polls is on record or in a message on the queue, whatever fails.  The
\* assumption is needed: WaitingRoomChallenge shows a page that polls for ever.
THEOREM PolledComing ==
    ASSUME Apart
    PROVE  Spec => []PolledIsComing
<1>1. PageInv => PolledIsComing
  <2> SUFFICES ASSUME PageInv, NEW t \in Tabs, tab[t].phase = "polling",
                      tab[t].request \notin DOMAIN visitors
               PROVE  \E m \in buffer : m.request = tab[t].request
    BY DEF PolledIsComing
  <2>1. PICK m \in sent : m.request = tab[t].request
    BY DEF PageInv, RoomInv, Held, Joined
  <2>2. deployment.buffered
    BY <2>1 DEF PageInv, RoomInv, Synchronous
  <2>3. Filed(m.session) = {}
    BY <2>1, <2>2 DEF PageInv, RoomInv, OwnSession, Known, Filed
  <2>4. m \in buffer
    BY <2>1, <2>3 DEF PageInv, BufferInv, AcceptedIsKept
  <2> QED
    BY <2>1, <2>4
<1>2. PageInv /\ [Next]_vars => PageInv'
  BY PageNext
<1> QED
  BY <1>1, <1>2, PageStart, PTL DEF Spec

=============================================================================
