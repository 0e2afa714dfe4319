---------------------------- MODULE WaitingRoom ----------------------------
(***************************************************************************)
(* The way of a visitor: the waiting room page in one or more tabs of a    *)
(* browser, the queue behind it with or without an enroll buffer, and the  *)
(* edge in front of the protected site.  The tabs of a browser share its   *)
(* local storage and cookie, which the page always writes together; what a *)
(* script does between two awaits is one step.                             *)
(*                                                                         *)
(* A poll that is answered "not yet", and one that is answered 404, leave  *)
(* everything as it was and are not actions.                               *)
(***************************************************************************)
EXTENDS EnrollBuffer

CONSTANTS
    Tabs,
    Browsers,
    BrowserOf,      \* the browser a tab belongs to
    Deployments,    \* the configurations to look at
    NoId,
    MaxLead         \* bound: how far the reaper runs ahead of the line

\* buffered: ENROLL_VIA_SQS.  challenge: the page shows a Turnstile challenge.
Deployment == [buffered : BOOLEAN, challenge : BOOLEAN]

ASSUME RoomAssumption ==
    /\ BrowserOf \in [Tabs -> Browsers]
    /\ Deployments \subseteq Deployment
    /\ NoId \notin Ids
    /\ MaxLead \in Nat \ {0}

VARIABLES
    deployment,
    tab,        \* what each tab shows, and the ids it works with
    storage,    \* what each browser has stored: ids, or nothing yet
    expired,    \* the request ids whose token has expired
    called,     \* history: the places that the reaper has called
    letIn,      \* history: the requests that were given a token
    wasOpen     \* history: whether the floodgates were ever open

ghosts == <<called, letIn, wasOpen>>
roomVars == <<deployment, tab, storage, expired, ghosts>>
vars == <<bufferVars, roomVars>>

NoIds == [request |-> NoId, session |-> NoId]

\* closed     not opened yet                challenge  solving the captcha
\* enrolling  the enroll is on its way      handled    a handler is enrolling it
\* answered   its answer is on its way back
\* polling    in the loop                   leaving    on the way to the site, with a token
\* site       let through by the edge       stopped    shows an error and does nothing more
Phases == {"closed", "challenge", "enrolling", "handled", "answered", "polling", "leaving",
           "site", "stopped"}
Tab == [phase : Phases,
        request : Ids \cup {NoId}, session : Ids \cup {NoId}]

In(phase, ids) == [phase |-> phase, request |-> ids.request, session |-> ids.session]

Init ==
    /\ BufferInit
    /\ deployment \in Deployments
    /\ tab = [t \in Tabs |-> In("closed", NoIds)]
    /\ storage = [b \in Browsers |-> NoIds]
    /\ expired = {}
    /\ called = 0
    /\ letIn = {}
    /\ wasOpen = FALSE

-----------------------------------------------------------------------------

Stored(t) == storage[BrowserOf[t]]

\* enroll sends the session that the browser knows by now, if it knows one.
Enrolling(t) == In("enrolling", [request |-> NoId, session |-> Stored(t).session])

\* main: whoever has a request id polls it; the others join.
Main(t) ==
    /\ tab' = [tab EXCEPT ![t] =
            IF Stored(t) # NoIds THEN In("polling", Stored(t))
            ELSE IF deployment.challenge THEN In("challenge", NoIds) ELSE Enrolling(t)]
    /\ UNCHANGED <<deployment, storage, expired, ghosts>>

Open(t) ==
    /\ tab[t].phase = "closed"
    /\ Main(t)
    /\ UNCHANGED bufferVars

Reload(t) ==
    /\ Fails("reload")
    /\ tab[t].phase \in {"challenge", "enrolling", "handled", "answered", "polling", "stopped"}
    /\ Main(t)
    /\ UNCHANGED <<event, storeVars, drawn, buffer, sent, batch, call>>

Solve(t) ==
    /\ tab[t].phase = "challenge"
    /\ tab' = [tab EXCEPT ![t] = Enrolling(t)]
    /\ UNCHANGED <<bufferVars, deployment, storage, expired, ghosts>>

\* The captcha is not solved in time, or the handler finds that it was not.
ChallengeFails(t) ==
    /\ Fails("challengeFails")
    /\ tab[t].phase \in {"challenge", "enrolling"} /\ deployment.challenge
    /\ tab' = [tab EXCEPT ![t] = In("stopped", NoIds)]
    /\ UNCHANGED <<event, storeVars, drawn, buffer, sent, batch, call, deployment, storage, expired, ghosts>>

\* Faulty variant: only the request id is assigned before the message is sent.
AssignedRequest(t, r, fit) == [request |-> r, session |-> tab[t].session, fit |-> fit]

\* The ids of an enroll: its session unless it has none, and a new request.
Assigned(t, r, fit) ==
    [request |-> r, session |-> IF tab[t].session = NoId THEN r ELSE tab[t].session, fit |-> fit]

\* handle_enroll, buffered: 202, whatever the worker will say to the record.
HandleBuffered(t) ==
    /\ tab[t].phase = "enrolling" /\ deployment.buffered
    /\ \E r \in Ids \ drawn, fit \in BOOLEAN :
        /\ IF fit THEN UNCHANGED failures ELSE Fails("unfit")
        /\ Buffer(Assigned(t, r, fit))
        /\ tab' = [tab EXCEPT ![t] = In("answered", Assigned(t, r, fit))]
    /\ UNCHANGED <<deployment, storage, expired, ghosts>>

\* handle_enroll, synchronous: 201 with the ids of a visitor that is found ...
HandleKnown(t) ==
    /\ tab[t].phase = "enrolling" /\ ~deployment.buffered /\ Running
    /\ \E q \in Filed(tab[t].session) :
        tab' = [tab EXCEPT ![t] = In("answered", [request |-> q, session |-> tab[t].session])]
    /\ UNCHANGED <<bufferVars, deployment, storage, expired, ghosts>>

\* ... or the handler goes on to enroll a new one, and the page waits for it.
HandleNew(t) ==
    /\ tab[t].phase = "enrolling" /\ ~deployment.buffered
    /\ \E r \in Ids \ drawn :
        /\ LookupMisses(r, Assigned(t, r, TRUE))
        /\ drawn' = drawn \cup {r}
        /\ tab' = [tab EXCEPT ![t] = In("handled", Assigned(t, r, TRUE))]
    /\ UNCHANGED <<event, storeVars, buffer, sent, batch, deployment, storage, expired, ghosts>>

\* The tabs that wait for the handler that drew a request id turn to a phase.
Answer(r, phase) ==
    tab' = [t \in Tabs |-> IF tab[t].phase = "handled" /\ tab[t].request = r
                           THEN [tab[t] EXCEPT !.phase = phase] ELSE tab[t]]

\* The handler's PUT is the last it does: 201.
HandlerPuts(r) ==
    /\ Put(r)
    /\ Answer(r, "answered")
    /\ UNCHANGED <<deployment, storage, expired, ghosts>>

\* A request of the handler fails, or the handler dies: the page shows an error.
HandlerDies(r) ==
    /\ Fails("dies")
    /\ call[r] # NoCall
    /\ call' = [call EXCEPT ![r] = NoCall]
    /\ Answer(r, "stopped")
    /\ UNCHANGED <<event, storeVars, drawn, buffer, sent, batch, deployment, storage, expired, ghosts>>

HandlerStep(r) ==
    \/ (Count(r) \/ CountUnanswered(r) \/ PutError(r)) /\ UNCHANGED roomVars
    \/ HandlerPuts(r)
    \/ HandlerDies(r)

\* The store turns a synchronous enroll away and the page says so.
HandleRefused(t) ==
    /\ tab[t].phase = "enrolling" /\ ~deployment.buffered
    /\ IF Running THEN Fails("unfit") ELSE UNCHANGED failures
    /\ tab' = [tab EXCEPT ![t] = In("stopped", NoIds)]
    /\ UNCHANGED <<event, storeVars, drawn, buffer, sent, batch, call, deployment, storage, expired, ghosts>>

\* The answer arrives: the page stores both ids and starts to poll.
Join(t) ==
    /\ tab[t].phase = "answered"
    /\ storage' = [storage EXCEPT ![BrowserOf[t]] =
            [request |-> tab[t].request, session |-> tab[t].session]]
    /\ tab' = [tab EXCEPT ![t].phase = "polling"]
    /\ UNCHANGED <<bufferVars, deployment, expired, ghosts>>

AnswerLost(t) ==
    /\ Fails("answerLost")
    /\ tab[t].phase \in {"handled", "answered"}
    /\ tab' = [tab EXCEPT ![t] = In("stopped", NoIds)]
    /\ UNCHANGED <<event, storeVars, drawn, buffer, sent, batch, call, deployment, storage, expired, ghosts>>

\* Faulty variant: the next position is let in before it is called.
DueNext(r) ==
    visitors[r].admitted \/ event = "open" \/ visitors[r].position <= serving + 1

Due(r) ==
    visitors[r].admitted \/ event = "open" \/ visitors[r].position <= serving

\* Faulty variant: the counter is set to the place of whoever is let in.
ServingSet(r) == visitors[r].position

\* An early admission takes the serving counter along.
ServingAfter(r) ==
    IF ~visitors[r].admitted /\ visitors[r].position > serving THEN visitors[r].position
                                                               ELSE serving

\* A poll that finds its visitor due: maybe_admit, and the page leaves with the
\* token on record, or a new one; whoever is still on the way with an older token
\* of the same request is taken to hold the new one.
Poll(t) ==
    /\ tab[t].phase = "polling"
    /\ LET r == tab[t].request
       IN  /\ r \in DOMAIN visitors
           /\ Due(r)
           /\ visitors' = [visitors EXCEPT ![r].admitted = TRUE]
           /\ serving' = ServingAfter(r)
           /\ expired' = IF visitors[r].admitted THEN expired ELSE expired \ {r}
           /\ letIn' = letIn \cup {r}
    /\ tab' = [tab EXCEPT ![t].phase = "leaving"]
    /\ UNCHANGED <<event, depth, tickets, drawn, buffer, sent, batch, call, failures>>
    /\ UNCHANGED <<deployment, storage, called, wasOpen>>

\* A poll fails, and with it the loop: nothing starts it again.
PollFails(t) ==
    /\ Fails("pollError")
    /\ tab[t].phase = "polling"
    /\ tab' = [tab EXCEPT ![t].phase = "stopped"]
    /\ UNCHANGED <<event, storeVars, drawn, buffer, sent, batch, call, deployment, storage, expired, ghosts>>

\* The edge lets a token through unless it has expired.
EdgeLetsIn(t) ==
    /\ tab[t].phase = "leaving"
    /\ tab[t].request \notin expired
    /\ tab' = [tab EXCEPT ![t].phase = "site"]
    /\ UNCHANGED <<bufferVars, deployment, storage, expired, ghosts>>

\* ... and sends the others to the waiting room, where the page starts over.
EdgeRedirects(t) ==
    /\ tab[t].phase = "leaving"
    /\ tab[t].request \in expired
    /\ Main(t)
    /\ UNCHANGED bufferVars

TokenExpires(r) ==
    /\ Fails("tokenExpires")
    /\ r \in letIn
    /\ expired' = expired \cup {r}
    /\ UNCHANGED <<event, storeVars, drawn, buffer, sent, batch, call, deployment, tab, storage, ghosts>>

\* The reaper calls the next place.
Reaper ==
    /\ serving < depth + MaxLead
    /\ serving' = serving + 1
    /\ called' = called + 1
    /\ UNCHANGED <<event, depth, visitors, tickets, drawn, buffer, sent, batch, call, failures>>
    /\ UNCHANGED <<deployment, tab, storage, expired, letIn, wasOpen>>

TabStep(t) ==
    \/ Open(t) \/ Solve(t) \/ HandleBuffered(t) \/ HandleKnown(t) \/ HandleNew(t)
    \/ HandleRefused(t) \/ Join(t) \/ Poll(t) \/ EdgeLetsIn(t) \/ EdgeRedirects(t)

TabFault(t) == Reload(t) \/ ChallengeFails(t) \/ AnswerLost(t) \/ PollFails(t)

Next ==
    \/ \E t \in Tabs : TabStep(t) \/ TabFault(t)
    \/ \E w \in Workers : (WorkerStep(w) \/ WorkerFault(w)) /\ UNCHANGED roomVars
    \/ \E r \in Ids : HandlerStep(r) \/ TokenExpires(r)
    \/ Reaper
    \/ Operate /\ wasOpen' = (wasOpen \/ event' = "open")
               /\ UNCHANGED <<deployment, tab, storage, expired, called, letIn>>

Spec == Init /\ [][Next]_vars

\* Pages keep polling and following redirects, SQS keeps delivering, workers
\* keep working and EventBridge keeps ticking.
Fairness ==
    /\ \A t \in Tabs : WF_vars(Poll(t)) /\ WF_vars(EdgeLetsIn(t))
    /\ \A w \in Workers : WF_vars(WorkerStep(w) /\ UNCHANGED roomVars)
    /\ WF_vars(Reaper)

FairSpec == Spec /\ Fairness

-----------------------------------------------------------------------------

\* All state holds values of its types.
TypeOK ==
    /\ event \in {"running", "paused", "open"}
    /\ depth \in Nat /\ serving \in Nat /\ failures \in Nat
    /\ DOMAIN visitors \subseteq Ids
    /\ \A r \in DOMAIN visitors : visitors[r] \in Item
    /\ drawn \subseteq Ids
    /\ buffer \subseteq Message /\ sent \subseteq Message
    /\ batch \in [Workers -> Batch]
    /\ call \in [Callers -> Call \cup {NoCall}]
    /\ tickets \in [Ids -> SUBSET Nat]
    /\ deployment \in Deployment
    /\ tab \in [Tabs -> Tab]
    /\ storage \in [Browsers -> [request : Ids \cup {NoId}, session : Ids \cup {NoId}]]
    /\ expired \subseteq Ids
    /\ called \in Nat /\ letIn \subseteq Ids /\ wasOpen \in BOOLEAN

\* An enroll that was accepted is never lost: until its session has a visitor,
\* its message is on the queue, whatever happens to the workers.
AcceptedIsKept == \A m \in sent : m \in buffer \/ Filed(m.session) # {}

\* "Still enrolling" is true: the request a page polls is on record, or the
\* message that will put it there is on the queue.
PolledIsComing ==
    \A t \in Tabs : tab[t].phase = "polling" =>
        \/ tab[t].request \in DOMAIN visitors
        \/ \E m \in buffer : m.request = tab[t].request

\* Unless the floodgates were opened, whoever gets to the site had its turn: it
\* drew a place that the reaper has called, whatever place was recorded for it later.
SiteOnlyWhenCalled ==
    ~wasOpen => \A t \in Tabs : tab[t].phase = "site" =>
        \E n \in tickets[tab[t].request] : n <= called

\* The queue behind the pages, its visitors named by their request ids.
Line == INSTANCE TicketQueue WITH
    Visitors <- Ids,
    issued <- depth,
    held <- tickets

\* Whatever reloads, lost answers, redelivered messages, repeated requests and
\* half-done batches do to an enroll: tickets are drawn one after the other, the
\* serving counter never falls, and nobody gets a token but on a ticket of its own.
ImplementsTicketQueue == Line!Spec

\* A page that polls reaches the site, or shows that something went wrong, unless
\* the operator leaves the queue paused, its token expires on the way, or a
\* record that the store always refuses is on the queue.
EventuallyServed ==
    <>[](event # "paused") =>
        \A t \in Tabs : tab[t].phase = "polling" ~>
            \/ tab[t].phase \in {"site", "stopped"}
            \/ tab[t].request \in expired
            \/ \E m \in buffer : ~m.fit

=============================================================================
