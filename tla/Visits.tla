------------------------------- MODULE Visits -------------------------------
(***************************************************************************)
(* A room with several events.  A browser comes to the waiting room from   *)
(* the edge, which sends it to the default event; on its own, and is told  *)
(* the room's active event; or by a link that names an event.  It enrolls  *)
(* once, keeps its request id for every later visit, polls, and takes the  *)
(* admit token it is given to the edge, which knows one signing key.       *)
(*                                                                         *)
(* Tabs and the enroll buffer are the subject of WaitingRoom and stay out: *)
(* a browser keeps the one request id whose answer reached it, and a       *)
(* visitor whose answer was lost is polled by nobody.  The floodgates and  *)
(* the requests within one poll stay out too: see DynamoQueue.             *)
(***************************************************************************)
EXTENDS Naturals, FiniteSets

CONSTANTS
    Events,
    Default,        \* defaultEventId, of the page's and the edge's configuration
    Browsers,
    Faults,         \* what goes wrong in this instance
    MaxLine,        \* bound: how many turns each event counts
    MaxKey,         \* bound: how many signing keys there are
    MaxServing,     \* bound: the reaper stops once serving has got this far
    MaxFailures     \* bound: how often something goes wrong

\* switch   the operator changes the active event
\* links    visitors follow links that name an event
\* rotate   the signing secret is rotated, and the stack deployed
\* expire   tokens expire
\* ttl      TTL deletes visitors
\* enrollError, pollError  a request of the page fails
AllFaults == {"switch", "links", "rotate", "expire", "ttl", "enrollError", "pollError"}

ASSUME VisitsAssumption ==
    /\ Default \in Events
    /\ Faults \subseteq AllFaults
    /\ MaxKey \in Nat \ {0} /\ {MaxLine, MaxServing, MaxFailures} \subseteq Nat

VARIABLES
    active,         \* Rooms item: activeEventId
    activeCached,   \* what a cached answer of active-event may still say
    line,           \* the sum of each event's shard counters
    tickets,        \* history: the turns that each browser's enrolls drew there
    serving,        \* its serving counter
    place,          \* the position each browser was given, 0 where it was not
    present,        \* the visitors' items: <<event, browser>>
    token,          \* the admit token on an item
    secret,         \* the signing key in Secrets Manager
    edge,           \* the signing key baked into the edge's configuration
    stored,         \* the browsers that keep a request id in local storage
    page,           \* where each browser is
    failures        \* how often something has gone wrong

room == <<active, activeCached>>
queue == <<line, tickets, serving, place, present>>
keys == <<secret, edge>>
browser == <<stored, page>>
vars == <<room, queue, token, keys, browser, failures>>

Keys == 1 .. MaxKey

\* A token is the key it was signed with, as long as it lasts.  Its claims name
\* its event and its request, but no verifier here looks at them.
NoToken == 0
Expired == MaxKey + 1
Token == Keys \cup {NoToken, Expired}

\* "enroll" and "poll" are the page's two requests, of which the first has drawn
\* its ticket when "counted"; "site" is on its way to the site with a token, "in"
\* is let through; "error" does nothing more, whether the page says so or not.
Page == [at : {"away", "enroll", "counted", "poll", "error", "site", "in"},
         event : Events, token : Token, ticket : Nat]

Init ==
    /\ active = Default
    /\ activeCached = Default
    /\ line = [e \in Events |-> 0]
    /\ tickets = [e \in Events |-> [b \in Browsers |-> {}]]
    /\ serving = [e \in Events |-> 0]
    /\ place = [e \in Events |-> [b \in Browsers |-> 0]]
    /\ present = {}
    /\ token = [e \in Events |-> [b \in Browsers |-> NoToken]]
    /\ secret = 1
    /\ edge = 1
    /\ stored = {}
    /\ page = [b \in Browsers |-> [at |-> "away", event |-> Default, token |-> NoToken, ticket |-> 0]]
    /\ failures = 0

Fails(fault) ==
    /\ fault \in Faults
    /\ failures < MaxFailures
    /\ failures' = failures + 1

-----------------------------------------------------------------------------

\* main with a stored request id polls it, whatever event it is for.
Main(b, e) ==
    /\ page' = [page EXCEPT ![b] =
            [at |-> IF b \in stored THEN "poll" ELSE "enroll",
             event |-> e, token |-> NoToken, ticket |-> 0]]
    /\ UNCHANGED <<room, queue, token, keys, stored>>

\* A redirect to the site that is under way is followed, and an enroll is waited
\* for: that its answer finds nobody there is one of its failures.
Settled(b) == page[b].at \notin {"counted", "site"}

\* A visit to the site without a token: the edge redirects, whatever is active.
VisitSite(b) == Settled(b) /\ Main(b, Default) /\ UNCHANGED failures

\* active_event: the room's, or an answer that a browser has cached for up to 30
\* seconds.
ActiveEvent == {active, activeCached}

\* resolveEventId: the active event, or the configured one when the room has none
\* or the request fails.
ResolvedEvent == ActiveEvent \cup {Default}

\* A visit to the waiting room itself.
VisitRoom(b) ==
    /\ Settled(b)
    /\ \E e \in ResolvedEvent : Main(b, e)
    /\ UNCHANGED failures

VisitLink(b) ==
    /\ Fails("links")
    /\ Settled(b)
    /\ \E e \in Events : Main(b, e)

\* DynamoDbStore::enroll, up to its ADD on a shard of the event.
Count(b) ==
    /\ page[b].at = "enroll"
    /\ LET e == page[b].event IN
        /\ line[e] < MaxLine
        /\ line' = [line EXCEPT ![e] = @ + 1]
        /\ tickets' = [tickets EXCEPT ![e][b] = @ \cup {line[e] + 1}]
        /\ page' = [page EXCEPT ![b].at = "counted", ![b].ticket = line[e] + 1]
    /\ UNCHANGED <<room, serving, place, present, token, keys, stored, failures>>

\* Faulty variant: the sum may miss the shard that was just added to.
PlacesSoFar(b) == 1 .. line[page[b].event]

\* The positions an enroll may have summed up.
Places(b) == page[b].ticket .. line[page[b].event]

\* ... its PUT, and the 201: the page stores its ids and begins to poll.
Put(b) ==
    /\ page[b].at = "counted"
    /\ LET e == page[b].event IN
        /\ \E n \in Places(b) : place' = [place EXCEPT ![e][b] = n]
        /\ present' = present \cup {<<e, b>>}
    /\ stored' = stored \cup {b}
    /\ page' = [page EXCEPT ![b].at = "poll", ![b].ticket = 0]
    /\ UNCHANGED <<room, line, tickets, serving, token, keys, failures>>

\* Faulty variant: the page keeps the ids that it sent, although it was turned
\* away.
RefusedButStored(b) ==
    /\ page[b].at = "enroll"
    /\ stored' = stored \cup {b}
    /\ page' = [page EXCEPT ![b].at = "error"]
    /\ UNCHANGED <<room, queue, token, keys, failures>>

\* enroll is turned away, and so is its page.
Refused(b) ==
    /\ page[b].at = "enroll"
    /\ page' = [page EXCEPT ![b].at = "error"]
    /\ UNCHANGED <<room, queue, token, keys, stored, failures>>

\* enroll fails after its ADD, or its answer does not reach the page.
EnrollFails(b) ==
    /\ Fails("enrollError")
    /\ page[b].at = "counted"
    /\ page' = [page EXCEPT ![b].at = "error", ![b].ticket = 0]
    /\ UNCHANGED <<room, queue, token, keys, stored>>

\* An instance of a function loads the signing key when it starts and signs with
\* it until it ends: it may have started under any key so far.
LoadedKeys == 1 .. secret

\* Faulty variant: visitors are found by request id alone.
FoundAnywhere(e, b) == \E d \in Events : <<d, b>> \in present

\* Visitors are found by event and request id.
Found(e, b) == <<e, b>> \in present

\* Faulty variant: a visitor has to wait until the one behind it is called.
MaybeAdmitLate(e, b) ==
    /\ Found(e, b)
    /\ \/ /\ token[e][b] # NoToken
          /\ UNCHANGED token
       \/ /\ token[e][b] = NoToken
          /\ place[e][b] < serving[e]
          /\ \E k \in LoadedKeys : token' = [token EXCEPT ![e][b] = k]
    /\ UNCHANGED <<room, queue, keys>>

\* maybe_admit: once called, a visitor gets a token, and keeps it for ever.
MaybeAdmit(e, b) ==
    /\ Found(e, b)
    /\ \/ /\ token[e][b] # NoToken
          /\ UNCHANGED token
       \/ /\ token[e][b] = NoToken
          /\ place[e][b] <= serving[e]
          /\ \E k \in LoadedKeys : token' = [token EXCEPT ![e][b] = k]
    /\ UNCHANGED <<room, queue, keys>>

\* Faulty variant: the answer is the item as it was read, before it was signed.
PollUnsigned(b) ==
    /\ page[b].at = "poll"
    /\ MaybeAdmit(page[b].event, b)
    /\ page' = [page EXCEPT ![b].at = "site", ![b].token = token[page[b].event][b]]
    /\ UNCHANGED <<stored, failures>>

\* A poll whose answer holds a token: the page goes to the site with it.  Any
\* other answer, a 404 too, and it will poll again.
Poll(b) ==
    /\ page[b].at = "poll"
    /\ MaybeAdmit(page[b].event, b)
    /\ page' = [page EXCEPT ![b].at = "site", ![b].token = token'[page[b].event][b]]
    /\ UNCHANGED <<stored, failures>>

\* A poll fails, and with it the loop: nothing but another visit starts it again.
PollFails(b) ==
    /\ Fails("pollError")
    /\ page[b].at = "poll"
    /\ page' = [page EXCEPT ![b].at = "error"]
    /\ UNCHANGED <<room, queue, token, keys, stored>>

\* The admit route, for clients other than the page.
Admit(e, b) == MaybeAdmit(e, b) /\ UNCHANGED <<browser, failures>>

\* The edge checks the signature and the expiry, and neither event nor request.
Verifies(t) == t = edge

LetThrough(b) ==
    /\ page[b].at = "site"
    /\ Verifies(page[b].token)
    /\ page' = [page EXCEPT ![b].at = "in", ![b].token = NoToken]
    /\ UNCHANGED <<room, queue, token, keys, stored, failures>>

SendBack(b) ==
    /\ page[b].at = "site"
    /\ ~Verifies(page[b].token)
    /\ Main(b, Default)
    /\ UNCHANGED failures

\* The serving reaper's tick of one event.
ReaperTick(e) ==
    /\ serving[e] < MaxServing
    /\ serving' = [serving EXCEPT ![e] = @ + 1]
    /\ UNCHANGED <<room, line, tickets, place, present, token, keys, browser, failures>>

\* set active event
SetActive ==
    /\ Fails("switch")
    /\ active' \in Events
    /\ UNCHANGED <<activeCached, queue, token, keys, browser>>

CacheExpires ==
    /\ activeCached' = active
    /\ UNCHANGED <<active, queue, token, keys, browser, failures>>

Rotate ==
    /\ Fails("rotate")
    /\ secret < MaxKey
    /\ secret' = secret + 1
    /\ UNCHANGED <<room, queue, token, edge, browser>>

\* The edge is deployed with the new key; no function is started again for it.
DeployEdge ==
    /\ edge' = secret
    /\ UNCHANGED <<room, queue, token, secret, browser, failures>>

\* A token expires, on its item and on its way.
Expire(e, b) ==
    /\ Fails("expire")
    /\ token[e][b] \in Keys
    /\ token' = [token EXCEPT ![e][b] = Expired]
    /\ page' = [page EXCEPT ![b].token = IF page[b].event = e /\ @ # NoToken THEN Expired ELSE @]
    /\ UNCHANGED <<room, queue, keys, stored>>

\* TTL deletes a visitor, and its token with it.
Vanish(e, b) ==
    /\ Fails("ttl")
    /\ Found(e, b)
    /\ present' = present \ {<<e, b>>}
    /\ UNCHANGED <<room, line, tickets, serving, place, token, keys, browser>>

Browse(b) ==
    \/ VisitSite(b) \/ VisitRoom(b) \/ VisitLink(b)
    \/ Count(b) \/ Put(b) \/ Refused(b) \/ EnrollFails(b)
    \/ Poll(b) \/ PollFails(b) \/ LetThrough(b) \/ SendBack(b)

Next ==
    \/ \E b \in Browsers : Browse(b)
    \/ \E e \in Events, b \in Browsers : Admit(e, b) \/ Expire(e, b) \/ Vanish(e, b)
    \/ \E e \in Events : ReaperTick(e)
    \/ SetActive \/ CacheExpires \/ Rotate \/ DeployEdge

Spec == Init /\ [][Next]_vars

\* Pages poll again unless a poll fails, and follow redirects; the reaper ticks.
Fairness ==
    /\ \A b \in Browsers : WF_vars(Poll(b)) /\ WF_vars(LetThrough(b)) /\ WF_vars(SendBack(b))
    /\ \A e \in Events : WF_vars(ReaperTick(e))

FairSpec == Spec /\ Fairness

-----------------------------------------------------------------------------

\* Room, lines, keys and browsers hold values of their types, and nobody is on
\* the way to the site without a token.
TypeOK ==
    /\ active \in Events /\ activeCached \in Events
    /\ line \in [Events -> Nat] /\ serving \in [Events -> Nat]
    /\ tickets \in [Events -> [Browsers -> SUBSET Nat]]
    /\ place \in [Events -> [Browsers -> Nat]]
    /\ present \subseteq Events \X Browsers
    /\ token \in [Events -> [Browsers -> Token]]
    /\ secret \in Keys /\ edge \in Keys
    /\ stored \subseteq Browsers
    /\ page \in [Browsers -> Page]
    /\ failures \in Nat
    /\ \A b \in Browsers : page[b].at = "site" => page[b].token # NoToken

\* Whoever the edge lets through was enrolled in the event its token came from
\* and called there, though the edge looks at neither: a request id is good for
\* no event but its own, however many a browser visits.
LetInByOwnEvent ==
    \A b \in Browsers : page[b].at \in {"site", "in"} =>
        place[page[b].event][b] \in 1 .. serving[page[b].event]

\* Whoever polls has a place: a page that asks its event for a request that it
\* was never sent belongs to a browser that stands in the line of another event.
PollerHasPlace ==
    \A b \in Browsers : page[b].at = "poll" => \E e \in Events : place[e][b] > 0

\* One event, as TicketQueue has it.  A token that was spent, or that TTL took, was
\* held all the same.
LineOf(e) == INSTANCE TicketQueue WITH
    Visitors <- Browsers,
    issued <- line[e],
    held <- tickets[e],
    letIn <- {b \in Browsers : token[e][b] # NoToken},
    serving <- serving[e],
    wasOpen <- FALSE

\* Every event of a room keeps a queue of tickets of its own, whichever events its
\* visitors go to and come back from, whatever happens to keys and tokens, and
\* although visitors that join at once may share a position.
EachEventTickets ==
    /\ \A e \in Events : LineOf(e)!Init
    /\ [][\A e \in Events : [LineOf(e)!Next]_(LineOf(e)!vars)]_vars

\* The token on an item is not one that the edge accepts.
Spent(e, b) == token[e][b] # NoToken /\ ~Verifies(token[e][b])

\* A visitor whose page polls the event that knows it gets through to the site,
\* unless a poll fails, TTL takes its item, or its token is spent.
GetsThrough ==
    \A b \in Browsers :
        page[b].at = "poll" /\ Found(page[b].event, b)
            ~> \/ page[b].at \in {"in", "error"}
               \/ ~Found(page[b].event, b)
               \/ Spent(page[b].event, b)

=============================================================================
