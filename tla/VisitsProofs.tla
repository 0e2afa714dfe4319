---------------------------- MODULE VisitsProofs ----------------------------
(***************************************************************************)
(* What a room with several events guarantees, for any number of events,   *)
(* browsers and signing keys, and whatever goes wrong.                     *)
(*                                                                         *)
(* The argument: a browser enrolls only while it keeps no request id, and  *)
(* it keeps one for ever once it is given a place, so no place is ever     *)
(* given anew (Placed), and none lies before every turn its browser drew   *)
(* (Ticketed).  A token is only signed for a place that was called         *)
(* (Called), and a page only goes to the site with one that its own event  *)
(* has on an item of its own.                                              *)
(***************************************************************************)
EXTENDS Visits, TLAPS

\* A browser that keeps an id has a place somewhere, and one that does not has none.
Placed ==
    \A b \in Browsers : IF b \in stored THEN \E e \in Events : place[e][b] > 0
                                        ELSE \A e \in Events : place[e][b] = 0

\* Who is about to enroll keeps no id, and who polls keeps one.
Paged ==
    \A b \in Browsers : /\ page[b].at \in {"enroll", "counted"} => b \notin stored
                        /\ page[b].at = "poll" => b \in stored

\* An enroll that has counted holds its ticket, and whoever has a place drew one
\* that is not behind it.
Ticketed ==
    /\ \A b \in Browsers : page[b].at = "counted" =>
            page[b].ticket > 0 /\ page[b].ticket \in tickets[page[b].event][b]
    /\ \A e \in Events, b \in Browsers : place[e][b] > 0 =>
            \E n \in tickets[e][b] : n <= place[e][b]

\* Items are of visitors with a place, and tokens of those that were called.
Called ==
    \A e \in Events, b \in Browsers :
        /\ <<e, b>> \in present => place[e][b] > 0
        /\ token[e][b] # NoToken => place[e][b] \in 1 .. serving[e]

IInv == TypeOK /\ Placed /\ Paged /\ Ticketed /\ Called /\ LetInByOwnEvent

\* Tokens and keys are numbers.
LEMMA TokenKinds ==
  /\ Expired \in Token /\ Expired # NoToken /\ NoToken \in Token
  /\ \A k \in Keys : k \in Token /\ k # NoToken
BY VisitsAssumption DEF Token, Keys, Expired, NoToken

\* The invariant holds before anybody has come.
LEMMA VisitsInit == Init => IInv
<1> SUFFICES ASSUME Init PROVE IInv
  OBVIOUS
<1>1. \A b \in Browsers : page[b] \in Page /\ page[b].at = "away"
  BY TokenKinds, VisitsAssumption DEF Init, Page
<1>2. TypeOK
  BY <1>1, TokenKinds, VisitsAssumption DEF Init, TypeOK, Keys
<1> QED BY <1>1, <1>2 DEF Init, IInv, Placed, Paged, Ticketed, Called, LetInByOwnEvent

-----------------------------------------------------------------------------

\* Opening a page of some event keeps the invariant.
LEMMA MainKeeps ==
  ASSUME IInv, NEW b \in Browsers, NEW e \in Events, Main(b, e), failures' \in Nat
  PROVE  IInv'
<1> USE DEF IInv, TypeOK
<1>1. /\ page'[b] = [at |-> IF b \in stored THEN "poll" ELSE "enroll",
                 event |-> e, token |-> NoToken, ticket |-> 0]
      /\ \A c \in Browsers \ {b} : page'[c] = page[c]
      /\ page' \in [Browsers -> Page]
      /\ UNCHANGED <<room, queue, token, keys, stored>>
  BY TokenKinds DEF Main, Page
<1>2. /\ page'[b].at \in {"poll", "enroll"}
      /\ page'[b].at = "poll" <=> b \in stored
  BY <1>1
<1>3. UNCHANGED <<active, activeCached, line, tickets, serving, place, present, token, secret, edge, stored>>
  BY <1>1 DEF room, queue, keys
<1>4. TypeOK'
  BY <1>1, <1>2, <1>3
<1>5. Placed' /\ Called'
  BY <1>3 DEF Placed, Called
<1>6. Paged' /\ Ticketed' /\ LetInByOwnEvent'
  BY <1>1, <1>2, <1>3 DEF Paged, Ticketed, LetInByOwnEvent
<1> QED BY <1>4, <1>5, <1>6

\* A turn that is counted belongs to the enroll that counted it.
LEMMA CountKeeps ==
  ASSUME IInv, NEW b \in Browsers, Count(b)
  PROVE  IInv'
<1> USE DEF IInv, TypeOK
<1> DEFINE e == page[b].event
<1> DEFINE n == line[e] + 1
<1>1. e \in Events /\ page[b] \in Page /\ page[b].at = "enroll" /\ n \in Nat /\ n > 0
  BY DEF Count, Page
<1>2. /\ line' = [line EXCEPT ![e] = n]
      /\ tickets' = [tickets EXCEPT ![e][b] = @ \cup {n}]
      /\ page' = [page EXCEPT ![b].at = "counted", ![b].ticket = n]
      /\ UNCHANGED <<room, serving, place, present, token, keys, stored, failures>>
  BY DEF Count
<1> HIDE DEF n
<1>3. /\ tickets' \in [Events -> [Browsers -> SUBSET Nat]] /\ line' \in [Events -> Nat]
      /\ n \in tickets'[e][b]
      /\ \A d \in Events, c \in Browsers : tickets[d][c] \subseteq tickets'[d][c]
  BY <1>1, <1>2
<1>4. /\ page'[b].at = "counted" /\ page'[b].event = e /\ page'[b].token = page[b].token
      /\ page'[b].ticket = n
      /\ \A c \in Browsers \ {b} : page'[c] = page[c]
      /\ page' \in [Browsers -> Page]
  BY <1>1, <1>2 DEF Page
<1>5. TypeOK'
  BY <1>2, <1>3, <1>4 DEF room, keys
<1>6. Placed' /\ Paged' /\ Called' /\ LetInByOwnEvent'
  BY <1>1, <1>2, <1>4 DEF Placed, Paged, Called, LetInByOwnEvent
<1>7. Ticketed'
  <2>1. \A c \in Browsers : page'[c].at = "counted" =>
            page'[c].ticket > 0 /\ page'[c].ticket \in tickets'[page'[c].event][c]
    <3>1. \A c \in Browsers : page[c].event \in Events
      BY DEF Page
    <3> QED BY <1>1, <1>3, <1>4, <3>1 DEF Ticketed
  <2>2. \A d \in Events, c \in Browsers : place'[d][c] > 0 =>
            \E k \in tickets'[d][c] : k <= place'[d][c]
    BY <1>2, <1>3 DEF Ticketed
  <2> QED BY <2>1, <2>2 DEF Ticketed
<1> QED BY <1>5, <1>6, <1>7

\* A PUT keeps it: the browser had no place, so none is lost.
LEMMA PutKeeps ==
  ASSUME IInv, NEW b \in Browsers, Put(b)
  PROVE  IInv'
<1> USE DEF IInv, TypeOK
<1> DEFINE e == page[b].event
<1>1. e \in Events /\ page[b] \in Page /\ page[b].at = "counted" /\ b \notin stored
  BY DEF Put, Page, Paged
<1>2. PICK n \in Places(b) : place' = [place EXCEPT ![e][b] = n]
  BY DEF Put
<1>3. /\ present' = present \cup {<<e, b>>}
      /\ stored' = stored \cup {b}
      /\ page' = [page EXCEPT ![b].at = "poll", ![b].ticket = 0]
      /\ UNCHANGED <<room, line, tickets, serving, token, keys, failures>>
  BY DEF Put
<1>4. n \in Nat /\ n > 0 /\ page[b].ticket <= n /\ page[b].ticket \in tickets[e][b]
  <2>1. page[b].ticket \in Nat /\ page[b].ticket > 0 /\ page[b].ticket \in tickets[e][b]
    BY <1>1 DEF Ticketed, Page
  <2>2. line[e] \in Nat
    BY <1>1
  <2> QED BY <1>2, <2>1, <2>2 DEF Places
<1>5. ASSUME NEW d \in Events PROVE place[d][b] = 0 /\ token[d][b] = NoToken
  <2>1. place[d][b] = 0 /\ serving[d] \in Nat
    BY <1>1 DEF Placed
  <2>2. place[d][b] \notin 1 .. serving[d]
    BY <2>1
  <2> QED BY <2>1, <2>2 DEF Called
<1>6. /\ place'[e][b] = n
      /\ \A d \in Events, c \in Browsers : ~(d = e /\ c = b) => place'[d][c] = place[d][c]
      /\ place' \in [Events -> [Browsers -> Nat]]
  BY <1>1, <1>2, <1>4
<1>7. /\ page'[b].at = "poll" /\ page'[b].token = page[b].token
      /\ \A c \in Browsers \ {b} : page'[c] = page[c]
      /\ page' \in [Browsers -> Page]
  BY <1>1, <1>3 DEF Page
<1>8. TypeOK'
  BY <1>1, <1>3, <1>6, <1>7 DEF room, keys
<1>9. Placed' /\ Paged' /\ Ticketed'
  BY <1>1, <1>3, <1>4, <1>6, <1>7 DEF Placed, Paged, Ticketed
<1>10. Called'
  BY <1>1, <1>3, <1>4, <1>5, <1>6 DEF Called
<1>11. LetInByOwnEvent'
  <2>1. ASSUME NEW c \in Browsers, page'[c].at \in {"site", "in"}
        PROVE  place'[page'[c].event][c] \in 1 .. serving'[page'[c].event]
    <3>1. c # b /\ page'[c] = page[c]
      BY <1>7, <2>1
    <3>2. page[c].event \in Events
      BY DEF Page
    <3>3. place'[page[c].event][c] = place[page[c].event][c] /\ serving' = serving
      BY <1>3, <1>6, <3>1, <3>2 DEF queue
    <3> QED BY <2>1, <3>1, <3>3 DEF LetInByOwnEvent
  <2> QED BY <2>1 DEF LetInByOwnEvent
<1> QED BY <1>8, <1>9, <1>10, <1>11

\* What maybe_admit does: it signs for a visitor that was called, or leaves all as it is.
LEMMA AdmitEffect ==
  ASSUME IInv, NEW e \in Events, NEW b \in Browsers, MaybeAdmit(e, b)
  PROVE  /\ token' \in [Events -> [Browsers -> Token]]
         /\ token'[e][b] # NoToken
         /\ place[e][b] \in 1 .. serving[e]
         /\ \A d \in Events, c \in Browsers : ~(d = e /\ c = b) => token'[d][c] = token[d][c]
         /\ UNCHANGED <<room, queue, keys>>
<1> USE DEF IInv, TypeOK
<1>1. place[e][b] > 0 /\ place[e][b] \in Nat /\ serving[e] \in Nat
  BY DEF MaybeAdmit, Found, Called
<1>2. UNCHANGED <<room, queue, keys>>
  BY DEF MaybeAdmit
<1>3. CASE token[e][b] # NoToken /\ UNCHANGED token
  BY <1>2, <1>3 DEF Called
<1>4. CASE /\ place[e][b] <= serving[e]
           /\ \E k \in LoadedKeys : token' = [token EXCEPT ![e][b] = k]
  <2>1. PICK k \in LoadedKeys : token' = [token EXCEPT ![e][b] = k]
    BY <1>4
  <2>2. k \in Keys
    BY VisitsAssumption DEF LoadedKeys, Keys
  <2>3. /\ token'[e][b] = k
        /\ token' \in [Events -> [Browsers -> Token]]
        /\ \A d \in Events, c \in Browsers : ~(d = e /\ c = b) => token'[d][c] = token[d][c]
    BY <2>1, <2>2, TokenKinds
  <2> QED BY <1>1, <1>2, <1>4, <2>2, <2>3, TokenKinds
<1> QED BY <1>3, <1>4 DEF MaybeAdmit

\* An execution of maybe_admit keeps all but what is said of pages.
LEMMA AdmitKeeps ==
  ASSUME IInv, NEW e \in Events, NEW b \in Browsers, MaybeAdmit(e, b), UNCHANGED stored
  PROVE  Placed' /\ Called'
<1>1. UNCHANGED <<line, tickets, serving, place, present>>
  BY AdmitEffect DEF queue
<1> QED BY <1>1, AdmitEffect DEF IInv, Placed, Called

\* A poll that is answered with a token keeps the invariant.
LEMMA PollKeeps ==
  ASSUME IInv, NEW b \in Browsers, Poll(b)
  PROVE  IInv'
<1> USE DEF IInv, TypeOK
<1> DEFINE e == page[b].event
<1>1. e \in Events /\ page[b] \in Page /\ MaybeAdmit(e, b)
      /\ UNCHANGED <<stored, failures>>
  BY DEF Poll, Page
<1>2. /\ token' \in [Events -> [Browsers -> Token]]
      /\ token'[e][b] # NoToken
      /\ place[e][b] \in 1 .. serving[e]
      /\ UNCHANGED <<active, activeCached, line, tickets, serving, place, present, secret, edge>>
  BY <1>1, AdmitEffect DEF room, queue, keys
<1>3. page' = [page EXCEPT ![b].at = "site", ![b].token = token'[e][b]]
  BY DEF Poll
<1> DEFINE t == token'[e][b]
<1>4. t \in Token /\ t # NoToken
  BY <1>1, <1>2
<1> HIDE DEF t
<1>5. /\ page'[b].at = "site" /\ page'[b].event = e /\ page'[b].token = t
      /\ page' \in [Browsers -> Page]
      /\ \A c \in Browsers \ {b} : page'[c] = page[c]
  <2>1. page' = [page EXCEPT ![b].at = "site", ![b].token = t]
    BY <1>3 DEF t
  <2> QED BY <1>1, <1>4, <2>1 DEF Page
<1>6. TypeOK'
  BY <1>1, <1>2, <1>4, <1>5
<1>7. Paged' /\ Ticketed' /\ LetInByOwnEvent'
  BY <1>1, <1>2, <1>5 DEF Paged, Ticketed, LetInByOwnEvent
<1> QED BY <1>1, <1>6, <1>7, AdmitKeeps

\* A token that expires is still one.
LEMMA ExpireKeeps ==
  ASSUME IInv, NEW e \in Events, NEW b \in Browsers, Expire(e, b)
  PROVE  IInv'
<1> USE DEF IInv, TypeOK
<1>1. /\ token' = [token EXCEPT ![e][b] = Expired]
      /\ token[e][b] # NoToken
      /\ UNCHANGED <<active, activeCached, line, tickets, serving, place, present, secret, edge, stored>>
      /\ failures' \in Nat
  BY TokenKinds DEF Expire, Fails, room, queue, keys
<1>2. /\ token' \in [Events -> [Browsers -> Token]]
      /\ \A d \in Events, c \in Browsers : token'[d][c] # NoToken => token[d][c] # NoToken
  BY <1>1, TokenKinds
<1>3. PICK t \in {page[b].token, Expired} :
          /\ page' = [page EXCEPT ![b].token = t]
          /\ t = Expired \/ t = page[b].token
  BY DEF Expire
<1>4. /\ page'[b].at = page[b].at /\ page'[b].event = page[b].event /\ page'[b].token = t
      /\ page'[b].ticket = page[b].ticket
      /\ page'[b] \in Page
      /\ \A c \in Browsers \ {b} : page'[c] = page[c]
  BY <1>3, TokenKinds DEF Page
<1>5. page' \in [Browsers -> Page]
  BY <1>3, <1>4
<1>6. TypeOK'
  BY <1>1, <1>2, <1>3, <1>4, <1>5, TokenKinds
<1>7. \A c \in Browsers : /\ page'[c].at = page[c].at /\ page'[c].event = page[c].event
                          /\ page'[c].ticket = page[c].ticket
  BY <1>4
<1>8. Placed' /\ Called'
  BY <1>1, <1>2 DEF Placed, Called
<1>9. Paged' /\ Ticketed' /\ LetInByOwnEvent'
  BY <1>1, <1>7 DEF Paged, Ticketed, LetInByOwnEvent
<1> QED BY <1>6, <1>8, <1>9

\* Every step keeps the invariant.
LEMMA VisitsNext ==
  ASSUME IInv, [Next]_vars
  PROVE  IInv'
<1> USE DEF room, queue, keys, browser
<1>1. ASSUME NEW b \in Browsers, Browse(b) PROVE IInv'
  <2>1. CASE VisitSite(b) \/ VisitRoom(b) \/ VisitLink(b) \/ SendBack(b)
    <3>1. (\E e \in Events : Main(b, e)) /\ failures' \in Nat
      BY <2>1, VisitsAssumption DEF VisitSite, VisitRoom, VisitLink, SendBack, ResolvedEvent,
                                   ActiveEvent, Fails, IInv, TypeOK
    <3> QED BY <3>1, MainKeeps
  <2>2. CASE Count(b) \/ Put(b)
    BY <2>2, CountKeeps, PutKeeps
  <2>3. CASE Poll(b)
    BY <2>3, PollKeeps
  <2>4. CASE Refused(b) \/ EnrollFails(b) \/ PollFails(b)
    <3>1. /\ page'[b].at = "error" /\ page' \in [Browsers -> Page]
          /\ \A c \in Browsers \ {b} : page'[c] = page[c]
          /\ UNCHANGED <<room, queue, token, keys, stored>> /\ failures' \in Nat
      <4>1. page \in [Browsers -> Page] /\ page[b] \in Page /\ failures \in Nat
        BY DEF IInv, TypeOK
      <4>2. CASE Refused(b) \/ PollFails(b)
        <5>1. /\ page' = [page EXCEPT ![b].at = "error"]
              /\ UNCHANGED <<room, queue, token, keys, stored>> /\ failures' \in Nat
          BY <4>1, <4>2 DEF Refused, PollFails, Fails
        <5> QED BY <4>1, <5>1 DEF Page
      <4>3. CASE EnrollFails(b)
        <5>1. /\ page' = [page EXCEPT ![b].at = "error", ![b].ticket = 0]
              /\ UNCHANGED <<room, queue, token, keys, stored>> /\ failures' \in Nat
          BY <4>1, <4>3 DEF EnrollFails, Fails
        <5> QED BY <4>1, <5>1 DEF Page
      <4> QED BY <2>4, <4>2, <4>3
    <3> QED BY <3>1 DEF IInv, TypeOK, Placed, Paged, Ticketed, Called, LetInByOwnEvent
  <2>5. CASE LetThrough(b)
    <3>1. /\ page'[b].at = "in" /\ page'[b].event = page[b].event /\ page' \in [Browsers -> Page]
          /\ \A c \in Browsers \ {b} : page'[c] = page[c]
      BY <2>5, TokenKinds DEF LetThrough, Page, IInv, TypeOK
    <3> QED BY <2>5, <3>1 DEF LetThrough, IInv, TypeOK, Placed, Paged, Ticketed, Called, LetInByOwnEvent
  <2> QED BY <1>1, <2>1, <2>2, <2>3, <2>4, <2>5 DEF Browse
<1>2. ASSUME NEW e \in Events, NEW b \in Browsers, Admit(e, b) PROVE IInv'
  <2>1. /\ MaybeAdmit(e, b) /\ UNCHANGED <<stored, page, failures>>
    BY <1>2 DEF Admit
  <2>2. /\ token' \in [Events -> [Browsers -> Token]]
        /\ UNCHANGED <<active, activeCached, line, tickets, serving, place, present, secret, edge>>
    BY <2>1, AdmitEffect
  <2>3. Placed' /\ Called'
    BY <2>1, AdmitKeeps
  <2> QED BY <2>1, <2>2, <2>3 DEF IInv, TypeOK, Paged, Ticketed, LetInByOwnEvent
<1>3. ASSUME NEW e \in Events, NEW b \in Browsers, Expire(e, b) PROVE IInv'
  BY <1>3, ExpireKeeps
<1>4. ASSUME NEW e \in Events, NEW b \in Browsers, Vanish(e, b) PROVE IInv'
  BY <1>4 DEF Vanish, Fails, IInv, TypeOK, Placed, Paged, Ticketed, Called, LetInByOwnEvent
<1>5. ASSUME NEW e \in Events, ReaperTick(e) PROVE IInv'
  <2>1. /\ serving' \in [Events -> Nat]
        /\ \A d \in Events : serving[d] <= serving'[d]
    BY <1>5 DEF ReaperTick, IInv, TypeOK
  <2>2. \A d \in Events, n \in Nat : n \in 1 .. serving[d] => n \in 1 .. serving'[d]
    BY <2>1 DEF IInv, TypeOK
  <2>3. \A b \in Browsers : page[b].event \in Events
    BY DEF IInv, TypeOK, Page
  <2>4. TypeOK' /\ Placed' /\ Paged' /\ Ticketed'
    BY <1>5, <2>1 DEF ReaperTick, IInv, TypeOK, Placed, Paged, Ticketed
  <2>5. Called' /\ LetInByOwnEvent'
    BY <1>5, <2>2, <2>3 DEF ReaperTick, IInv, TypeOK, Called, LetInByOwnEvent
  <2> QED BY <2>4, <2>5 DEF IInv
<1>6. CASE SetActive \/ CacheExpires \/ DeployEdge
  BY <1>6 DEF SetActive, CacheExpires, DeployEdge, Fails, IInv, TypeOK, Placed, Paged, Ticketed, Called, LetInByOwnEvent
<1>7. CASE Rotate
  <2>1. secret' \in Keys /\ failures' \in Nat
    BY <1>7, VisitsAssumption DEF Rotate, Fails, Keys, IInv, TypeOK
  <2> QED BY <1>7, <2>1 DEF Rotate, IInv, TypeOK, Placed, Paged, Ticketed, Called, LetInByOwnEvent
<1>8. CASE UNCHANGED vars
  BY <1>8 DEF vars, IInv, TypeOK, Placed, Paged, Ticketed, Called, LetInByOwnEvent
<1> QED BY <1>1, <1>2, <1>3, <1>4, <1>5, <1>6, <1>7, <1>8 DEF Next

\* The invariant holds throughout every behaviour.
LEMMA VisitsInvariant == Spec => []IInv
<1> QED BY VisitsInit, VisitsNext, PTL DEF Spec

-----------------------------------------------------------------------------

\* Rooms, lines, keys and browsers stay well typed, and nobody is sent to the
\* site without a token.
THEOREM VisitsTypeCorrect == Spec => []TypeOK
<1>1. IInv => TypeOK
  BY DEF IInv
<1> QED BY <1>1, VisitsInvariant, PTL

\* Whoever is let through was called in the event it came from, whatever events
\* its browser has visited and whichever keys were in use.
THEOREM LetInByOwn == Spec => []LetInByOwnEvent
<1>1. IInv => LetInByOwnEvent
  BY DEF IInv
<1> QED BY <1>1, VisitsInvariant, PTL

\* Whoever polls stands in some line.
THEOREM PollersHavePlaces == Spec => []PollerHasPlace
<1>1. IInv => PollerHasPlace
  BY DEF IInv, Placed, Paged, PollerHasPlace
<1> QED BY <1>1, VisitsInvariant, PTL

-----------------------------------------------------------------------------

\* The browsers that its visitors' tokens were signed for.
LetIn(e) == {b \in Browsers : token[e][b] # NoToken}

\* What one event's queue of tickets sees of a step.
Moves == \A f \in Events : [LineOf(f)!Next]_(LineOf(f)!vars)

\* An enroll draws a ticket of its event, and of no other.
LEMMA CountDraws ==
  ASSUME IInv, NEW b \in Browsers, Count(b), NEW f \in Events
  PROVE  LineOf(f)!Draw \/ UNCHANGED LineOf(f)!vars
<1> USE DEF IInv, TypeOK
<1> DEFINE e == page[b].event
<1>1. e \in Events
  BY DEF Page
<1>2. /\ line' = [line EXCEPT ![e] = @ + 1]
      /\ tickets' = [tickets EXCEPT ![e][b] = @ \cup {line[e] + 1}]
      /\ UNCHANGED <<serving, token>>
  BY DEF Count
<1>3. CASE f # e
  <2>1. tickets'[f] = tickets[f] /\ line'[f] = line[f]
    BY <1>1, <1>2, <1>3
  <2> QED BY <1>2, <2>1 DEF LineOf!vars
<1>4. CASE f = e
  <2>1. /\ line'[f] = line[f] + 1
        /\ tickets'[f] = [tickets[f] EXCEPT ![b] = @ \cup {line[f] + 1}]
    BY <1>1, <1>2, <1>4
  <2>2. LineOf(f)!Take(b)
    BY <2>1 DEF LineOf!Take
  <2> QED BY <1>2, <2>1, <2>2 DEF LineOf!Draw
<1> QED BY <1>3, <1>4

\* A signature lets its visitor in on a ticket of its event, and of no other.
LEMMA SignatureLetsIn ==
  ASSUME IInv, NEW e \in Events, NEW b \in Browsers, MaybeAdmit(e, b), NEW f \in Events
  PROVE  LineOf(f)!LetIn(b) \/ UNCHANGED LineOf(f)!vars
<1> USE DEF IInv, TypeOK
<1>1. UNCHANGED <<line, tickets, place, serving>>
  BY AdmitEffect DEF queue
<1>2. CASE f # e \/ token[e][b] # NoToken
  <2>1. token'[f] = token[f]
    BY <1>2, AdmitEffect DEF MaybeAdmit
  <2> QED BY <1>1, <2>1 DEF LineOf!vars
<1>3. CASE f = e /\ token[e][b] = NoToken
  <2>1. /\ place[f][b] \in 1 .. serving[f] /\ place[f][b] \in Nat /\ serving[f] \in Nat
        /\ LetIn(f)' = LetIn(f) \cup {b} /\ b \notin LetIn(f)
    BY <1>3, AdmitEffect DEF LetIn
  <2>2. PICK n \in tickets[f][b] : n <= place[f][b]
    BY <2>1 DEF Ticketed
  <2>3. n \in Nat /\ n <= serving[f]
    BY <2>1, <2>2
  <2>4. LineOf(f)!MayEnter(b)
    BY <2>3 DEF LineOf!MayEnter
  <2> QED BY <1>1, <2>1, <2>4 DEF LineOf!LetIn, LetIn
<1> QED BY <1>2, <1>3

\* Every step moves each event as the queue of tickets allows, or not at all.
LEMMA LinesNext ==
  ASSUME IInv, [Next]_vars
  PROVE  Moves
<1> USE DEF room, queue, keys, browser
<1>1. ASSUME UNCHANGED <<line, tickets, serving, token>> PROVE Moves
  BY <1>1 DEF Moves, LineOf!vars
<1>2. ASSUME NEW e \in Events, NEW b \in Browsers, MaybeAdmit(e, b) PROVE Moves
  BY <1>2, SignatureLetsIn DEF Moves, LineOf!Next
<1>3. ASSUME NEW b \in Browsers, Browse(b) PROVE Moves
  <2>1. CASE Count(b)
    BY <2>1, CountDraws DEF Moves, LineOf!Next
  <2>2. CASE Poll(b)
    <3>1. page[b].event \in Events
      BY DEF IInv, TypeOK, Page
    <3> QED BY <1>2, <2>2, <3>1 DEF Poll
  <2>3. CASE VisitSite(b) \/ VisitRoom(b) \/ VisitLink(b) \/ SendBack(b)
    BY <1>1, <2>3 DEF VisitSite, VisitRoom, VisitLink, SendBack, Main
  <2>4. CASE Put(b) \/ Refused(b) \/ EnrollFails(b) \/ PollFails(b) \/ LetThrough(b)
    BY <1>1, <2>4 DEF Put, Refused, EnrollFails, PollFails, LetThrough
  <2> QED BY <1>3, <2>1, <2>2, <2>3, <2>4 DEF Browse
<1>4. ASSUME NEW e \in Events, NEW b \in Browsers, Expire(e, b) PROVE Moves
  <2>1. /\ UNCHANGED <<line, tickets, serving>>
        /\ token' = [token EXCEPT ![e][b] = Expired] /\ token[e][b] # NoToken
    BY <1>4, TokenKinds DEF Expire
  <2>2. \A f \in Events : LetIn(f)' = LetIn(f)
    BY <2>1, TokenKinds DEF LetIn, IInv, TypeOK
  <2> QED BY <2>1, <2>2 DEF Moves, LineOf!vars, LetIn
<1>5. ASSUME NEW e \in Events, ReaperTick(e) PROVE Moves
  <2>1. /\ UNCHANGED <<line, tickets, token>>
        /\ serving' = [serving EXCEPT ![e] = @ + 1]
    BY <1>5 DEF ReaperTick
  <2>2. ASSUME NEW f \in Events PROVE LineOf(f)!Call \/ UNCHANGED LineOf(f)!vars
    BY <2>1 DEF LineOf!Call, LineOf!Forward, LineOf!vars, IInv, TypeOK
  <2> QED BY <2>1, <2>2 DEF Moves, LineOf!Next
<1>6. CASE SetActive \/ CacheExpires \/ DeployEdge \/ Rotate \/ UNCHANGED vars
  BY <1>1, <1>6 DEF SetActive, CacheExpires, DeployEdge, Rotate, vars
<1>7. ASSUME NEW e \in Events, NEW b \in Browsers, Admit(e, b) \/ Vanish(e, b)
      PROVE  Moves
  BY <1>1, <1>2, <1>7 DEF Admit, Vanish
<1> QED BY <1>3, <1>4, <1>5, <1>6, <1>7 DEF Next

\* Nobody has a ticket, a token or a call.
LEMMA LinesInit == Init => \A e \in Events : LineOf(e)!Init
<1> SUFFICES ASSUME Init, NEW e \in Events PROVE LineOf(e)!Init
  OBVIOUS
<1>1. LetIn(e) = {} /\ line[e] = 0
  BY DEF Init, LetIn
<1> QED BY <1>1 DEF Init, LineOf!Init, LetIn

\* Each event of a room keeps a queue of tickets of its own, for any number of
\* events and browsers, and any set of faults, although enrolls overlap.
THEOREM LinesTickets == Spec => EachEventTickets
<1>1. Init => \A e \in Events : LineOf(e)!Init
  BY LinesInit
<1>2. IInv /\ [Next]_vars => [\A e \in Events : [LineOf(e)!Next]_(LineOf(e)!vars)]_vars
  BY LinesNext DEF Moves
<1> QED BY <1>1, <1>2, VisitsInvariant, PTL DEF Spec, EachEventTickets

=============================================================================
