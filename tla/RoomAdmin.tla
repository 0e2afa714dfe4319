----------------------------- MODULE RoomAdmin -----------------------------
(***************************************************************************)
(* The room and its events as operators administer them: what each admin   *)
(* portal has listed, the requests it sends, and the store that carries    *)
(* them out.  "dynamo" is DynamoDbAdminStore, over the tables that the     *)
(* queue reads; "bridged" is the local server, where BridgedAdminStore     *)
(* writes first to the admin store and then to the queue's, each under a   *)
(* mutex of its own.                                                       *)
(*                                                                         *)
(* There is one room, because the portal names no other: its wizard posts  *)
(* "default", and every event goes to a room that it has listed or to      *)
(* "default".  Of the room, the model keeps the active event: a name and a *)
(* theme are put along with it and decide nothing.  A switch is a setting  *)
(* of an event that operators override.                                    *)
(***************************************************************************)
EXTENDS Naturals, FiniteSets

CONSTANTS
    Events, Switches,
    Operators,                  \* portals, with one request under way each
    FirstEvent,                 \* made by the wizard, or seeded by the local server
    NoEvent, NoConfig, NoRoom,
    Backends,                   \* the stores to look at
    Faults                      \* what goes wrong where operators are not calm

ASSUME AdminAssumption ==
    /\ FirstEvent \in Events
    /\ NoEvent \notin Events /\ NoRoom \notin Events \cup {NoEvent}
    /\ NoConfig \notin [Switches -> BOOLEAN]
    /\ Backends \subseteq {"dynamo", "bridged"}
    /\ Faults \subseteq {"stale", "unlisted", "abort"}

VARIABLES
    backend,
    calm,           \* operators take turns, look before they act, and nothing fails
    room,           \* the active event of the room, or that there is no room
    roomLag,        \* ... as an eventually consistent read may still return it
    events,         \* event id -> configuration
    queueEvents,    \* bridged: the queue store's copy of events
    queueActive,    \* bridged: the queue store's active event of the room
    console,        \* what each portal shows
    call            \* the request of each portal, and how far it has got

vars == <<backend, calm, room, roomLag, events, queueEvents, queueActive, console, call>>

Config == [Switches -> BOOLEAN]
Room == Events \cup {NoEvent}
Table == [Events -> Config \cup {NoConfig}]

\* A request to change some of the switches: LiveOverrides.
Patch == UNION {[some -> BOOLEAN] : some \in SUBSET Switches}

Console == [room : Room \cup {NoRoom}, events : SUBSET Events]

\* pc is the next thing a request does, event and patch are the event it is about
\* and what to make of it, item is the room that it will write.
Call == [pc : {"idle", "newRoom", "putEvent", "getRoom", "activate", "checkRoom", "putRoom",
               "override", "mirrorNew", "mirrorUpdate", "readActive", "mirrorActive"},
         event : Events \cup {NoEvent}, patch : Patch, item : Room]

Unset == [s \in Switches |-> FALSE]
Idle == [pc |-> "idle", event |-> NoEvent, patch |-> Unset, item |-> NoEvent]

NoEvents == [e \in Events |-> NoConfig]
Seeded == [NoEvents EXCEPT ![FirstEvent] = Unset]

Made == {e \in Events : events[e] # NoConfig}

\* A deployment starts empty, the local server with a demo.  A portal shows nothing
\* before it has listed everything once.
Init ==
    /\ backend \in Backends
    /\ calm \in BOOLEAN
    /\ room = IF backend = "dynamo" THEN NoRoom ELSE FirstEvent
    /\ roomLag = room
    /\ events = IF backend = "dynamo" THEN NoEvents ELSE Seeded
    /\ queueEvents = events
    /\ queueActive = IF backend = "dynamo" THEN NoEvent ELSE FirstEvent
    /\ console = [o \in Operators |-> [room |-> room, events |-> Made]]
    /\ call = [o \in Operators |-> Idle]

fixed == <<backend, calm>>
mirror == <<queueEvents, queueActive>>
stores == <<room, roomLag, events, mirror>>

\* What can go wrong, where it can.
May(fault) == ~calm /\ fault \in Faults

-----------------------------------------------------------------------------
\* The portal.

\* refresh lists the events
RefreshEvents(o) ==
    /\ console' = [console EXCEPT ![o].events = Made]
    /\ UNCHANGED <<fixed, stores, call>>

\* ... and the room, or no room if that fails.
RefreshRoom(o) ==
    /\ \E view \in {room, roomLag} \cup {r \in {NoRoom} : May("unlisted")} :
          console' = [console EXCEPT ![o].room = view]
    /\ UNCHANGED <<fixed, stores, call>>

Current(o) == console[o].room = room /\ console[o].events = Made

Send(o, request) ==
    /\ call[o] = Idle
    /\ calm => Current(o) /\ \A p \in Operators : call[p] = Idle
    /\ call' = [call EXCEPT ![o] = request]
    /\ UNCHANGED <<fixed, stores, console>>

\* What the admin API makes of a request: the store operation it starts.
PostRoom == [Idle EXCEPT !.pc = "newRoom", !.event = FirstEvent]
PostEvent(e) == [Idle EXCEPT !.pc = "putEvent", !.event = e]
PutListedRoom(item) == [Idle EXCEPT !.pc = "checkRoom", !.item = item]
PatchEvent(e, patch) == [Idle EXCEPT !.pc = "override", !.event = e, !.patch = patch]

\* finishWizard, open when no event is listed, posts a room that has no active
\* event, and then the first event.
Wizard(o) ==
    /\ console[o].events = {}
    /\ Send(o, PostRoom)

\* createEvent posts an event under an id that is new.
CreateEvent(o, e) ==
    /\ e \notin Made \cup {FirstEvent}
    /\ \A p \in Operators : call[p].event # e
    /\ Send(o, PostEvent(e))

\* Faulty variant: a room is put even if none is listed.
SaveRoomUnlisted(o) == Send(o, PutListedRoom(console[o].room))

\* saveRoom puts the room under another name, its active event as listed.
SaveRoom(o) ==
    /\ console[o].room # NoRoom
    /\ Send(o, PutListedRoom(console[o].room))

\* setActiveEvent puts the room as listed, with another active event.
SetActiveEvent(o, e) ==
    /\ console[o].room # NoRoom
    /\ e \in console[o].events \ {console[o].room}
    /\ Send(o, PutListedRoom(e))

\* liveOverride asks for the opposite of what is listed of one switch, whichever
\* that was.
LiveOverride(o, e, s) ==
    /\ e \in console[o].events
    /\ \E patch \in [{s} -> BOOLEAN] :
          Send(o, PatchEvent(e, patch))

-----------------------------------------------------------------------------
\* The stores.

Goto(o, pc) == call' = [call EXCEPT ![o].pc = pc]
Done(o) == call' = [call EXCEPT ![o] = Idle]

\* With DynamoDB, reads may lag behind a write.
WriteRoom(item) ==
    /\ room' = item
    /\ roomLag' = IF backend = "dynamo" /\ May("stale") THEN roomLag ELSE item

ReplicateRoom ==
    /\ roomLag' = room
    /\ UNCHANGED <<fixed, room, events, mirror, console, call>>

\* A handler of a lambda dies, or a request fails; the wizard, if it is one, stops.
Abort(o) ==
    /\ call[o] # Idle
    /\ backend = "dynamo" /\ May("abort")
    /\ Done(o)
    /\ UNCHANGED <<fixed, stores, console>>

\* create_room, whether or not there is a room already, on behalf of the wizard.
NewRoom(o) ==
    /\ call[o].pc = "newRoom"
    /\ WriteRoom(call[o].item)
    /\ Goto(o, "putEvent")
    /\ UNCHANGED <<fixed, events, mirror, console>>

\* Faulty variant: an event that was not written is taken for written.
PutEventUnchecked(o) ==
    /\ call[o].pc = "putEvent"
    /\ Goto(o, IF backend = "dynamo" THEN "getRoom" ELSE "activate")
    /\ UNCHANGED <<fixed, stores, console>>

\* create_event writes the event, whether or not there is such an event already;
PutEvent(o) ==
    /\ call[o].pc = "putEvent"
    /\ events' = [events EXCEPT ![call[o].event] = call[o].patch]
    /\ Goto(o, IF backend = "dynamo" THEN "getRoom" ELSE "activate")
    /\ UNCHANGED <<fixed, room, roomLag, mirror, console>>

\* Faulty variant: only an active event that is there and empty is filled in.
GetRoomFilled(o) ==
    /\ call[o].pc = "getRoom"
    /\ Done(o)
    /\ UNCHANGED <<fixed, stores, console>>

\* ... then, with DynamoDB, it reads the room and completes it if it has no active
\* event
GetRoom(o) ==
    /\ call[o].pc = "getRoom"
    /\ \E view \in {room, roomLag} :
          IF view = NoEvent
          THEN call' = [call EXCEPT ![o].pc = "putRoom", ![o].item = call[o].event]
          ELSE Done(o)
    /\ UNCHANGED <<fixed, stores, console>>

\* Faulty variant: a room that has an active event ends the request.
ActivateOrStop(o) ==
    /\ call[o].pc = "activate"
    /\ IF room = NoEvent
       THEN WriteRoom(call[o].event) /\ Goto(o, "mirrorNew")
       ELSE UNCHANGED <<room, roomLag>> /\ Done(o)
    /\ UNCHANGED <<fixed, events, mirror, console>>

\* ... or, in memory, does both under the mutex of the rooms.
Activate(o) ==
    /\ call[o].pc = "activate"
    /\ IF room = NoEvent
       THEN WriteRoom(call[o].event)
       ELSE UNCHANGED <<room, roomLag>>
    /\ Goto(o, "mirrorNew")
    /\ UNCHANGED <<fixed, events, mirror, console>>

\* update_room refuses a room that is not there: with DynamoDB in a request of its
\* own,
CheckRoom(o) ==
    /\ call[o].pc = "checkRoom" /\ backend = "dynamo"
    /\ \E view \in {room, roomLag} : IF view = NoRoom THEN Done(o) ELSE Goto(o, "putRoom")
    /\ UNCHANGED <<fixed, stores, console>>

PutRoom(o) ==
    /\ call[o].pc = "putRoom"
    /\ WriteRoom(call[o].item)
    /\ Done(o)
    /\ UNCHANGED <<fixed, events, mirror, console>>

\* ... in memory at once; the local server then tells the queue.
UpdateRoom(o) ==
    /\ call[o].pc = "checkRoom" /\ backend = "bridged"
    /\ IF room = NoRoom THEN UNCHANGED <<room, roomLag>> ELSE WriteRoom(call[o].item)
    /\ IF room = NoRoom \/ call[o].item = NoEvent THEN Done(o) ELSE Goto(o, "mirrorActive")
    /\ UNCHANGED <<fixed, events, mirror, console>>

Patched(config, patch) ==
    [s \in Switches |-> IF s \in DOMAIN patch THEN patch[s] ELSE config[s]]

\* Faulty variant: the queue is not told.
UpdateEventAlone(o) ==
    /\ call[o].pc = "override"
    /\ events' = [events EXCEPT ![call[o].event] = Patched(@, call[o].patch)]
    /\ Done(o)
    /\ UNCHANGED <<fixed, room, roomLag, mirror, console>>

\* update_event sets what the request names and returns all of the event, which
\* is what the local server tells the queue.
UpdateEvent(o) ==
    /\ call[o].pc = "override"
    /\ events' = [events EXCEPT ![call[o].event] = Patched(@, call[o].patch)]
    /\ IF backend = "dynamo" THEN Done(o)
       ELSE call' = [call EXCEPT ![o].pc = "mirrorUpdate", ![o].patch = events'[call[o].event]]
    /\ UNCHANGED <<fixed, room, roomLag, mirror, console>>

\* BridgedAdminStore: ensure_event in the queue store, and after a create also its
\* active event, if the room then has one.
MirrorEvent(o) ==
    /\ call[o].pc \in {"mirrorNew", "mirrorUpdate"}
    /\ queueEvents' = [queueEvents EXCEPT ![call[o].event] = call[o].patch]
    /\ IF call[o].pc = "mirrorNew" THEN Goto(o, "readActive") ELSE Done(o)
    /\ UNCHANGED <<fixed, room, roomLag, events, queueActive, console>>

ReadActive(o) ==
    /\ call[o].pc = "readActive"
    /\ IF room \in Events
       THEN call' = [call EXCEPT ![o].pc = "mirrorActive", ![o].item = room]
       ELSE Done(o)
    /\ UNCHANGED <<fixed, stores, console>>

\* set_active_event in the queue store.
MirrorActive(o) ==
    /\ call[o].pc = "mirrorActive"
    /\ queueActive' = call[o].item
    /\ Done(o)
    /\ UNCHANGED <<fixed, room, roomLag, events, queueEvents, console>>

-----------------------------------------------------------------------------
PortalStep(o) ==
    \/ RefreshEvents(o) \/ RefreshRoom(o)
    \/ Wizard(o) \/ SaveRoom(o)
    \/ \E e \in Events :
        \/ CreateEvent(o, e) \/ SetActiveEvent(o, e)
        \/ \E s \in Switches : LiveOverride(o, e, s)

StoreStep(o) ==
    \/ NewRoom(o) \/ PutEvent(o) \/ GetRoom(o) \/ Activate(o)
    \/ CheckRoom(o) \/ PutRoom(o) \/ UpdateRoom(o) \/ UpdateEvent(o)
    \/ MirrorEvent(o) \/ ReadActive(o) \/ MirrorActive(o) \/ Abort(o)

Next == ReplicateRoom \/ \E o \in Operators : PortalStep(o) \/ StoreStep(o)

Spec == Init /\ [][Next]_vars

-----------------------------------------------------------------------------
\* The portals, the stores and the requests are what they are declared to be.
TypeOK ==
    /\ backend \in Backends /\ calm \in BOOLEAN
    /\ room \in Room \cup {NoRoom} /\ roomLag \in Room \cup {NoRoom}
    /\ events \in Table /\ queueEvents \in Table
    /\ queueActive \in Events \cup {NoEvent}
    /\ console \in [Operators -> Console]
    /\ call \in [Operators -> Call]

\* The room never names an active event that does not exist, in the admin store, in
\* the queue's or in a late read, whoever saves it from how old a copy: visitors
\* are never sent to an event that nobody has made.
ActiveExists ==
    {room, roomLag, queueActive} \cap Events \subseteq Made

\* The local server's queue knows every event that the admin store knows, or a
\* request is about to tell it, whatever else is under way.
MirrorComplete ==
    backend = "bridged" =>
        \A e \in Made :
            \/ queueEvents[e] # NoConfig
            \/ \E o \in Operators : call[o].event = e /\ call[o].pc \in {"activate", "mirrorNew"}

Resting == \A o \in Operators : call[o] = Idle

\* When no request is under way, the local server's queue serves every event as the
\* admin store has it, and sends visitors to the same event, if operators were calm.
MirrorInStep ==
    calm /\ Resting /\ backend = "bridged" =>
        /\ queueEvents = events
        /\ queueActive = room

\* However wizard and forms are used, if operators were calm, a room and an event
\* together mean that the room has an active event once no request is under way:
\* create_event and the wizard's order of requests leave no room without one.
ActivatedInTurn ==
    calm /\ Resting /\ room # NoRoom /\ Made # {} => room # NoEvent
=============================================================================
