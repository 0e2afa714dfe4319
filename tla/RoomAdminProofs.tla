-------------------------- MODULE RoomAdminProofs --------------------------
(***************************************************************************)
(* Proofs about RoomAdmin, for any number of operators, events and         *)
(* switches, either store and every set of faults.                         *)
(***************************************************************************)
EXTENDS RoomAdmin, TLAPS

-----------------------------------------------------------------------------
\* The inductive invariant of everything that is copied.

\* What portals show exists.
ShownExist == \A o \in Operators :
    /\ console[o].events \subseteq Made
    /\ console[o].room \in Made \cup {NoEvent, NoRoom}

\* Requests that make an event have all of it, and those that have made one, or
\* change one, name one that exists; so does what they will write to the room.
SoundCall(c, made) ==
    /\ c.pc = "idle" => c = Idle
    /\ c.pc \in {"newRoom", "putEvent"} =>
          c.event \in Events /\ c.patch \in Config /\ c.item = NoEvent
    /\ c.pc \in {"getRoom", "activate", "mirrorNew", "mirrorUpdate"} =>
          c.event \in made /\ c.patch \in Config
    /\ c.pc = "override" => c.event \in made
    /\ c.item \in made \cup {NoEvent}

StoresExist ==
    /\ {room, roomLag} \subseteq Made \cup {NoEvent, NoRoom}
    /\ queueActive \in Made \cup {NoEvent}

CopiesInv ==
    /\ TypeOK
    /\ StoresExist
    /\ ShownExist
    /\ \A o \in Operators : SoundCall(call[o], Made)

\* The local server's queue knows the events, and its room has an active one.
Telling(o, e) == call[o].event = e /\ call[o].pc \in {"activate", "mirrorNew"}

MirrorInv ==
    backend = "bridged" =>
        /\ \A e \in Made : queueEvents[e] # NoConfig \/ \E o \in Operators : Telling(o, e)
        /\ room \in Events /\ roomLag = room
        /\ \A o \in Operators :
            /\ console[o].events # {}
            /\ console[o].room # NoEvent
            /\ call[o].pc \notin {"newRoom", "getRoom", "putRoom"}
            /\ call[o].pc = "checkRoom" => call[o].item \in Events

\* Where operators are calm, one request is under way at most, and what it does
\* not have in hand is settled.
Alone ==
    /\ \A o, p \in Operators : call[o] # Idle /\ call[p] # Idle => o = p
    /\ roomLag = room

HasEvent(c) == c.pc \in {"activate", "mirrorNew", "mirrorUpdate"}

InStep ==
    /\ \A o \in Operators : HasEvent(call[o]) => call[o].patch = events[call[o].event]
    /\ \A e \in Events :
          queueEvents[e] = events[e] \/ \E o \in Operators : HasEvent(call[o]) /\ call[o].event = e
    /\ \A o \in Operators : call[o].pc = "mirrorActive" => call[o].item = room
    /\ queueActive = room \/ \E o \in Operators : call[o].pc = "mirrorActive"

Activating(o) == call[o].pc \in {"putEvent", "getRoom", "putRoom"}

Activated ==
    /\ room = NoEvent /\ Made # {} => \E o \in Operators : Activating(o)
    /\ \A o \in Operators :
          call[o].pc \in {"checkRoom", "putRoom"} => call[o].item # NoEvent \/ Made = {}

CalmInv == calm =>
    /\ Alone
    /\ backend = "bridged" => InStep
    /\ backend = "dynamo" => Activated

-----------------------------------------------------------------------------
\* Whole configurations are patches, patches keep configurations whole, and idle
\* is a call.
LEMMA Patches ==
    /\ Config \subseteq Patch
    /\ \A s \in Switches : [{s} -> BOOLEAN] \subseteq Patch
    /\ \A config \in Config, patch \in Patch : Patched(config, patch) \in Config
    /\ Unset \in Config
<1>1. Config \subseteq Patch
  BY DEF Config, Patch
<1>2. ASSUME NEW s \in Switches PROVE [{s} -> BOOLEAN] \subseteq Patch
  <2>1. {s} \in SUBSET Switches
    OBVIOUS
  <2> QED BY <2>1 DEF Patch
<1>3. ASSUME NEW config \in Config, NEW patch \in Patch PROVE Patched(config, patch) \in Config
  <2>1. PICK some \in SUBSET Switches : patch \in [some -> BOOLEAN]
    BY <1>3 DEF Patch
  <2>2. \A s \in Switches : (IF s \in DOMAIN patch THEN patch[s] ELSE config[s]) \in BOOLEAN
    BY <2>1 DEF Config
  <2> QED BY <2>2 DEF Patched, Config
<1>4. Unset \in Config
  BY DEF Unset, Config
<1> QED BY <1>1, <1>2, <1>3, <1>4

LEMMA IdleIsCall == Idle \in Call /\ \A made : SoundCall(Idle, made)
  BY Patches DEF Idle, Call, Room, SoundCall

\* Events are made and never unmade.
LEMMA Grows ==
    ASSUME events' \in Table, NEW e, NEW config \in Config, events \in Table,
           events' = [events EXCEPT ![e] = config]
    PROVE  Made \subseteq Made' /\ (e \in Events => e \in Made')
  BY AdminAssumption DEF Made, Table, Config

\* What it takes for a step of a request to keep the invariant.
LEMMA CopiesKept ==
    ASSUME CopiesInv,
           NEW o \in Operators, NEW c \in Call, call' = [call EXCEPT ![o] = c],
           SoundCall(c, Made'), Made \subseteq Made',
           StoresExist', events' \in Table, queueEvents' \in Table,
           UNCHANGED <<fixed, console>>
    PROVE  CopiesInv'
<1> USE DEF CopiesInv
<1>1. call' \in [Operators -> Call]
  BY DEF TypeOK
<1>2. StoresExist' => /\ room' \in Room \cup {NoRoom} /\ roomLag' \in Room \cup {NoRoom}
                      /\ queueActive' \in Events \cup {NoEvent}
  BY DEF StoresExist, Made, Room
<1>3. TypeOK'
  BY <1>1, <1>2 DEF TypeOK, fixed
<1>4. ShownExist'
  BY DEF ShownExist
<1>5. ASSUME NEW p \in Operators PROVE SoundCall(call'[p], Made')
  <2>1. CASE p = o
    BY <2>1 DEF TypeOK
  <2>2. CASE p # o
    <3>1. call'[p] = call[p] /\ SoundCall(call[p], Made)
      BY <2>2 DEF TypeOK
    <3> QED BY <3>1 DEF SoundCall
  <2> QED BY <2>1, <2>2
<1> QED BY <1>3, <1>4, <1>5

LEMMA CopiesInit == Init => CopiesInv
<1> SUFFICES ASSUME Init PROVE CopiesInv
  OBVIOUS
<1> USE AdminAssumption
<1>1. NoEvents \in Table /\ Seeded \in Table
  BY Patches DEF NoEvents, Seeded, Table
<1>2. events \in Table /\ queueEvents \in Table
  BY <1>1 DEF Init
<1>3. backend \in {"dynamo", "bridged"}
  BY DEF Init
<1>4. backend = "bridged" => FirstEvent \in Made
  BY <1>1, Patches DEF Init, Made, Seeded, NoEvents, Config
<1>5. StoresExist
  BY <1>3, <1>4 DEF Init, StoresExist
<1>6. room \in Room \cup {NoRoom} /\ Made \subseteq Events
  BY <1>3 DEF Init, Room, Made
<1>7. console \in [Operators -> Console] /\ ShownExist
  BY <1>5, <1>6 DEF Init, Console, ShownExist, StoresExist
<1>8. call \in [Operators -> Call] /\ \A o \in Operators : SoundCall(call[o], Made)
  BY IdleIsCall DEF Init
<1>9. TypeOK
  BY <1>2, <1>5, <1>6, <1>7, <1>8 DEF Init, TypeOK, StoresExist
<1> QED BY <1>5, <1>7, <1>8, <1>9 DEF CopiesInv

\* A portal sends what it has listed, which exists.
LEMMA PortalCopies ==
    ASSUME CopiesInv, NEW o \in Operators, PortalStep(o)
    PROVE  CopiesInv'
<1> USE DEF CopiesInv
<1>1. ASSUME NEW c \in Call, Send(o, c), SoundCall(c, Made) PROVE CopiesInv'
  <2>1. /\ call' = [call EXCEPT ![o] = c]
        /\ UNCHANGED <<fixed, room, roomLag, events, queueEvents, queueActive, console>>
    BY <1>1 DEF Send, stores, mirror
  <2>2. Made' = Made /\ StoresExist'
    BY <2>1 DEF Made, StoresExist
  <2>3. events' \in Table /\ queueEvents' \in Table
    BY <2>1 DEF TypeOK
  <2> QED BY <1>1, <2>1, <2>2, <2>3, CopiesKept
<1>2. Made \subseteq Events /\ Unset \in Config /\ Config \subseteq Patch
  BY Patches DEF Made
<1>3. console[o] \in Console /\ console[o].events \subseteq Made
      /\ console[o].room \in Made \cup {NoEvent, NoRoom}
  BY DEF TypeOK, ShownExist
<1> USE DEF Idle, Call, Room, SoundCall
<1>4. CASE RefreshEvents(o) \/ RefreshRoom(o)
  <2>1. UNCHANGED <<fixed, room, roomLag, events, queueEvents, queueActive, call>>
    BY <1>4 DEF RefreshEvents, RefreshRoom, stores, mirror
  <2>2. Made' = Made
    BY <2>1 DEF Made
  <2>3. \E shown : /\ console' = [console EXCEPT ![o] = shown]
                   /\ shown \in Console /\ shown.events \subseteq Made
                   /\ shown.room \in Made \cup {NoEvent, NoRoom}
    <3>1. CASE RefreshEvents(o)
      <4> DEFINE shown == [console[o] EXCEPT !.events = Made]
      <4>1. console' = [console EXCEPT ![o] = shown]
        BY <3>1 DEF RefreshEvents
      <4>2. /\ shown \in Console /\ shown.events \subseteq Made
            /\ shown.room \in Made \cup {NoEvent, NoRoom}
        BY <1>2, <1>3 DEF Console
      <4> HIDE DEF shown
      <4> QED BY <4>1, <4>2
    <3>2. CASE RefreshRoom(o)
      <4>1. PICK view \in {room, roomLag} \cup {NoRoom} :
               console' = [console EXCEPT ![o] = [console[o] EXCEPT !.room = view]]
        BY <3>2 DEF RefreshRoom
      <4>2. view \in Made \cup {NoEvent, NoRoom} /\ view \in Room \cup {NoRoom}
        BY <1>2, <4>1 DEF StoresExist
      <4> DEFINE shown == [console[o] EXCEPT !.room = view]
      <4>3. /\ shown \in Console /\ shown.events \subseteq Made
            /\ shown.room \in Made \cup {NoEvent, NoRoom}
        BY <1>3, <4>2 DEF Console
      <4>4. console' = [console EXCEPT ![o] = shown]
        BY <4>1
      <4> HIDE DEF shown
      <4> QED BY <4>3, <4>4
    <3> QED BY <1>4, <3>1, <3>2
  <2>4. console' \in [Operators -> Console] /\ ShownExist'
    BY <2>2, <2>3 DEF TypeOK, ShownExist
  <2>5. TypeOK' /\ StoresExist' /\ \A p \in Operators : SoundCall(call'[p], Made')
    BY <2>1, <2>2, <2>4 DEF TypeOK, StoresExist, fixed
  <2> QED BY <2>4, <2>5
<1>5. CASE Wizard(o)
  <2> DEFINE c == [Idle EXCEPT !.pc = "newRoom", !.event = FirstEvent]
  <2>1. c \in Call /\ SoundCall(c, Made)
    BY <1>2, AdminAssumption
  <2> QED BY <1>1, <1>5, <2>1 DEF Wizard, PostRoom
<1>6. CASE SaveRoom(o)
  <2> DEFINE c == [Idle EXCEPT !.pc = "checkRoom", !.item = console[o].room]
  <2>1. c \in Call /\ SoundCall(c, Made)
    BY <1>2, <1>3, <1>6 DEF SaveRoom, PutListedRoom
  <2> QED BY <1>1, <1>6, <2>1 DEF SaveRoom, PutListedRoom
<1>7. ASSUME NEW e \in Events, CreateEvent(o, e) PROVE CopiesInv'
  <2> DEFINE c == [Idle EXCEPT !.pc = "putEvent", !.event = e]
  <2>1. c \in Call /\ SoundCall(c, Made)
    BY <1>2
  <2> QED BY <1>1, <1>7, <2>1 DEF CreateEvent, PostEvent
<1>8. ASSUME NEW e \in Events, SetActiveEvent(o, e) PROVE CopiesInv'
  <2> DEFINE c == [Idle EXCEPT !.pc = "checkRoom", !.item = e]
  <2>1. c \in Call /\ SoundCall(c, Made)
    BY <1>2, <1>3, <1>8 DEF SetActiveEvent, PutListedRoom
  <2> QED BY <1>1, <1>8, <2>1 DEF SetActiveEvent, PutListedRoom
<1>9. ASSUME NEW e \in Events, NEW s \in Switches, LiveOverride(o, e, s) PROVE CopiesInv'
  <2>1. PICK patch \in [{s} -> BOOLEAN] :
           Send(o, [Idle EXCEPT !.pc = "override", !.event = e, !.patch = patch])
    BY <1>9 DEF LiveOverride, PatchEvent
  <2> DEFINE c == [Idle EXCEPT !.pc = "override", !.event = e, !.patch = patch]
  <2>2. patch \in Patch
    BY Patches
  <2>3. c \in Call /\ SoundCall(c, Made)
    BY <1>3, <1>9, <2>2 DEF LiveOverride, PatchEvent
  <2> QED BY <1>1, <2>1, <2>3
<1> QED BY <1>4, <1>5, <1>6, <1>7, <1>8, <1>9 DEF PortalStep

\* What a store writes to the room exists, and what it tells was there.
LEMMA StoreCopies ==
    ASSUME CopiesInv, NEW o \in Operators, StoreStep(o)
    PROVE  CopiesInv'
<1> USE DEF CopiesInv, fixed, stores, mirror
<1>1. /\ call[o] \in Call /\ SoundCall(call[o], Made)
      /\ Made \subseteq Events /\ events \in Table /\ queueEvents \in Table
      /\ call \in [Operators -> Call]
  BY DEF TypeOK, Made
<1>2. ASSUME UNCHANGED events
      PROVE  Made' = Made /\ events' \in Table
  BY <1>1, <1>2 DEF Made
\* A step that writes nothing, and one that writes the room.
<1>3. ASSUME NEW c \in Call, call' = [call EXCEPT ![o] = c], SoundCall(c, Made),
             UNCHANGED <<fixed, stores, console>>
      PROVE  CopiesInv'
  <2>1. StoresExist' /\ Made' = Made
    BY <1>2, <1>3 DEF StoresExist
  <2> QED BY <1>1, <1>2, <1>3, <2>1, CopiesKept
<1>4. ASSUME NEW c \in Call, call' = [call EXCEPT ![o] = c], SoundCall(c, Made),
             NEW item \in Made \cup {NoEvent}, WriteRoom(item),
             UNCHANGED <<fixed, events, mirror, console>>
      PROVE  CopiesInv'
  <2>1. Made' = Made
    BY <1>2, <1>4
  <2>2. StoresExist'
    BY <1>4, <2>1 DEF StoresExist, WriteRoom
  <2> QED BY <1>1, <1>2, <1>4, <2>1, <2>2, CopiesKept
<1>5. ASSUME NEW config \in Config, NEW e \in Events, events' = [events EXCEPT ![e] = config],
             NEW c \in Call, call' = [call EXCEPT ![o] = c],
             e \in Made' => SoundCall(c, Made'),
             UNCHANGED <<fixed, room, roomLag, mirror, console>>
      PROVE  CopiesInv'
  <2>1. events' \in Table
    BY <1>1, <1>5 DEF Table
  <2>2. Made \subseteq Made' /\ e \in Made'
    BY <1>1, <1>5, <2>1, Grows
  <2>3. StoresExist'
    BY <1>5, <2>2 DEF StoresExist
  <2> QED BY <1>1, <1>5, <2>1, <2>2, <2>3, CopiesKept
<1>6. ASSUME NEW pc PROVE [call EXCEPT ![o].pc = pc] = [call EXCEPT ![o] = [call[o] EXCEPT !.pc = pc]]
  BY <1>1
<1>7. Idle \in Call /\ SoundCall(Idle, Made)
  BY IdleIsCall
<1>8. CASE NewRoom(o)
  <2> DEFINE c == [call[o] EXCEPT !.pc = "putEvent"]
  <2>1. c \in Call /\ SoundCall(c, Made) /\ call[o].item \in Made \cup {NoEvent}
    BY <1>1, <1>8 DEF NewRoom, Call, SoundCall
  <2> QED BY <1>4, <1>6, <1>8, <2>1 DEF NewRoom, Goto
<1>9. CASE PutEvent(o)
  <2>1. PICK pc \in {"getRoom", "activate"} : call' = [call EXCEPT ![o].pc = pc]
    BY <1>9 DEF PutEvent, Goto
  <2> DEFINE c == [call[o] EXCEPT !.pc = pc]
  <2>2. call[o].event \in Events /\ call[o].patch \in Config /\ c \in Call
    BY <1>1, <1>9 DEF PutEvent, Call, SoundCall
  <2>3. events' = [events EXCEPT ![call[o].event] = call[o].patch]
    BY <1>9 DEF PutEvent
  <2>4. ASSUME call[o].event \in Made' PROVE SoundCall(c, Made')
    BY <1>1, <1>9, <2>2, <2>4 DEF PutEvent, Call, SoundCall
  <2> QED BY <1>5, <1>6, <1>9, <2>1, <2>2, <2>3, <2>4 DEF PutEvent
<1>10. CASE GetRoom(o)
  <2>1. CASE Done(o)
    BY <1>3, <1>7, <1>10, <2>1 DEF GetRoom, Done
  <2>2. CASE call' = [call EXCEPT ![o].pc = "putRoom", ![o].item = call[o].event]
    <3> DEFINE c == [call[o] EXCEPT !.pc = "putRoom", !.item = call[o].event]
    <3>1. c \in Call /\ SoundCall(c, Made)
      BY <1>1, <1>10 DEF GetRoom, Call, Room, SoundCall
    <3>2. call' = [call EXCEPT ![o] = c]
      BY <1>1, <2>2
    <3> QED BY <1>3, <1>10, <3>1, <3>2 DEF GetRoom
  <2> QED BY <1>10, <2>1, <2>2 DEF GetRoom
<1>11. CASE Activate(o)
  <2> DEFINE c == [call[o] EXCEPT !.pc = "mirrorNew"]
  <2>1. c \in Call /\ SoundCall(c, Made) /\ call[o].event \in Made
    BY <1>1, <1>11 DEF Activate, Call, SoundCall
  <2>2. call' = [call EXCEPT ![o] = c]
    BY <1>6, <1>11 DEF Activate, Goto
  <2>3. CASE WriteRoom(call[o].event)
    BY <1>4, <1>11, <2>1, <2>2, <2>3 DEF Activate
  <2>4. CASE UNCHANGED <<room, roomLag>>
    BY <1>3, <1>11, <2>1, <2>2, <2>4 DEF Activate
  <2> QED BY <1>11, <2>3, <2>4 DEF Activate
<1>12. CASE CheckRoom(o)
  <2>1. CASE Done(o)
    BY <1>3, <1>7, <1>12, <2>1 DEF CheckRoom, Done
  <2>2. CASE Goto(o, "putRoom")
    <3> DEFINE c == [call[o] EXCEPT !.pc = "putRoom"]
    <3>1. c \in Call /\ SoundCall(c, Made)
      BY <1>1 DEF Call, SoundCall
    <3> QED BY <1>3, <1>6, <1>12, <2>2, <3>1 DEF CheckRoom, Goto
  <2> QED BY <1>12, <2>1, <2>2 DEF CheckRoom
<1>13. CASE PutRoom(o)
  <2>1. call[o].item \in Made \cup {NoEvent}
    BY <1>1 DEF SoundCall
  <2> QED BY <1>4, <1>7, <1>13, <2>1 DEF PutRoom, Done
<1>14. CASE UpdateRoom(o)
  <2> DEFINE c == [call[o] EXCEPT !.pc = "mirrorActive"]
  <2>1. c \in Call /\ SoundCall(c, Made) /\ call[o].item \in Made \cup {NoEvent}
    BY <1>1 DEF Call, SoundCall
  <2>2. call' = [call EXCEPT ![o] = c] \/ call' = [call EXCEPT ![o] = Idle]
    BY <1>6, <1>14 DEF UpdateRoom, Goto, Done
  <2>3. CASE WriteRoom(call[o].item)
    BY <1>4, <1>7, <1>14, <2>1, <2>2, <2>3 DEF UpdateRoom
  <2>4. CASE UNCHANGED <<room, roomLag>>
    BY <1>3, <1>7, <1>14, <2>1, <2>2, <2>4 DEF UpdateRoom
  <2> QED BY <1>14, <2>3, <2>4 DEF UpdateRoom
<1>15. CASE UpdateEvent(o)
  <2> DEFINE config == Patched(events[call[o].event], call[o].patch)
             c == [call[o] EXCEPT !.pc = "mirrorUpdate", !.patch = config]
  <2>1. call[o].event \in Made /\ call[o].patch \in Patch
    BY <1>1, <1>15 DEF UpdateEvent, SoundCall, Call
  <2>2. events[call[o].event] \in Config /\ call[o].event \in Events
    BY <1>1, <2>1 DEF Made, Table
  <2>3. config \in Config /\ config \in Patch
    BY <2>1, <2>2, Patches
  <2>4. events' = [events EXCEPT ![call[o].event] = config]
        /\ events'[call[o].event] = config
    BY <1>1, <1>15, <2>2 DEF UpdateEvent, Table
  <2> HIDE DEF config
  <2>5. c \in Call /\ (call[o].event \in Made' => SoundCall(c, Made'))
    <3>1. Made \subseteq Made'
      <4>1. events' \in Table
        BY <1>1, <2>3, <2>4 DEF Table
      <4> QED BY <1>1, <2>3, <2>4, <4>1, Grows
    <3> QED BY <1>1, <2>3, <3>1 DEF Call, SoundCall
  <2>6. \A made : SoundCall(Idle, made)
    BY IdleIsCall
  <2>7. call' = [call EXCEPT ![o] = c] \/ call' = [call EXCEPT ![o] = Idle]
    BY <1>1, <1>15, <2>4 DEF UpdateEvent, Done
  <2>8. UNCHANGED <<fixed, room, roomLag, mirror, console>>
    BY <1>15 DEF UpdateEvent
  <2> QED BY <1>5, <1>7, <2>2, <2>3, <2>4, <2>5, <2>6, <2>7, <2>8
<1>16. CASE MirrorEvent(o)
  <2> DEFINE c == [call[o] EXCEPT !.pc = "readActive"]
  <2>1. c \in Call /\ SoundCall(c, Made) /\ call[o].event \in Events /\ call[o].patch \in Config
    BY <1>1, <1>16 DEF MirrorEvent, Call, SoundCall
  <2>2. call' = [call EXCEPT ![o] = c] \/ call' = [call EXCEPT ![o] = Idle]
    BY <1>6, <1>16 DEF MirrorEvent, Goto, Done
  <2>3. queueEvents' \in Table
    BY <1>1, <1>16, <2>1 DEF MirrorEvent, Table
  <2>4. UNCHANGED <<fixed, room, roomLag, events, queueActive, console>>
    BY <1>16 DEF MirrorEvent
  <2>5. StoresExist' /\ Made' = Made
    BY <1>2, <2>4 DEF StoresExist
  <2> QED BY <1>1, <1>2, <1>7, <2>1, <2>2, <2>3, <2>4, <2>5, CopiesKept
<1>17. CASE ReadActive(o)
  <2>1. CASE Done(o)
    BY <1>3, <1>7, <1>17, <2>1 DEF ReadActive, Done
  <2>2. CASE call' = [call EXCEPT ![o].pc = "mirrorActive", ![o].item = room] /\ room \in Events
    <3> DEFINE c == [call[o] EXCEPT !.pc = "mirrorActive", !.item = room]
    <3>1. room \in Made
      BY <2>2, AdminAssumption DEF StoresExist
    <3>2. c \in Call /\ SoundCall(c, Made)
      BY <1>1, <3>1 DEF Call, Room, SoundCall
    <3>3. call' = [call EXCEPT ![o] = c]
      BY <1>1, <2>2
    <3> QED BY <1>3, <1>17, <3>2, <3>3 DEF ReadActive
  <2> QED BY <1>17, <2>1, <2>2 DEF ReadActive
<1>18. CASE MirrorActive(o)
  <2>1. call[o].item \in Made \cup {NoEvent}
    BY <1>1 DEF SoundCall
  <2>2. StoresExist' /\ Made' = Made /\ call' = [call EXCEPT ![o] = Idle]
    BY <1>2, <1>18, <2>1 DEF MirrorActive, StoresExist, Done
  <2> QED BY <1>1, <1>2, <1>7, <1>18, <2>2, CopiesKept DEF MirrorActive
<1>19. CASE Abort(o)
  BY <1>3, <1>7, <1>19 DEF Abort, Done
<1> QED BY <1>8, <1>9, <1>10, <1>11, <1>12, <1>13, <1>14, <1>15, <1>16, <1>17, <1>18, <1>19
        DEF StoreStep

LEMMA CopiesStep == CopiesInv /\ [Next]_vars => CopiesInv'
<1> SUFFICES ASSUME CopiesInv, [Next]_vars PROVE CopiesInv'
  OBVIOUS
<1>1. CASE UNCHANGED <<room, events, console, call>> /\ roomLag' \in {room, roomLag}
           /\ UNCHANGED <<fixed, mirror>>
  <2>1. Made' = Made
    BY <1>1 DEF Made
  <2>2. TypeOK' /\ StoresExist' /\ ShownExist'
    BY <1>1, <2>1 DEF CopiesInv, TypeOK, StoresExist, ShownExist, fixed, mirror
  <2> QED BY <1>1, <2>1, <2>2 DEF CopiesInv
<1>2. CASE ReplicateRoom
  BY <1>1, <1>2 DEF ReplicateRoom
<1>3. CASE UNCHANGED vars
  BY <1>1, <1>3 DEF vars, fixed, mirror
<1> QED BY <1>2, <1>3, PortalCopies, StoreCopies DEF Next

\* Whatever operators send, and however stale what they looked at, portals, requests
\* and stores hold what they are declared to hold.
THEOREM AdminTypeCorrect == Spec => []TypeOK
<1>1. CopiesInv => TypeOK
  BY DEF CopiesInv
<1> QED BY <1>1, CopiesInit, CopiesStep, PTL DEF Spec

\* A room never names an event that does not exist, in either store, with any faults.
THEOREM ActiveIsMade == Spec => []ActiveExists
<1>1. CopiesInv => ActiveExists
  BY AdminAssumption DEF CopiesInv, StoresExist, ActiveExists
<1> QED BY <1>1, CopiesInit, CopiesStep, PTL DEF Spec

-----------------------------------------------------------------------------
\* The local server.

\* An override makes no event.
LEMMA OverrideMakesNone ==
    ASSUME CopiesInv, NEW o \in Operators, UpdateEvent(o)
    PROVE  /\ Made' = Made /\ call[o].event \in Events
           /\ \A e \in Events : e # call[o].event => events'[e] = events[e]
<1>1. call[o].event \in Made /\ call[o].patch \in Patch
  BY DEF CopiesInv, TypeOK, UpdateEvent, SoundCall, Call
<1>2. call[o].event \in Events /\ events[call[o].event] \in Config
  BY <1>1 DEF CopiesInv, TypeOK, Made, Table
<1>3. Patched(events[call[o].event], call[o].patch) \in Config
  BY <1>1, <1>2, Patches
<1>4. events' = [events EXCEPT ![call[o].event] = Patched(events[call[o].event], call[o].patch)]
  BY DEF UpdateEvent
<1> QED BY <1>1, <1>2, <1>3, <1>4, AdminAssumption DEF CopiesInv, TypeOK, Made, Table, Config

\* Only the operator whose step it is has another request or other lists afterwards.
LEMMA OthersAside ==
    ASSUME CopiesInv, NEW o \in Operators, PortalStep(o) \/ StoreStep(o),
           NEW p \in Operators, p # o
    PROVE  call'[p] = call[p] /\ console'[p] = console[p]
<1>1. call \in [Operators -> Call] /\ console \in [Operators -> Console]
  BY DEF CopiesInv, TypeOK
<1>2. CASE PortalStep(o)
  BY <1>1, <1>2 DEF PortalStep, RefreshEvents, RefreshRoom, Wizard, SaveRoom, CreateEvent,
                    SetActiveEvent, LiveOverride, Send
<1>3. CASE StoreStep(o)
  BY <1>1, <1>3 DEF StoreStep, NewRoom, PutEvent, GetRoom, Activate, CheckRoom, PutRoom,
                    UpdateRoom, UpdateEvent, MirrorEvent, ReadActive, MirrorActive, Abort, Goto, Done
<1> QED BY <1>2, <1>3

LEMMA MirrorInit == Init => MirrorInv
<1> SUFFICES ASSUME Init, backend = "bridged" PROVE MirrorInv
  BY DEF MirrorInv
<1>1. FirstEvent \in Made /\ \A e \in Made : queueEvents[e] # NoConfig
  BY Patches, AdminAssumption DEF Init, Made, Seeded, NoEvents, Config
<1>2. \A o \in Operators : call[o] = Idle /\ console[o] = [room |-> room, events |-> Made]
  BY DEF Init
<1> QED BY <1>1, <1>2, AdminAssumption DEF Init, MirrorInv, Idle

LEMMA MirrorStep == CopiesInv /\ MirrorInv /\ [Next]_vars => MirrorInv'
<1> SUFFICES ASSUME CopiesInv, MirrorInv, [Next]_vars, backend' = "bridged"
             PROVE  MirrorInv'
  BY DEF MirrorInv
<1> USE AdminAssumption
<1>1. backend = "bridged"
  BY DEF Next, ReplicateRoom, PortalStep, RefreshEvents, RefreshRoom, Wizard, SaveRoom, CreateEvent,
         SetActiveEvent, LiveOverride, Send, StoreStep, NewRoom, PutEvent, GetRoom, Activate, CheckRoom,
         PutRoom, UpdateRoom, UpdateEvent, MirrorEvent, ReadActive, MirrorActive, Abort, fixed, vars
<1>2. /\ \A e \in Made : queueEvents[e] # NoConfig \/ \E p \in Operators : Telling(p, e)
      /\ room \in Events /\ roomLag = room
      /\ \A p \in Operators :
          /\ console[p].events # {}
          /\ console[p].room # NoEvent
          /\ call[p].pc \notin {"newRoom", "getRoom", "putRoom"}
          /\ call[p].pc = "checkRoom" => call[p].item \in Events
  BY <1>1 DEF MirrorInv
<1>3. /\ call \in [Operators -> Call] /\ console \in [Operators -> Console]
      /\ events \in Table /\ queueEvents \in Table /\ Made \subseteq Events /\ Made # {}
      /\ \A p \in Operators : SoundCall(call[p], Made)
  <2>1. room \in Made
    BY <1>2 DEF CopiesInv, StoresExist
  <2> QED BY <2>1 DEF CopiesInv, TypeOK, Made
<1>4. CASE ReplicateRoom \/ UNCHANGED vars
  BY <1>2, <1>4 DEF ReplicateRoom, vars, fixed, mirror, MirrorInv, Telling, Made
<1>5. ASSUME NEW o \in Operators, PortalStep(o) \/ StoreStep(o) PROVE MirrorInv'
  <2>1. \A p \in Operators \ {o} : call'[p] = call[p] /\ console'[p] = console[p]
    BY <1>5, OthersAside
  \* What is left to show of a step: its own request, the room, and the events told.
  <2>2. ASSUME /\ room' \in Events /\ roomLag' = room'
               /\ console'[o].events # {} /\ console'[o].room # NoEvent
               /\ call'[o].pc \notin {"newRoom", "getRoom", "putRoom"}
               /\ call'[o].pc = "checkRoom" => call'[o].item \in Events
               /\ \A e \in Made' : queueEvents'[e] # NoConfig
                                   \/ (\E p \in Operators : Telling(p, e))'
        PROVE  MirrorInv'
    <3>1. \A p \in Operators :
            /\ console'[p].events # {} /\ console'[p].room # NoEvent
            /\ call'[p].pc \notin {"newRoom", "getRoom", "putRoom"}
            /\ call'[p].pc = "checkRoom" => call'[p].item \in Events
      BY <1>2, <2>1, <2>2
    <3> QED BY <2>2, <3>1 DEF MirrorInv
  <2>3. ASSUME Made' = Made, queueEvents' = queueEvents,
               \A e \in Made : Telling(o, e) => Telling(o, e)'
        PROVE  \A e \in Made' : queueEvents'[e] # NoConfig \/ (\E p \in Operators : Telling(p, e))'
    BY <1>2, <2>1, <2>3 DEF Telling
  <2>4. CASE RefreshEvents(o) \/ RefreshRoom(o)
    <3>1. UNCHANGED <<fixed, stores, call>> /\ Made' = Made
      BY <2>4 DEF RefreshEvents, RefreshRoom, stores, Made
    <3>2. console'[o].events # {} /\ console'[o].room # NoEvent
      <4>1. CASE RefreshEvents(o)
        BY <1>2, <1>3, <4>1 DEF RefreshEvents, Console
      <4>2. CASE RefreshRoom(o)
        BY <1>2, <1>3, <4>2 DEF RefreshRoom, Console
      <4> QED BY <2>4, <4>1, <4>2
    <3> QED BY <1>2, <2>2, <2>3, <3>1, <3>2 DEF stores, mirror, Telling
  \* A request that is sent.
  <2>5. ASSUME NEW c, Send(o, c), c.pc \in {"putEvent", "checkRoom", "override"},
               c.pc = "checkRoom" => c.item \in Events
        PROVE  MirrorInv'
    <3>1. UNCHANGED <<stores, console>> /\ call[o] = Idle /\ call'[o] = c /\ Made' = Made
      BY <1>3, <2>5 DEF Send, stores, Made
    <3>2. \A e \in Made : ~Telling(o, e)
      BY <3>1 DEF Telling, Idle
    <3>3. UNCHANGED <<room, roomLag, queueEvents, console>>
      BY <3>1 DEF stores, mirror
    <3>4. \A e \in Made' : queueEvents'[e] # NoConfig \/ (\E p \in Operators : Telling(p, e))'
      BY <2>3, <3>1, <3>2, <3>3
    <3>5. c.pc \notin {"newRoom", "getRoom", "putRoom"}
      BY <2>5
    <3> QED BY <1>2, <2>2, <2>5, <3>1, <3>3, <3>4, <3>5
  <2>6. ~Wizard(o) /\ ~NewRoom(o) /\ ~GetRoom(o) /\ ~CheckRoom(o) /\ ~PutRoom(o) /\ ~Abort(o)
    BY <1>1, <1>2 DEF Wizard, NewRoom, GetRoom, CheckRoom, PutRoom, Abort
  <2>7. CASE SaveRoom(o)
    <3>1. console[o].room \in Events
      BY <1>2, <1>3, <2>7 DEF SaveRoom, CopiesInv, ShownExist, PutListedRoom
    <3> DEFINE c == [Idle EXCEPT !.pc = "checkRoom", !.item = console[o].room]
    <3>2. c.pc = "checkRoom" /\ c.item \in Events
      BY <3>1 DEF Idle
    <3>3. Send(o, c)
      BY <2>7 DEF SaveRoom, PutListedRoom
    <3> HIDE DEF c
    <3> QED BY <2>5, <3>2, <3>3
  <2>8. ASSUME NEW e \in Events, CreateEvent(o, e) \/ SetActiveEvent(o, e) PROVE MirrorInv'
    BY <2>5, <2>8 DEF CreateEvent, SetActiveEvent, Idle, PostEvent, PutListedRoom
  <2>9. ASSUME NEW e \in Events, NEW s \in Switches, LiveOverride(o, e, s) PROVE MirrorInv'
    BY <2>5, <2>9 DEF LiveOverride, Idle, PatchEvent
  <2>10. CASE PutEvent(o)
    <3>1. /\ UNCHANGED <<room, roomLag, mirror, console>>
          /\ call'[o].pc = "activate" /\ call'[o].event = call[o].event
          /\ events' = [events EXCEPT ![call[o].event] = call[o].patch]
      BY <1>1, <1>3, <2>10 DEF PutEvent, Goto, Call
    <3>2. \A e \in Made' : e \in Made \/ e = call[o].event
      BY <1>3, <3>1 DEF Made, Table
    <3>3. \A e \in Events : ~Telling(o, e)
      BY <2>10 DEF PutEvent, Telling
    <3>4. \A e \in Made' : queueEvents'[e] # NoConfig \/ (\E p \in Operators : Telling(p, e))'
      BY <1>2, <1>3, <2>1, <3>1, <3>2, <3>3 DEF Telling, mirror
    <3> QED BY <1>2, <2>2, <3>1, <3>4
  <2>11. CASE Activate(o)
    <3>1. /\ UNCHANGED <<room, roomLag, events, mirror, console>> /\ Made' = Made
          /\ call'[o].pc = "mirrorNew" /\ call'[o].event = call[o].event
      BY <1>2, <1>3, <2>11 DEF Activate, Goto, Call, Made
    <3> QED BY <1>2, <2>2, <2>3, <3>1 DEF Telling, mirror
  <2>12. CASE UpdateRoom(o)
    <3>1. call[o].item \in Events /\ call'[o].pc = "mirrorActive"
      BY <1>2, <1>3, <2>12 DEF UpdateRoom, Goto, Call
    <3>2. room' = call[o].item /\ roomLag' = room' /\ UNCHANGED <<events, mirror, console>>
          /\ Made' = Made
      BY <1>1, <1>2, <2>12 DEF UpdateRoom, WriteRoom, Made
    <3>3. \A e \in Made : ~Telling(o, e)
      BY <2>12 DEF UpdateRoom, Telling
    <3> QED BY <1>2, <2>2, <2>3, <3>1, <3>2, <3>3 DEF mirror
  <2>13. CASE UpdateEvent(o)
    <3>1. Made' = Made
      BY <2>13, OverrideMakesNone
    <3>2. UNCHANGED <<room, roomLag, mirror, console>> /\ call'[o].pc = "mirrorUpdate"
      BY <1>1, <1>3, <2>13 DEF UpdateEvent, Call
    <3>3. \A e \in Made : ~Telling(o, e)
      BY <2>13 DEF UpdateEvent, Telling
    <3> QED BY <1>2, <2>2, <2>3, <3>1, <3>2, <3>3 DEF mirror
  <2>14. CASE MirrorEvent(o)
    <3>1. UNCHANGED <<room, roomLag, events, console>> /\ Made' = Made
      BY <2>14 DEF MirrorEvent, Made
    <3>2. call'[o].pc \in {"readActive", "idle"}
      BY <1>3, <2>14 DEF MirrorEvent, Goto, Done, Idle, Call
    <3>3. call[o].event \in Made /\ call[o].patch \in Config
      BY <1>3, <2>14 DEF MirrorEvent, SoundCall
    <3>4. queueEvents' = [queueEvents EXCEPT ![call[o].event] = call[o].patch]
      BY <2>14 DEF MirrorEvent
    <3>5. queueEvents'[call[o].event] # NoConfig
      BY <1>3, <3>3, <3>4 DEF Table, Config
    <3>6. \A e \in Made \ {call[o].event} : queueEvents'[e] = queueEvents[e] /\ ~Telling(o, e)
      BY <1>3, <3>4 DEF Table, Telling
    <3>7. \A e \in Made' : queueEvents'[e] # NoConfig \/ (\E p \in Operators : Telling(p, e))'
      BY <1>2, <2>1, <3>1, <3>5, <3>6 DEF Telling
    <3> QED BY <1>2, <2>2, <3>1, <3>2, <3>7
  <2>15. CASE ReadActive(o) \/ MirrorActive(o)
    <3>1. /\ UNCHANGED <<room, roomLag, events, queueEvents, console>> /\ Made' = Made
          /\ call'[o].pc \in {"mirrorActive", "idle"}
      BY <1>3, <2>15 DEF ReadActive, MirrorActive, stores, mirror, Done, Idle, Made, Call
    <3>2. \A e \in Made : ~Telling(o, e)
      BY <2>15 DEF ReadActive, MirrorActive, Telling
    <3> QED BY <1>2, <2>2, <2>3, <3>1, <3>2
  <2>16. CASE PortalStep(o)
    BY <2>4, <2>6, <2>7, <2>8, <2>9, <2>16 DEF PortalStep
  <2>17. CASE StoreStep(o)
    BY <2>6, <2>10, <2>11, <2>12, <2>13, <2>14, <2>15, <2>17 DEF StoreStep
  <2> QED BY <1>5, <2>16, <2>17
<1> QED BY <1>4, <1>5 DEF Next

\* However requests of operators interleave, the local server's queue knows every
\* event that the admin store knows, or is about to be told.
THEOREM MirrorIsComplete == Spec => []MirrorComplete
<1>1. MirrorInv => MirrorComplete
  BY DEF MirrorInv, MirrorComplete, Telling
<1> QED BY <1>1, CopiesInit, CopiesStep, MirrorInit, MirrorStep, PTL DEF Spec

-----------------------------------------------------------------------------
\* Operators who are calm.

\* Where operators are calm, a step finds the others idle and leaves them so, and
\* late reads are not late.
LEMMA StepAlone ==
    ASSUME CopiesInv, calm, Alone, NEW o \in Operators, PortalStep(o) \/ StoreStep(o),
           call' # call
    PROVE  /\ \A p \in Operators \ {o} : call[p] = Idle /\ call'[p] = Idle
           /\ Alone'
<1> USE DEF CopiesInv
<1>1. call \in [Operators -> Call] /\ \A p \in Operators \ {o} : call'[p] = call[p]
  BY OthersAside DEF TypeOK
<1>2. \A p \in Operators \ {o} : call[p] = Idle
  <2>1. CASE PortalStep(o)
    BY <2>1 DEF PortalStep, RefreshEvents, RefreshRoom, Wizard, SaveRoom, CreateEvent,
                SetActiveEvent, LiveOverride, Send
  <2>2. CASE StoreStep(o)
    <3>1. call[o].pc # "idle" \/ call[o] # Idle
      BY <2>2 DEF StoreStep, NewRoom, PutEvent, GetRoom, Activate, CheckRoom, PutRoom, UpdateRoom,
                  UpdateEvent, MirrorEvent, ReadActive, MirrorActive, Abort
    <3>2. call[o] # Idle
      BY <3>1 DEF Idle
    <3> QED BY <3>2 DEF Alone
  <2> QED BY <2>1, <2>2
<1>3. roomLag' = room'
  <2>1. UNCHANGED <<room, roomLag>> \/ \E item : WriteRoom(item)
    <3>1. CASE PortalStep(o)
      BY <3>1 DEF PortalStep, RefreshEvents, RefreshRoom, Wizard, SaveRoom, CreateEvent,
                  SetActiveEvent, LiveOverride, Send, stores
    <3>2. CASE NewRoom(o) \/ PutRoom(o) \/ UpdateRoom(o) \/ Activate(o)
      BY <3>2 DEF NewRoom, PutRoom, UpdateRoom, Activate
    <3>3. CASE PutEvent(o) \/ GetRoom(o) \/ CheckRoom(o) \/ UpdateEvent(o) \/ MirrorEvent(o)
               \/ ReadActive(o) \/ MirrorActive(o) \/ Abort(o)
      BY <3>3 DEF PutEvent, GetRoom, CheckRoom, UpdateEvent, MirrorEvent, ReadActive,
                  MirrorActive, Abort, stores
    <3> QED BY <3>1, <3>2, <3>3 DEF StoreStep
  <2> QED BY <2>1 DEF Alone, WriteRoom, May
<1> QED BY <1>1, <1>2, <1>3 DEF Alone

LEMMA CalmInit == Init => CalmInv
<1> SUFFICES ASSUME Init PROVE CalmInv
  OBVIOUS
<1>1. \A o \in Operators : call[o] = Idle
  BY DEF Init
<1>2. Alone
  BY <1>1 DEF Alone, Init
<1>3. backend = "bridged" => InStep
  BY <1>1 DEF Init, InStep, HasEvent, Idle
<1>4. backend = "dynamo" => Activated
  BY <1>1, AdminAssumption DEF Init, Activated, Idle
<1> QED BY <1>2, <1>3, <1>4 DEF CalmInv

\* What a store has, of what the queue was not told: nothing, while nobody has a
\* request that is about to tell it.
LEMMA InStepKept ==
    ASSUME CopiesInv, MirrorInv, calm, Alone, InStep, backend = "bridged",
           NEW o \in Operators, PortalStep(o) \/ StoreStep(o), call' # call
    PROVE  InStep'
<1> USE DEF CopiesInv
<1>1. /\ call \in [Operators -> Call] /\ events \in Table /\ queueEvents \in Table
      /\ SoundCall(call[o], Made) /\ Made \subseteq Events
  BY DEF TypeOK, Made
<1>2. \A p \in Operators \ {o} : call[p] = Idle /\ call'[p] = Idle
  BY StepAlone
<1>3. /\ \A p \in Operators \ {o} : ~HasEvent(call[p]) /\ call[p].pc # "mirrorActive"
      /\ \A p \in Operators \ {o} : ~HasEvent(call'[p]) /\ call'[p].pc # "mirrorActive"
  BY <1>2 DEF HasEvent, Idle
<1>4. room \in Events
  BY DEF MirrorInv
\* It is enough to look at o.
<1>5. /\ \A e \in Events : queueEvents[e] = events[e] \/ (HasEvent(call[o]) /\ call[o].event = e)
      /\ HasEvent(call[o]) => call[o].patch = events[call[o].event]
      /\ call[o].pc = "mirrorActive" => call[o].item = room
      /\ queueActive = room \/ call[o].pc = "mirrorActive"
  <2>1. \A e \in Events : queueEvents[e] = events[e] \/ (HasEvent(call[o]) /\ call[o].event = e)
    <3> TAKE e \in Events
    <3>1. CASE queueEvents[e] # events[e]
      <4>1. PICK p \in Operators : HasEvent(call[p]) /\ call[p].event = e
        BY <3>1 DEF InStep
      <4>2. p = o
        BY <1>3, <4>1
      <4> QED BY <4>1, <4>2 DEF HasEvent
    <3> QED BY <3>1
  <2>2. queueActive = room \/ call[o].pc = "mirrorActive"
    BY <1>3 DEF InStep
  <2>3. HasEvent(call[o]) => call[o].patch = events[call[o].event]
    BY DEF InStep
  <2> QED BY <2>1, <2>2, <2>3 DEF InStep
<1>6. ASSUME /\ \A e \in Events : queueEvents'[e] = events'[e] \/ (HasEvent(call'[o]) /\ call'[o].event = e)
             /\ HasEvent(call'[o]) => call'[o].patch = events'[call'[o].event]
             /\ call'[o].pc = "mirrorActive" => call'[o].item = room'
             /\ queueActive' = room' \/ call'[o].pc = "mirrorActive"
      PROVE  InStep'
  <2>1. \A p \in Operators : HasEvent(call'[p]) => call'[p].patch = events'[call'[p].event]
    BY <1>3, <1>6
  <2>2. \A e \in Events : queueEvents'[e] = events'[e] \/ \E p \in Operators : HasEvent(call'[p]) /\ call'[p].event = e
    BY <1>6
  <2>3. \A p \in Operators : call'[p].pc = "mirrorActive" => call'[p].item = room'
    BY <1>3, <1>6
  <2> QED BY <1>6, <2>1, <2>2, <2>3 DEF InStep
<1>7. CASE PortalStep(o)
  <2>1. ASSUME NEW c, Send(o, c), c.pc \in {"newRoom", "putEvent", "checkRoom", "override"}
        PROVE  InStep'
    <3>1. call[o] = Idle /\ call'[o] = c /\ UNCHANGED <<room, events, queueEvents, queueActive>>
      BY <1>1, <2>1 DEF Send, stores, mirror
    <3>2. ~HasEvent(call[o]) /\ call[o].pc # "mirrorActive"
      BY <3>1 DEF HasEvent, Idle
    <3>3. ~HasEvent(call'[o]) /\ call'[o].pc # "mirrorActive"
      BY <2>1, <3>1 DEF HasEvent
    <3>4. \A e \in Events : queueEvents'[e] = events'[e]
      BY <1>5, <3>1, <3>2
    <3>5. queueActive' = room'
      BY <1>5, <3>1, <3>2
    <3> QED BY <1>6, <3>3, <3>4, <3>5
  <2>2. ~RefreshEvents(o) /\ ~RefreshRoom(o)
    BY DEF RefreshEvents, RefreshRoom
  <2>3. CASE Wizard(o)
    BY <2>1, <2>3 DEF Wizard, Idle, PostRoom
  <2>4. CASE SaveRoom(o)
    <3> DEFINE c == [Idle EXCEPT !.pc = "checkRoom", !.item = console[o].room]
    <3>1. c.pc = "checkRoom" /\ Send(o, c)
      BY <2>4 DEF SaveRoom, Idle, PutListedRoom
    <3> HIDE DEF c
    <3> QED BY <2>1, <3>1
  <2>5. ASSUME NEW e \in Events, CreateEvent(o, e) \/ SetActiveEvent(o, e) PROVE InStep'
    BY <2>1, <2>5 DEF CreateEvent, SetActiveEvent, Idle, PostEvent, PutListedRoom
  <2>6. ASSUME NEW e \in Events, NEW s \in Switches, LiveOverride(o, e, s) PROVE InStep'
    BY <2>1, <2>6 DEF LiveOverride, Idle, PatchEvent
  <2> QED BY <1>7, <2>2, <2>3, <2>4, <2>5, <2>6 DEF PortalStep
<1>8. CASE PutEvent(o)
  <2>1. /\ call'[o].pc = "activate" /\ call'[o].event = call[o].event /\ call'[o].patch = call[o].patch
        /\ UNCHANGED <<room, queueEvents, queueActive>>
        /\ events' = [events EXCEPT ![call[o].event] = call[o].patch]
    BY <1>1, <1>8 DEF PutEvent, Goto, Call, mirror
  <2>2. call[o].event \in Events
    BY <1>1, <1>8 DEF PutEvent, SoundCall
  <2>3. ~HasEvent(call[o]) /\ call[o].pc # "mirrorActive" /\ HasEvent(call'[o])
    BY <1>8, <2>1 DEF PutEvent, HasEvent
  <2>4. events'[call[o].event] = call[o].patch
        /\ \A e \in Events \ {call[o].event} : events'[e] = events[e]
    BY <1>1, <2>1, <2>2 DEF Table
  <2> QED BY <1>5, <1>6, <2>1, <2>3, <2>4
<1>9. CASE Activate(o)
  <2>1. /\ call'[o].pc = "mirrorNew" /\ call'[o].event = call[o].event /\ call'[o].patch = call[o].patch
        /\ UNCHANGED <<room, events, queueEvents, queueActive>> /\ call[o].pc = "activate"
    BY <1>1, <1>4, <1>9, AdminAssumption DEF Activate, Goto, Call, mirror
  <2> QED BY <1>5, <1>6, <2>1 DEF HasEvent
<1>10. CASE UpdateRoom(o)
  <2>1. room # NoRoom /\ call[o].item # NoEvent /\ call[o].pc = "checkRoom"
    BY <1>4, <1>10, AdminAssumption DEF UpdateRoom, MirrorInv
  <2>2. /\ call'[o].pc = "mirrorActive" /\ call'[o].item = call[o].item /\ room' = call[o].item
        /\ UNCHANGED <<events, queueEvents, queueActive>>
    BY <1>1, <1>10, <2>1 DEF UpdateRoom, WriteRoom, Goto, Call, mirror
  <2>3. \A e \in Events : queueEvents'[e] = events'[e]
    BY <1>5, <2>1, <2>2 DEF HasEvent
  <2>4. ~HasEvent(call'[o])
    BY <2>2 DEF HasEvent
  <2> QED BY <1>6, <2>2, <2>3, <2>4
<1>11. CASE UpdateEvent(o)
  <2>1. /\ call'[o].pc = "mirrorUpdate" /\ call'[o].event = call[o].event
        /\ call'[o].patch = events'[call[o].event] /\ call[o].pc = "override"
        /\ UNCHANGED <<room, queueEvents, queueActive>>
    BY <1>1, <1>11 DEF UpdateEvent, Call, mirror
  <2>2. \A e \in Events : e # call[o].event => events'[e] = events[e]
    BY <1>11, OverrideMakesNone
  <2> QED BY <1>5, <1>6, <2>1, <2>2 DEF HasEvent
<1>12. CASE MirrorEvent(o)
  <2>1. /\ call[o].pc \in {"mirrorNew", "mirrorUpdate"} /\ call'[o].pc \in {"readActive", "idle"}
        /\ UNCHANGED <<room, events, queueActive>>
        /\ queueEvents' = [queueEvents EXCEPT ![call[o].event] = call[o].patch]
    BY <1>1, <1>12 DEF MirrorEvent, Goto, Done, Idle, Call
  <2>2. HasEvent(call[o]) /\ ~HasEvent(call'[o]) /\ call[o].event \in Events
    BY <1>1, <2>1 DEF HasEvent, SoundCall
  <2>3. \A e \in Events : queueEvents'[e] = events'[e]
    BY <1>1, <1>5, <2>1, <2>2 DEF Table
  <2>4. queueActive' = room' /\ call'[o].pc # "mirrorActive"
    BY <1>5, <2>1
  <2> QED BY <1>6, <2>2, <2>3, <2>4
<1>13. CASE ReadActive(o)
  <2>1. /\ call[o].pc = "readActive" /\ call'[o].pc = "mirrorActive" /\ call'[o].item = room
        /\ UNCHANGED <<room, events, queueEvents, queueActive>>
    BY <1>1, <1>4, <1>13 DEF ReadActive, stores, mirror, Call
  <2>2. \A e \in Events : queueEvents'[e] = events'[e]
    BY <1>5, <2>1 DEF HasEvent
  <2>3. ~HasEvent(call'[o])
    BY <2>1 DEF HasEvent
  <2>4. queueActive' = room' \/ call'[o].pc = "mirrorActive"
    BY <1>5, <2>1
  <2>5. call'[o].pc = "mirrorActive" => call'[o].item = room'
    BY <2>1
  <2> QED BY <1>6, <2>2, <2>3, <2>4, <2>5
<1>14. CASE MirrorActive(o)
  <2>1. /\ call[o].pc = "mirrorActive" /\ call'[o].pc = "idle" /\ queueActive' = call[o].item
        /\ UNCHANGED <<room, events, queueEvents>>
    BY <1>1, <1>14 DEF MirrorActive, Done, Idle
  <2>2. \A e \in Events : queueEvents'[e] = events'[e]
    BY <1>5, <2>1 DEF HasEvent
  <2>3. ~HasEvent(call'[o])
    BY <2>1 DEF HasEvent
  <2>4. queueActive' = room' \/ call'[o].pc = "mirrorActive"
    BY <1>5, <2>1
  <2>5. call'[o].pc = "mirrorActive" => call'[o].item = room'
    BY <2>1
  <2> QED BY <1>6, <2>2, <2>3, <2>4, <2>5
<1>15. ~NewRoom(o) /\ ~GetRoom(o) /\ ~CheckRoom(o) /\ ~PutRoom(o) /\ ~Abort(o)
  BY DEF MirrorInv, NewRoom, GetRoom, CheckRoom, PutRoom, Abort
<1> QED BY <1>7, <1>8, <1>9, <1>10, <1>11, <1>12, <1>13, <1>14, <1>15 DEF StoreStep

\* With DynamoDB, while operators are calm, a room without an active event is one
\* without events, or one that somebody is about to complete.
LEMMA ActivatedKept ==
    ASSUME CopiesInv, calm, Alone, Activated, backend = "dynamo",
           NEW o \in Operators, PortalStep(o) \/ StoreStep(o), call' # call
    PROVE  Activated'
<1> USE DEF CopiesInv
<1>1. /\ call \in [Operators -> Call] /\ events \in Table
      /\ SoundCall(call[o], Made) /\ Made \subseteq Events /\ roomLag = room
  BY DEF TypeOK, Made, Alone
<1>2. \A p \in Operators \ {o} : call[p] = Idle /\ call'[p] = Idle
  BY StepAlone
\* It is enough to look at o.
<1>3. room = NoEvent /\ Made # {} => call[o].pc \in {"putEvent", "getRoom", "putRoom"}
  BY <1>2 DEF Activated, Activating, Idle
<1>4. ASSUME room' = NoEvent /\ Made' # {} => call'[o].pc \in {"putEvent", "getRoom", "putRoom"},
             call'[o].pc \in {"checkRoom", "putRoom"} => call'[o].item # NoEvent \/ Made' = {}
      PROVE  Activated'
  <2>1. \A p \in Operators \ {o} : call'[p].pc \notin {"checkRoom", "putRoom"}
    BY <1>2 DEF Idle
  <2>2. room' = NoEvent /\ Made' # {} =>
           \E p \in Operators : call'[p].pc \in {"putEvent", "getRoom", "putRoom"}
    BY <1>4
  <2>3. \A p \in Operators :
           call'[p].pc \in {"checkRoom", "putRoom"} => call'[p].item # NoEvent \/ Made' = {}
    BY <1>4, <2>1
  <2> QED BY <2>2, <2>3 DEF Activated, Activating
<1>5. CASE PortalStep(o)
  <2>1. ASSUME NEW c, Send(o, c),
               c.pc \notin {"newRoom", "putEvent", "override"} => c.item \in {room} \cup Events
        PROVE  Activated'
    <3>1. call[o] = Idle /\ call'[o] = c /\ room' = room /\ Made' = Made
      BY <1>1, <2>1 DEF Send, stores, mirror, Made
    <3>2. room = NoEvent => Made = {}
      BY <1>3, <3>1 DEF Idle
    <3>3. c.pc \in {"checkRoom", "putRoom"} => c.item # NoEvent \/ Made = {}
      BY <2>1, <3>2, AdminAssumption
    <3> QED BY <1>4, <3>1, <3>2, <3>3
  <2>2. ~RefreshEvents(o) /\ ~RefreshRoom(o)
    BY DEF RefreshEvents, RefreshRoom
  <2>3. CASE Wizard(o)
    BY <2>1, <2>3 DEF Wizard, Idle, PostRoom
  <2>4. ASSUME NEW c, Send(o, c) PROVE console[o].room = room
    BY <2>4 DEF Send, Current
  <2>5. CASE SaveRoom(o)
    <3> DEFINE c == [Idle EXCEPT !.pc = "checkRoom", !.item = console[o].room]
    <3>1. c.item = console[o].room /\ Send(o, c)
      BY <2>5 DEF SaveRoom, Idle, PutListedRoom
    <3> HIDE DEF c
    <3> QED BY <2>1, <2>4, <3>1
  <2>6. ASSUME NEW e \in Events, SetActiveEvent(o, e) PROVE Activated'
    <3> DEFINE c == [Idle EXCEPT !.pc = "checkRoom", !.item = e]
    <3>1. c.item = e /\ Send(o, c)
      BY <2>6 DEF SetActiveEvent, Idle, PutListedRoom
    <3> HIDE DEF c
    <3> QED BY <2>1, <2>4, <3>1
  <2>7. ASSUME NEW e \in Events, CreateEvent(o, e) PROVE Activated'
    BY <2>1, <2>7 DEF CreateEvent, Idle, PostEvent
  <2>8. ASSUME NEW e \in Events, NEW s \in Switches, LiveOverride(o, e, s) PROVE Activated'
    BY <2>1, <2>8 DEF LiveOverride, Idle, PatchEvent
  <2> QED BY <1>5, <2>2, <2>3, <2>5, <2>6, <2>7, <2>8 DEF PortalStep
<1>6. CASE NewRoom(o)
  <2>1. call'[o].pc = "putEvent"
    BY <1>1, <1>6 DEF NewRoom, Goto, Call
  <2> QED BY <1>4, <2>1
<1>7. CASE PutEvent(o)
  <2>1. call'[o].pc = "getRoom"
    BY <1>1, <1>7 DEF PutEvent, Goto, Call
  <2> QED BY <1>4, <2>1
<1>8. CASE GetRoom(o)
  <2>1. room' = room /\ Made' = Made /\ call[o].event \in Made
    BY <1>1, <1>8 DEF GetRoom, stores, Made, SoundCall
  <2>2. \/ room = NoEvent /\ call'[o].pc = "putRoom" /\ call'[o].item = call[o].event
        \/ room # NoEvent /\ call'[o].pc = "idle"
    BY <1>1, <1>8 DEF GetRoom, Done, Idle, Call
  <2> QED BY <1>1, <1>4, <2>1, <2>2, AdminAssumption
<1>9. CASE CheckRoom(o)
  <2>1. room' = room /\ Made' = Made /\ call[o].pc = "checkRoom"
    BY <1>9 DEF CheckRoom, stores, Made
  <2>2. \/ room = NoRoom /\ call'[o].pc = "idle"
        \/ call'[o].pc = "putRoom" /\ call'[o].item = call[o].item
    BY <1>1, <1>9 DEF CheckRoom, Done, Goto, Idle, Call
  <2>3. call[o].item # NoEvent \/ Made = {}
    BY <2>1 DEF Activated
  <2> QED BY <1>4, <2>1, <2>2, <2>3, AdminAssumption
<1>10. CASE PutRoom(o)
  <2>1. room' = call[o].item /\ Made' = Made /\ call'[o].pc = "idle"
    BY <1>1, <1>10 DEF PutRoom, WriteRoom, Done, Idle, Made
  <2>2. call[o].item # NoEvent \/ Made = {}
    BY <1>10 DEF PutRoom, Activated
  <2> QED BY <1>4, <2>1, <2>2
<1>11. CASE UpdateEvent(o)
  <2>1. room' = room /\ call[o].pc = "override" /\ call'[o].pc = "idle"
    BY <1>1, <1>11 DEF UpdateEvent, Done, Idle
  <2>2. Made' = Made
    BY <1>11, OverrideMakesNone
  <2> QED BY <1>3, <1>4, <2>1, <2>2
<1>12. ~Abort(o) /\ ~UpdateRoom(o)
  BY DEF Abort, UpdateRoom, May
<1>13. CASE Activate(o) \/ MirrorEvent(o) \/ ReadActive(o) \/ MirrorActive(o)
  <2>1. /\ call[o].pc \in {"activate", "mirrorNew", "mirrorUpdate", "readActive", "mirrorActive"}
        /\ call'[o].pc \in {"mirrorNew", "readActive", "mirrorActive", "idle"}
        /\ Made' = Made
    BY <1>1, <1>13 DEF Activate, MirrorEvent, ReadActive, MirrorActive, stores, Made, Goto, Done, Idle, Call
  <2>2. room' = NoEvent => room = NoEvent
    <3>1. CASE Activate(o)
      <4>1. call[o].event \in Events
        BY <1>1, <3>1 DEF Activate, SoundCall
      <4> QED BY <3>1, <4>1, AdminAssumption DEF Activate, WriteRoom
    <3>2. CASE MirrorEvent(o) \/ ReadActive(o) \/ MirrorActive(o)
      BY <3>2 DEF MirrorEvent, ReadActive, MirrorActive, stores
    <3> QED BY <1>13, <3>1, <3>2
  <2> QED BY <1>3, <1>4, <2>1, <2>2
<1> QED BY <1>5, <1>6, <1>7, <1>8, <1>9, <1>10, <1>11, <1>12, <1>13 DEF StoreStep

LEMMA CalmStep == CopiesInv /\ MirrorInv /\ CalmInv /\ [Next]_vars => CalmInv'
<1> SUFFICES ASSUME CopiesInv, MirrorInv, CalmInv, [Next]_vars, calm'
             PROVE  Alone' /\ (backend' = "bridged" => InStep') /\ (backend' = "dynamo" => Activated')
  BY DEF CalmInv
<1>1. UNCHANGED fixed
  BY DEF Next, ReplicateRoom, PortalStep, RefreshEvents, RefreshRoom, Wizard, SaveRoom, CreateEvent,
         SetActiveEvent, LiveOverride, Send, StoreStep, NewRoom, PutEvent, GetRoom, Activate, CheckRoom,
         PutRoom, UpdateRoom, UpdateEvent, MirrorEvent, ReadActive, MirrorActive, Abort, fixed, vars
<1>2. calm /\ backend' = backend /\ Alone
      /\ (backend = "bridged" => InStep) /\ (backend = "dynamo" => Activated)
  BY <1>1 DEF CalmInv, fixed
<1>3. CASE UNCHANGED <<room, events, mirror, call>> /\ roomLag' = room'
  BY <1>2, <1>3 DEF Alone, InStep, HasEvent, Activated, Activating, Made, mirror
<1>4. CASE ReplicateRoom \/ UNCHANGED vars
  BY <1>2, <1>3, <1>4 DEF ReplicateRoom, vars, Alone, mirror
<1>5. ASSUME NEW o \in Operators, PortalStep(o) \/ StoreStep(o), call' = call
      PROVE  UNCHANGED <<room, events, mirror, call>> /\ roomLag' = room'
  <2>1. call \in [Operators -> Call]
    BY DEF CopiesInv, TypeOK
  <2>2. ~StoreStep(o)
    BY <1>5, <2>1 DEF StoreStep, NewRoom, PutEvent, GetRoom, Activate, CheckRoom, PutRoom, UpdateRoom,
                      UpdateEvent, MirrorEvent, ReadActive, MirrorActive, Abort, Goto, Done, Idle, Call
  <2>3. \A c : Send(o, c) => UNCHANGED <<room, roomLag, events, mirror>>
    BY DEF Send, stores
  <2>4. UNCHANGED <<room, roomLag, events, mirror>>
    BY <1>5, <2>2, <2>3 DEF PortalStep, RefreshEvents, RefreshRoom, Wizard, SaveRoom, CreateEvent,
                            SetActiveEvent, LiveOverride, stores
  <2> QED BY <1>2, <1>5, <2>4 DEF Alone
<1>6. ASSUME NEW o \in Operators, PortalStep(o) \/ StoreStep(o), call' # call
      PROVE  Alone' /\ (backend = "bridged" => InStep') /\ (backend = "dynamo" => Activated')
  BY <1>2, <1>6, StepAlone, InStepKept, ActivatedKept
<1> QED BY <1>2, <1>3, <1>4, <1>5, <1>6 DEF Next

\* When operators take turns, the local server's queue serves every event as the
\* admin store has it, and sends visitors to the same one, between their requests.
THEOREM MirrorKeepsStep == Spec => []MirrorInStep
<1>1. CopiesInv /\ CalmInv => MirrorInStep
  <2> SUFFICES ASSUME CopiesInv, CalmInv, calm, Resting, backend = "bridged"
               PROVE  queueEvents = events /\ queueActive = room
    BY DEF MirrorInStep
  <2>1. InStep /\ \A o \in Operators : call[o].pc = "idle"
    BY DEF CalmInv, Resting, Idle
  <2>2. \A e \in Events : queueEvents[e] = events[e]
    BY <2>1 DEF InStep, HasEvent
  <2>3. queueEvents \in Table /\ events \in Table
    BY DEF CopiesInv, TypeOK
  <2> QED BY <2>1, <2>2, <2>3 DEF InStep, Table
<1> QED BY <1>1, CopiesInit, CopiesStep, MirrorInit, MirrorStep, CalmInit, CalmStep, PTL DEF Spec

\* When operators take turns and nothing fails, a room and an event together mean
\* an active event, between their requests.
THEOREM RoomIsActivated == Spec => []ActivatedInTurn
<1>1. CopiesInv /\ MirrorInv /\ CalmInv => ActivatedInTurn
  <2> SUFFICES ASSUME CopiesInv, MirrorInv, CalmInv, calm, Resting, Made # {}
               PROVE  room # NoEvent
    BY DEF ActivatedInTurn
  <2>1. \A o \in Operators : call[o].pc = "idle"
    BY DEF Resting, Idle
  <2>2. CASE backend = "dynamo"
    BY <2>1, <2>2 DEF CalmInv, Activated, Activating
  <2>3. CASE backend = "bridged"
    BY <2>3, AdminAssumption DEF MirrorInv
  <2>4. backend \in {"dynamo", "bridged"}
    BY AdminAssumption DEF CopiesInv, TypeOK
  <2> QED BY <2>2, <2>3, <2>4
<1> QED BY <1>1, CopiesInit, CopiesStep, MirrorInit, MirrorStep, CalmInit, CalmStep, PTL DEF Spec
=============================================================================
