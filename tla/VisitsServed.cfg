\* Two browsers in a room with two events, everything that can go wrong.
CONSTANTS
    Default = ev1
    Events = {ev1, ev2}
    Browsers = {b1, b2}
    Faults = {"switch", "rotate", "expire", "links", "ttl", "enrollError", "pollError"}
    MaxLine = 3
    MaxKey = 2
    MaxServing = 3
    MaxFailures = 2
SPECIFICATION FairSpec
INVARIANTS
    TypeOK
    LetInByOwnEvent
    PollerHasPlace
PROPERTIES
    EachEventTickets
    GetsThrough
