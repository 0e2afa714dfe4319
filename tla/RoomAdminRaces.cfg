\* Two portals over either store: calm, and in races with stale reads, lists that
\* fail and handlers that die.
CONSTANTS
    Events = {first, second}
    Switches = {paused}
    Operators = {o1, o2}
    FirstEvent = first
    NoEvent = NoEvent
    NoConfig = NoConfig
    NoRoom = NoRoom
    Backends = {"dynamo", "bridged"}
    Faults = {"stale", "unlisted", "abort"}
SPECIFICATION Spec
SYMMETRY Symmetry
INVARIANT TypeOK
INVARIANT ActiveExists
INVARIANT MirrorComplete
INVARIANT MirrorInStep
INVARIANT ActivatedInTurn
