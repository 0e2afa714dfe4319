\* Two events, the first of which always fails, and invocations that overlap.
CONSTANTS
    Events = {1, 2}
    Throughputs = {0, 2}
    Broken = {1}
    Invocations = {i1, i2}
    MaxProcesses = 2
    MaxAttempts = 2
    MaxServing = 3
    MaxFailures = 2
SPECIFICATION FairSpec
CHECK_DEADLOCK FALSE
INVARIANTS
    TypeOK
    OneTickPerProcess
    NobodyPassedOver
PROPERTY NobodyStarves
