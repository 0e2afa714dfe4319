\* A message is delivered twice while the floodgates open and close, the event is
\* read late, the ADDs after an admission get lost and handlers die.
CONSTANTS
    c1 = c1
    c2 = c2
    c3 = c3
    s1 = s1
    s2 = s2
    r1 = r1
    r2 = r2
    p1 = p1
    p2 = p2
    NoSession = NoSession
    Sessions = {s1, s2}
    Shards = {0}
    ShardOf <- OneShard
    RequestIds = {r1, r2}
    Throughputs = {1}
    Calls = {c1, c2, c3}
    SessionOf <- ThreeSession
    RequestOf <- ThreeRequest
    Polls = {p1, p2}
    PolledBy <- OwnPolls
    Overrides <- Opening
    MaxServing = 1
    MaxAttempts = 2
    Faults = {"staleEvent", "bumpLost", "crash"}
SPECIFICATION Spec
CHECK_DEADLOCK FALSE
INVARIANTS
    TypeOK
    AdmittedWithinServing
PROPERTY ServingNeverFalls
