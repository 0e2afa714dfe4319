\* Polls read the event and the counter late, the operator pauses and opens the queue,
\* and clients keep polling.
CONSTANTS
    c1 = c1
    c2 = c2
    c3 = c3
    s1 = s1
    s2 = s2
    r1 = r1
    r2 = r2
    p1 = p1
    p2 = p2
    NoSession = NoSession
    Sessions = {s1, s2}
    Shards = {0}
    ShardOf <- OneShard
    RequestIds = {r1, r2}
    Throughputs = {1}
    Calls = {c1, c2}
    SessionOf <- TwoSession
    RequestOf <- TwoRequest
    Polls = {p1, p2}
    PolledBy <- OwnPolls
    Overrides <- Switching
    MaxServing = 2
    MaxAttempts = 2
    Faults = {"staleEvent", "staleServing"}
SPECIFICATION FairSpec
CHECK_DEADLOCK FALSE
INVARIANTS AdmittedInTurn AdmissionAdvancesServing
PROPERTIES EventuallyLetIn ImplementsTicketQueue
