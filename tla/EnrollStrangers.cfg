\* Three strangers enroll at once, their PUTs fail, applied or not, lookups are
\* out of date or see one page, and TTL deletes visitors.
CONSTANTS
    c1 = c1
    c2 = c2
    c3 = c3
    s1 = s1
    s2 = s2
    s3 = s3
    r1 = r1
    r2 = r2
    r3 = r3
    NoSession = NoSession
    Sessions = {s1, s2, s3}
    Shards = {0, 1}
    ShardOf <- StrangersShard
    RequestIds = {r1, r2, r3}
    Throughputs = {1}
    Calls = {c1, c2, c3}
    SessionOf <- StrangersSession
    RequestOf <- StrangersRequest
    MaxAttempts = 2
    Faults = {"putError", "ttl", "staleVisitors", "indexFails"}
SPECIFICATION EnrollSpec
CHECK_DEADLOCK FALSE
INVARIANTS
    NoOvertaking
    PositionNotBeforeRank
