\* One event, three sessions on two shards: a whole line, its expiry and its
\* admission under every override.
CONSTANTS
    s1 = s1
    s2 = s2
    s3 = s3
    r1 = r1
    r2 = r2
    r3 = r3
    Sessions = {s1, s2, s3}
    RequestIds = {r1, r2, r3}
    Shards = {0, 1}
    ShardOf <- MCShardOf
    Events = {e1}
    Throughputs = {0, 2}
    VisitorTtl = 0
    ForeignPolls = FALSE
    MaxClock = 2
    MaxServing = 3
SPECIFICATION Spec
SYMMETRY Symmetry
INVARIANTS
    TypeOK
    OneVisitorPerSession
    PositionsDense
    AdmittedInTurn
    AdmittedWithinServing
    StatsAddUp
PROPERTIES
    AdmissionKept
    ImplementsFairQueue
