\* Clients that keep one request id poll it under whichever event they visit.
CONSTANTS
    s1 = s1
    s2 = s2
    s3 = s3
    r1 = r1
    r2 = r2
    r3 = r3
    Sessions = {s1, s2}
    RequestIds = {r1, r2, r3}
    Shards = {0, 1}
    ShardOf <- MCShardOf
    Events = {e1, e2}
    Throughputs = {1}
    VisitorTtl = 0
    ForeignPolls = TRUE
    MaxClock = 1
    MaxServing = 2
SPECIFICATION Spec
SYMMETRY Symmetry
INVARIANT AdmittedInTurn
