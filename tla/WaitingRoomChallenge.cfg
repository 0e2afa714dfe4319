\* A visitor with two tabs, the enroll buffer and a challenge; nothing fails.
CONSTANTS
    t1 = t1
    t2 = t2
    b1 = b1
    w1 = w1
    w2 = w2
    Ids = {1, 2}
    Workers = {w1, w2}
    BatchSize = 2
    Faults = {}
    MaxFailures = 2
    Tabs = {t1, t2}
    Browsers = {b1}
    BrowserOf <- MCBrowserOf
    Deployments <- Combined
    NoId = NoId
    MaxLead = 1
SPECIFICATION Spec
CHECK_DEADLOCK FALSE
INVARIANT PolledIsComing
