\* A visitor with two tabs, while workers and pages fail.
CONSTANTS
    t1 = t1
    t2 = t2
    b1 = b1
    w1 = w1
    w2 = w2
    Ids = {1, 2}
    Workers = {w1, w2}
    BatchSize = 2
    Faults = {"duplicate", "dies", "unfit", "staleIndex", "addRepeated", "putError", "pause",
              "floodgates", "answerLost", "reload", "pollError", "challengeFails", "tokenExpires"}
    MaxFailures = 1
    Tabs = {t1, t2}
    Browsers = {b1}
    BrowserOf <- MCBrowserOf
    Deployments <- Separate
    NoId = NoId
    MaxLead = 1
SPECIFICATION FairSpec
CHECK_DEADLOCK FALSE
INVARIANTS
    TypeOK
    AcceptedIsKept
    PolledIsComing
    SiteOnlyWhenCalled
PROPERTIES
    ImplementsTicketQueue
    EventuallyServed
