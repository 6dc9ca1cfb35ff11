\* Two decide requests at a time, with a fault and a message to a paused thread.
SPECIFICATION FairSpec
CONSTANTS
    NoId = NoId
    NoThread = NoThread
    Ids = {a1, a2}
    Threads = {t1}
    Reqs = {r1, r2}
    HasThreadId = TRUE
    MaxFaults = 1
    MaxMessages = 1
INVARIANT
    AuditedIsDecided
PROPERTIES
    ReleasedByDecision
    DecisionReleases
