\* The items the policy agent writes, without a thread.
SPECIFICATION RetrySpec
CONSTANTS
    NoId = NoId
    NoThread = NoThread
    Ids = {a1, a2}
    Threads = {t1}
    Reqs = {r1}
    HasThreadId = FALSE
    MaxFaults = 0
    MaxMessages = 0
PROPERTY
    DecisionReleases
