\* Two managers decide the same item.
SPECIFICATION Spec
CONSTANTS
    NoId = NoId
    NoThread = NoThread
    Ids = {a1}
    Threads = {t1}
    Reqs = {r1, r2}
    HasThreadId = FALSE
    MaxFaults = 0
    MaxMessages = 0
PROPERTY
    DecidedOnce
