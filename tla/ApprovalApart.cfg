\* Two decide requests at a time, which hold no copies of the same item.
SPECIFICATION ApartSpec
CONSTANTS
    NoId = NoId
    NoThread = NoThread
    Ids = {a1, a2, a3}
    Threads = {t1, t2}
    Reqs = {r1, r2}
    HasThreadId = TRUE
    MaxFaults = 2
    MaxMessages = 1
SYMMETRY Symmetry
INVARIANTS
    TypeOK
    AuditMatchesRecord
PROPERTY
    LedgerSpec
