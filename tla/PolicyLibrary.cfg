\* A library that is republished, re-indexed and redeployed.
SPECIFICATION Spec
CONSTANTS
    None = None
    OVER = OVER
    FALLBACK = FALLBACK
    RAISED = RAISED
    NOT_A_LIST = NOT_A_LIST
    Docs = {d1, d2, sop}
    Policies = {d1, d2}
    Initial = {d1}
    Indexes = {v3, v4}
    Pods = {p1}
    Checks = {c1}
    Jobs = {j1, j2}
    Answers <- MCAnswers
    CacheSize = 2
    MaxVersion = 2
    MaxDay = 1
SYMMETRY Symmetry
INVARIANTS
    TypeOK
    RulesFromRetrieved
    SameTextSameRules
    NothingBeforeItsDay
    UploadTakesEffect
