\* A router that answers anything, and decisions that resume.
SPECIFICATION Spec
CONSTANTS
    V7 = V7
    V9 = V9
    NoVendor = NoVendor
    NoThreshold = NoThreshold
    M1042 = M1042
    M1001 = M1001
    NoMaterial = NoMaterial
    NoQty = NoQty
    NoProposal = NoProposal
    NoOutcome = NoOutcome
    DefaultMaterial = M1042
    Vendors <- MCVendors
    Materials <- MCMaterials
    OnHand <- MCOnHand
    Demand <- FewDemands
    RuleBooks <- MCRuleBooks
    Threads = {t1}
    Runs = {r1}
    Obedient = FALSE
    HasThreadId = TRUE
    MaxRuns = 2
    MaxHops = 4
    MaxItems = 2
INVARIANTS
    TypeOK
    ChatsCounted
    RecordsAreItems
    PauseIsQueued
\* runs are bounded
CHECK_DEADLOCK FALSE
