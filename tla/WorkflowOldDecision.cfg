\* A second question on a thread whose first one was approved.
SPECIFICATION Spec
CONSTANTS
    V7 = V7
    V9 = V9
    NoVendor = NoVendor
    NoThreshold = NoThreshold
    M1042 = M1042
    M1001 = M1001
    NoMaterial = NoMaterial
    NoQty = NoQty
    NoProposal = NoProposal
    NoOutcome = NoOutcome
    DefaultMaterial = M1042
    Vendors <- MCVendors
    Materials <- MCMaterials
    OnHand <- MCOnHand
    Demand <- MCDemand
    RuleBooks <- Fallback
    Threads = {t1}
    Runs = {r1}
    Obedient = TRUE
    HasThreadId = FALSE
    MaxRuns = 2
    MaxHops = 6
    MaxItems = 1
INVARIANT
    DecisionFitsProposal
\* runs are bounded
CHECK_DEADLOCK FALSE
