\* Overlapping runs on one thread, with a router that follows its prompt.
SPECIFICATION FairSpec
CONSTANTS
    V7 = V7
    V9 = V9
    NoVendor = NoVendor
    NoThreshold = NoThreshold
    M1042 = M1042
    M1001 = M1001
    NoMaterial = NoMaterial
    NoQty = NoQty
    NoProposal = NoProposal
    NoOutcome = NoOutcome
    DefaultMaterial = M1042
    Vendors <- MCVendors
    Materials <- MCMaterials
    OnHand <- OneLevel
    Demand <- TwoDemands
    RuleBooks <- MCRuleBooks
    Threads = {t1}
    Runs = {r1, r2}
    Obedient = TRUE
    HasThreadId = TRUE
    MaxRuns = 2
    MaxHops = 6
    MaxItems = 2
INVARIANTS
    AnswersTheQuestion
    FirstDecisionFits
    ReviewsOwnProposal
    OneInputDecisionFits
    OneReviewAtATime
PROPERTIES
    RunsAdvance
    RunEnds
\* runs are bounded
CHECK_DEADLOCK FALSE
