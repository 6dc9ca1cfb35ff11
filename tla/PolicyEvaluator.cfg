\* evaluate_rules against its specification.
SPECIFICATION Spec
CONSTANTS
    V7 = V7
    V9 = V9
    NoVendor = NoVendor
    NoThreshold = NoThreshold
    MaxRules = 3
    Vendors <- MCVendors
    Proposals <- MCProposals
    RuleLists <- MCRuleLists
INVARIANTS
    TypeOK
    ForbiddenVendorDenied
    DecisionCorrect
    FallbackFollowsTiers
\* the function returns
CHECK_DEADLOCK FALSE
