\* Scheduled, retried and overlapping refreshes of two KPIs.
SPECIFICATION FairSpec
CONSTANTS
    Tracked <- MCTracked
    Runs = {r1, r2}
    MaxOrders = 1
    MaxChanges = 2
    MaxAsks = 1
    MaxFaults = 1
INVARIANTS
    TypeOK
    HealthPlausible
    RefreshComplete
PROPERTY
    DashboardCatchesUp
