\* Requests that overlap, while the tenant rotates its keys.
SPECIFICATION Spec
CONSTANTS
    Requests = {r1, r2}
    k1 = k1
    k2 = k2
    NoToken = NoToken
    Keys <- MCKeys
    FirstKeys <- MCFirstKeys
    Presented <- MCPresented
    Development = FALSE
    MaxRotations = 1
    MaxDepth = 3
    QueueSize = 2
INVARIANTS
    TypeOK
    AcceptedWasPublished
    LastingKeyKnown
    NothingRaw
    FailureTold
    NeverWaits
