SPECIFICATION ConcurrentSpec

CONSTANTS
    p1 = p1
    p2 = p2
    k1 = k1
    a1 = a1
    Lifetime = Lifetime
    NoAccess = NoAccess
    NoKey = NoKey
    NoAgent = NoAgent
    Handlers <- TwoProcs
    Jobs <- TwoProcs
    Keys <- OneKey
    Agents <- OneAgent
    Durations <- OneUnit
    Ops <- AllOps
    Faults <- AllFaults
    MaxFaults = 1
    MaxRequests = 2
    MaxSubs = 2
    MaxTime = 2
    MaxExpiry = 2

PROPERTIES
    ApprovalIsAtomic
    OnlyOverlapSpoils
SYMMETRY Symmetry
