SPECIFICATION Spec

CONSTANTS
    p1 = p1
    p2 = p2
    p3 = p3
    k1 = k1
    k2 = k2
    a1 = a1
    Lifetime = Lifetime
    NoAccess = NoAccess
    NoKey = NoKey
    NoAgent = NoAgent
    Handlers <- OneProc
    Jobs <- OneProc
    Keys <- TwoKeys
    Agents <- OneAgent
    Durations <- OneOrLifetime
    Ops <- CompensatedOps
    Faults <- FailedCommit
    MaxFaults = 2
    MaxRequests = 2
    MaxSubs = 3
    MaxTime = 2
    MaxExpiry = 3

INVARIANTS
    TablesMatchTradingView
PROPERTIES
    CompensationRestores
