SPECIFICATION Spec

CONSTANTS
    p1 = p1
    p2 = p2
    p3 = p3
    k1 = k1
    k2 = k2
    a1 = a1
    Lifetime = Lifetime
    NoAccess = NoAccess
    NoKey = NoKey
    NoAgent = NoAgent
    Handlers <- TwoProcs
    Jobs <- OneProc
    Keys <- OneKey
    Agents <- OneAgent
    Durations <- OneUnit
    Ops <- RequestOps
    Faults <- NoFaults
    MaxFaults = 0
    MaxRequests = 2
    MaxSubs = 2
    MaxTime = 2
    MaxExpiry = 3

PROPERTIES
    RequestFinality
