SPECIFICATION FairSpec

CONSTANTS
    p1 = p1
    p2 = p2
    s1 = s1
    s2 = s2
    u1 = u1
    u2 = u2
    e1 = e1
    e2 = e2
    Handlers <- MCHandlers
    Jobs <- MCJobs
    Scripts <- MCScripts
    Broken <- MCBroken
    Users <- MCUsers
    Ends <- MCEnds
    NoScript = NoScript
    NoEnd = NoEnd
    PageSize = 1
    MaxPages = 1
    MaxChanges = 2
    MaxFaults = 1

PROPERTIES
    ExactSnapshot
    ResultAddsUp
    Converges
