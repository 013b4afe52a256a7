SPECIFICATION FairSpec

CONSTANTS
    e1 = e1
    e2 = e2
    q1 = q1
    q2 = q2
    a = a
    b = b
    Ends <- MCEnds
    NoAccess = NoAccess
    MaxAttempts = 3
    Operators <- MCOperators
    Pairs <- MCPairs
    Configured = a
    NoPair = NoPair
    Nobody = Nobody

INVARIANTS
    TypeOK
    HeaderIsOnePair
    SessionSurvives
PROPERTIES
    ImplementsRemoteAccess
    CallReturns
