SPECIFICATION FairSpec

CONSTANTS
    w1 = w1
    w2 = w2
    n1 = n1
    a1 = a1
    a2 = a2
    Workers <- MCWorkers
    Names <- MCNames
    Agents <- MCAgents
    NoAgent = NoAgent
    Nobody = Nobody
    Pool = 2
    MaxOps = 3

PROPERTIES
    OperationsReturn
    OwnerKept
CHECK_DEADLOCK FALSE
