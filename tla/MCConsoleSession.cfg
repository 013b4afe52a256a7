SPECIFICATION FairSpec

CONSTANTS
    c1 = c1
    c2 = c2
    Calls <- MCCalls
    Roles = {"super_admin", "sub_admin"}
    MaxVersion = 2

INVARIANTS
    TypeOK
    OneRefresh
    EffectOnce
PROPERTIES
    FailureHasCause
    CallsSettle
