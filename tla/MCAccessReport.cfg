SPECIFICATION Spec

CONSTANTS
    s1 = s1
    s2 = s2
    u1 = u1
    u2 = u2
    never = never
    Scripts <- MCScripts
    Enabled <- MCEnabled
    Users <- MCUsers
    Ends <- MCEnds
    Permanent = never
    NoScript = NoScript
    NoUser = NoUser
    Week = 1
    MaxSubs = 2
    MaxDay = 2
    MaxChanges = 4

SYMMETRY Symmetry
INVARIANTS
    ReportsAgree
    SummaryAddsUp
PROPERTIES
    AuditIsExact
    OverviewIsExact
