--------------------------- MODULE MCAccessGrant ---------------------------
(* Small instances of AccessGrant for TLC.                                *)
EXTENDS AccessGrantLedger

CONSTANTS p1, p2, p3, k1, k2, a1

OneProc == {p1}
TwoProcs == {p1, p2}
TwoJobs == {p2, p3}
OneKey == {k1}
TwoKeys == {k1, k2}
OneAgent == {a1}

OneOrLifetime == {1, Lifetime}
OneUnit == {1}

AllOps == OpNames
RequestOps == {"submit", "cancel", "reject", "approve"}
CompensatedOps == {"submit", "cancel", "reject", "approve", "grant", "expire"}
JobOps == {"grant", "renew", "expire"}

StaleRevokeOps == {"grant", "expire", "revoke"}

AllFaults == FaultNames
NoFaults == {}
FailedCommit == {"db_error"}
JobFaults == {"tv_error", "tv_lost", "db_error", "crash"}
=============================================================================
