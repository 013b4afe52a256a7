------------------------ MODULE MCAccessGrantOverlap ------------------------
(***************************************************************************)
(* Overlapping operations of AccessGrant for TLC: two goroutines that run  *)
(* any operation on one pair of customer and script.                       *)
(***************************************************************************)
EXTENDS AccessGrantOverlap, TLC

CONSTANTS p1, p2, k1, a1

TwoProcs == {p1, p2}
OneKey == {k1}
OneAgent == {a1}
OneUnit == {1}
AllOps == OpNames
AllFaults == FaultNames

Symmetry == Permutations(TwoProcs)

\* A behaviour has a second request, or else a fault or a rejection: those that
\* are filed and that are being filed count.
Filed == {r \in Requests : request[r].status # "none"}
Filing == {p \in Procs : task[p].op = "submit"}
Rejecting == \/ \E p \in Procs : task[p].op = "reject"
             \/ \E r \in Requests : request[r].status = "rejected"
OneOrUneventful == faults > 0 \/ Rejecting => Cardinality(Filed) + Cardinality(Filing) <= 1

ConcurrentSpec == OverlapInit /\ [][Next /\ Watch /\ OneOrUneventful']_overlapVars
=============================================================================
