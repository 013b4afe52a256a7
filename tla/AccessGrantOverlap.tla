------------------------- MODULE AccessGrantOverlap -------------------------
(***************************************************************************)
(* What is left of the promises of AccessGrant when operations overlap.    *)
(* The code checks in one statement and writes in another, and locks no    *)
(* row, so two operations on one pair of customer and script may both find *)
(* what only one of them should.  Here a history variable keeps, for every *)
(* goroutine, the pairs others have written since its operation began:     *)
(* whoever breaks a promise has been overtaken in this way on that very    *)
(* pair, and an operation that has not keeps all of them, even in tables   *)
(* others have spoiled before.                                             *)
(***************************************************************************)
EXTENDS AccessGrant

VARIABLE
    foreign   \* history: the pairs others have written since p's operation began

overlapVars == <<vars, foreign>>

Moves(p) == task'[p] # task[p]

Written == {k \in Keys : \/ \E r \in Requests : request'[r] # request[r] /\ request'[r].key = k
                         \/ \E i \in Subs : sub'[i] # sub[i] /\ sub'[i].key = k}

Watch == foreign' = [p \in Procs |-> IF At(p, "idle") \/ At(p, "idle")' THEN {}
                                     ELSE IF Moves(p) THEN foreign[p] ELSE foreign[p] \cup Written]

OverlapInit == Init /\ foreign = [p \in Procs |-> {}]

OverlapSpec == OverlapInit /\ [][Next /\ Watch]_overlapVars

-----------------------------------------------------------------------------
(* The promises, as a step may keep or break them for one pair.            *)

\* OneActive: a row becomes active only if none of the pair is.
AddsNoSecond(k) ==
    \A i \in Subs : sub'[i].key = k /\ sub'[i].status = "active" /\ sub[i].status # "active" => ActiveSubs(k) = {}

\* NoPendingDuplicates: a request is filed only if the agent has none pending.
FilesNoDuplicate(k) ==
    \A r \in Requests : request'[r].key = k /\ request'[r].status = "pending" /\ ~Pending(r) =>
                            ~PendingDuplicate(request'[r].agent, k)

\* RequestFinality: a decided request is left alone.
KeepsDecisions(k) ==
    \A r \in Requests : request[r].key = k /\ request[r].status \in {"approved", "rejected", "cancelled"} =>
                            request'[r].status = request[r].status

\* PaidTimeKept: no time is taken away before it is over.
KeepsTime(k) ==
    \A i \in Subs : sub[i].key = k /\ sub[i].status = "active" /\ sub[i].exp # Lifetime =>
        /\ sub'[i].status = "active" => sub'[i].exp = Lifetime \/ sub'[i].exp >= sub[i].exp
        /\ sub'[i].status = "expired" => sub[i].exp < now

\* A renewal or approval that has extended a row has added time to it.
AddsTime(p) ==
    At(p, "commit") /\ task[p].op \in {"approve", "renew"} /\ task[p].sub # 0 /\ faults' = faults =>
        LET row == sub[task[p].sub]
            new == sub'[task[p].sub]
        IN  /\ row.status = "active"
            /\ row.exp # Lifetime /\ new.exp # Lifetime => new.exp > row.exp

\* Whatever overlaps, fails or crashes, an operation on a pair that nobody else
\* has written since the operation began keeps what its checks promise: no
\* second active subscription, no duplicate request, no decision overturned,
\* no paid time taken away, no extension lost.
OnlyOverlapSpoils ==
    [][\A p \in Procs : Moves(p) =>
           \A k \in Keys \ foreign[p] :
               /\ AddsNoSecond(k) /\ FilesNoDuplicate(k) /\ KeepsDecisions(k) /\ KeepsTime(k)
               /\ k = task[p].key => AddsTime(p)]_overlapVars
=============================================================================
