---------------------------- MODULE AccessReport ----------------------------
(***************************************************************************)
(* What the console reports about the snapshot tv_accesses: the overview,  *)
(* which classifies every access by its end and by the customer and the    *)
(* subscription behind it, and the audit, which lists the names that only  *)
(* one side has.                                                           *)
(*                                                                         *)
(* Both read table after table, in no transaction, while customers,        *)
(* subscriptions and the snapshot change.  A customer is named here by the *)
(* lower-case TradingView name, which is unique.  Reports change no table, *)
(* so it is enough to look at one at a time.                               *)
(***************************************************************************)
EXTENDS Integers, FiniteSets, Sequences, SequencesExt

CONSTANTS
    Scripts,
    Enabled,     \* scripts with status 1
    Users,       \* lower-case TradingView user names
    Ends,        \* expirations: days, or Permanent
    Permanent,   \* a NULL expiration
    NoScript, NoUser,  \* fillers
    Week,        \* days before its end that an access counts as expiring
    MaxSubs,     \* bound: rows of subscriptions
    MaxDay,      \* bound: the clock
    MaxChanges   \* bound: changes of the tables

ASSUME NumberAssumption == /\ Week \in Nat /\ MaxSubs \in Nat
                           /\ MaxDay \in Nat /\ MaxChanges \in Nat
ASSUME EndsAssumption == Permanent \notin Nat /\ Ends \subseteq Nat \cup {Permanent}
ASSUME ScriptsAssumption == Enabled \subseteq Scripts /\ NoScript \notin Scripts
ASSUME UsersAssumption == NoUser \notin Users

VARIABLES
    day,       \* the clock
    customer,  \* table customers: the names
    sub,       \* table subscriptions: script, user, status, granted of each row
    access,    \* table tv_accesses: script, user and end of the rows not removed,
               \* one of a pair at most (idx_script_tv_user)
    audit,     \* a run of the audit
    overview,  \* a request for the overview
    changes    \* changes so far

vars == <<day, customer, sub, access, audit, overview, changes>>

Subs == 1..MaxSubs
Pairs == Scripts \X Users

NoSub == [script |-> NoScript, user |-> NoUser, status |-> "none", granted |-> FALSE]

NoSubs == [i \in Subs |-> NoSub]

\* "touched" is history: the pairs that changed while the report was made.
AuditIdle == [pc |-> "idle", todo |-> {}, script |-> NoScript, tvSet |-> {},
              touched |-> {}]

OverviewIdle == [pc |-> "idle", only |-> {}, customer |-> {}, sub |-> NoSubs,
                 touched |-> {}]

Init ==
    /\ day = 0
    /\ customer \in SUBSET Users
    /\ sub = NoSubs
    /\ access = {}
    /\ audit = AuditIdle
    /\ overview = OverviewIdle
    /\ changes = 0

-----------------------------------------------------------------------------
(* The tables change: what the other services write.                       *)

Touch(pairs) ==
    /\ changes < MaxChanges
    /\ changes' = changes + 1
    /\ audit' = IF audit.pc = "subs"
                THEN [audit EXCEPT !.touched = @ \cup pairs] ELSE audit
    /\ overview' = IF overview.pc \in {"subs", "accesses"}
                   THEN [overview EXCEPT !.touched = @ \cup pairs] ELSE overview
    /\ UNCHANGED day

NewCustomer(u) ==
    /\ u \notin customer
    /\ customer' = customer \cup {u}
    /\ Touch(Scripts \X {u})
    /\ UNCHANGED <<sub, access>>

\* An approval or a grant.  Two of them at once may leave two active rows.
NewSub(s, u) ==
    /\ u \in customer
    /\ \E i \in Subs :
         /\ sub[i] = NoSub
         /\ \A j \in Subs : j < i => sub[j] # NoSub
         /\ sub' = [sub EXCEPT ![i] = [script |-> s, user |-> u,
                                       status |-> "active", granted |-> TRUE]]
    /\ Touch({<<s, u>>})
    /\ UNCHANGED <<customer, access>>

\* A revocation, or the expiry job.
EndSub(i) ==
    /\ sub[i].status = "active"
    /\ \E status \in {"expired", "revoked"} :
         sub' = [sub EXCEPT ![i].status = status, ![i].granted = FALSE]
    /\ Touch({<<sub[i].script, sub[i].user>>})
    /\ UNCHANGED <<customer, access>>

HeldBy(s, u) == {x \in access : x.script = s /\ x.user = u}

\* A run of the synchronisation writes what it found of one user.
SyncUser(s, u) ==
    /\ \E rows \in {{}} \cup {{[script |-> s, user |-> u, end |-> e]} : e \in Ends} :
         /\ rows # HeldBy(s, u)
         /\ access' = (access \ HeldBy(s, u)) \cup rows
    /\ Touch({<<s, u>>})
    /\ UNCHANGED <<customer, sub>>

Tick ==
    /\ day < MaxDay
    /\ day' = day + 1
    /\ UNCHANGED <<customer, sub, access, audit, overview, changes>>

Tables ==
    \/ \E u \in Users : NewCustomer(u)
    \/ \E s \in Scripts, u \in Users : NewSub(s, u) \/ SyncUser(s, u)
    \/ \E i \in Subs : EndSub(i)
    \/ Tick

-----------------------------------------------------------------------------
(* The audit.                                                              *)

AuditRun ==
    /\ audit.pc = "idle" /\ overview.pc = "idle"
    /\ audit' = [AuditIdle EXCEPT !.pc = "next", !.todo = Enabled]
    /\ UNCHANGED <<day, customer, sub, access, overview, changes>>

\* The accesses of the next script, or the operation log and the end.
AuditAccesses ==
    /\ audit.pc = "next"
    /\ IF audit.todo = {} THEN audit' = AuditIdle
       ELSE \E s \in audit.todo :
              audit' = [AuditIdle EXCEPT !.pc = "subs", !.script = s,
                          !.todo = audit.todo \ {s},
                          !.tvSet = {x.user : x \in {y \in access : y.script = s}}]
    /\ UNCHANGED <<day, customer, sub, access, overview, changes>>

\* Mutant: every subscription of the script counts.
DbSetAll(s) == {sub[i].user : i \in {j \in Subs : sub[j].script = s}}

DbSet(s) == {sub[i].user : i \in {j \in Subs : /\ sub[j].script = s
                                              /\ sub[j].status = "active"}}

MissingOnTV(tvSet, dbSet) == dbSet \ tvSet
ExtraOnTV(tvSet, dbSet) == tvSet \ dbSet

\* The subscriptions of that script: its entry is complete.
AuditSubscriptions ==
    /\ audit.pc = "subs"
    /\ audit' = [AuditIdle EXCEPT !.pc = "next", !.todo = audit.todo]
    /\ UNCHANGED <<day, customer, sub, access, overview, changes>>

\* A read fails: the run ends without a report.
AuditFails ==
    /\ audit.pc # "idle"
    /\ audit' = AuditIdle
    /\ UNCHANGED <<day, customer, sub, access, overview, changes>>

-----------------------------------------------------------------------------
(* The overview.                                                           *)

\* Of one script or of all of them.
OverviewList ==
    /\ audit.pc = "idle" /\ overview.pc = "idle"
    /\ \E only \in {Scripts} \cup {{s} : s \in Scripts} :
         overview' = [OverviewIdle EXCEPT !.pc = "customers", !.only = only]
    /\ UNCHANGED <<day, customer, sub, access, audit, changes>>

LoadCustomers ==
    /\ overview.pc = "customers"
    /\ overview' = [overview EXCEPT !.pc = "subs", !.customer = customer]
    /\ UNCHANGED <<day, customer, sub, access, audit, changes>>

LoadSubscriptions ==
    /\ overview.pc = "subs"
    /\ overview' = [overview EXCEPT !.pc = "accesses", !.sub = sub]
    /\ UNCHANGED <<day, customer, sub, access, audit, changes>>

LoadActiveTVAccesses ==
    /\ overview.pc = "accesses"
    /\ overview' = OverviewIdle
    /\ UNCHANGED <<day, customer, sub, access, audit, changes>>

OverviewFails ==
    /\ overview.pc # "idle"
    /\ overview' = OverviewIdle
    /\ UNCHANGED <<day, customer, sub, access, audit, changes>>

\* Mutant: the newest row, whatever its status.
ShouldPreferNewest(table, candidate, current) == candidate > current

\* An active row before any other, then the newer one.
ShouldPrefer(table, candidate, current) ==
    IF (table[candidate].status = "active") # (table[current].status = "active")
    THEN table[candidate].status = "active"
    ELSE candidate > current

\* loadSubscriptions goes through the rows from the newest to the oldest.
NewestFirst == [n \in Subs |-> MaxSubs + 1 - n]

\* The row that stands for a pair, or 0.
Shown(table, s, u) ==
    LET of(i) == table[i].script = s /\ table[i].user = u
        take(current, i) ==
            IF of(i) /\ (current = 0 \/ ShouldPrefer(table, i, current))
            THEN i ELSE current
    IN  FoldLeft(take, 0, NewestFirst)

classifyTVReconcileStatus(row) ==
    CASE row.status # "active" -> "db_inactive"
      [] row.status = "active" /\ ~ row.granted -> "grant_flag_mismatch"
      [] OTHER -> "matched_active"

ReconcileStatus(customers, table, s, u) ==
    IF u \notin customers THEN "no_customer"
    ELSE IF Shown(table, s, u) = 0 THEN "no_subscription"
    ELSE classifyTVReconcileStatus(table[Shown(table, s, u)])

\* Mutant: the seventh day is in no class.
AccessStatusGap(end) ==
    CASE end = Permanent -> "permanent"
      [] end # Permanent /\ end < day -> "expired"
      [] end # Permanent /\ end >= day /\ end < day + Week -> "expiring"
      [] end # Permanent /\ end > day + Week -> "active"
      [] OTHER -> "none"

AccessStatus(end) ==
    CASE end = Permanent -> "permanent"
      [] end # Permanent /\ end < day -> "expired"
      [] end # Permanent /\ end >= day /\ end <= day + Week -> "expiring"
      [] OTHER -> "active"

AccessStatuses == {"active", "expiring", "expired", "permanent"}
ReconcileStatuses == {"matched_active", "no_customer", "no_subscription",
                      "db_inactive", "grant_flag_mismatch"}

Rows(only, customers, table) ==
    {[script |-> x.script, user |-> x.user,
      access |-> AccessStatus(x.end),
      reconcile |-> ReconcileStatus(customers, table, x.script, x.user)] :
        x \in {y \in access : y.script \in only}}

\* The summary of the rows that are shown: one count per class.
Summary(rows) ==
    [total |-> Cardinality(rows),
     users |-> Cardinality({r.user : r \in rows}),
     access |-> [c \in AccessStatuses |->
                   Cardinality({r \in rows : r.access = c})],
     reconcile |-> [c \in ReconcileStatuses |->
                      Cardinality({r \in rows : r.reconcile = c})]]

-----------------------------------------------------------------------------
Next ==
    \/ Tables
    \/ AuditRun \/ AuditAccesses \/ AuditSubscriptions \/ AuditFails
    \/ OverviewList \/ LoadCustomers \/ LoadSubscriptions
    \/ LoadActiveTVAccesses \/ OverviewFails

Spec == Init /\ [][Next]_vars

-----------------------------------------------------------------------------
(* Properties.                                                             *)

ActiveSub(s, u) == \E i \in Subs : /\ sub[i].script = s /\ sub[i].user = u
                                   /\ sub[i].status = "active"

\* The entry of a script is right about every pair that did not change while
\* the two tables were read, whatever else did: it is reported missing exactly
\* if it has an active subscription and no access, and extra the other way.
AuditIsExact ==
    [][AuditSubscriptions =>
         LET s == audit.script
         IN  \A u \in Users : <<s, u>> \notin audit.touched =>
               /\ u \in MissingOnTV(audit.tvSet, DbSet(s))
                    <=> ActiveSub(s, u) /\ HeldBy(s, u) = {}
               /\ u \in ExtraOnTV(audit.tvSet, DbSet(s))
                    <=> ~ ActiveSub(s, u) /\ HeldBy(s, u) # {}]_vars

\* The overview shows a matched access exactly for the pairs with an active
\* subscription, although older and newer rows of the pair may have ended, for
\* every pair that did not change between its three reads; and it never finds
\* the grant flag at odds with the status.
OverviewIsExact ==
    [][LoadActiveTVAccesses =>
         \A r \in Rows(overview.only, overview.customer, overview.sub) :
            /\ r.reconcile # "grant_flag_mismatch"
            /\ <<r.script, r.user>> \notin overview.touched =>
                  (r.reconcile = "matched_active") = ActiveSub(r.script, r.user)]_vars

\* The two reports agree: taken from the same tables, the audit of an enabled
\* script calls extra exactly the names the overview does not show as matched.
ReportsAgree ==
    \A s \in Enabled :
        ExtraOnTV({x.user : x \in {y \in access : y.script = s}}, DbSet(s)) =
            {r.user : r \in {x \in Rows({s}, customer, sub) :
                               x.reconcile # "matched_active"}}

\* Each row is counted once in either classification, on every day and for
\* every end: the cards above the list add up to the list.
SummaryAddsUp ==
    LET summary == Summary(Rows(Scripts, customer, sub))
    IN  /\ FoldFunction(LAMBDA m, n : m + n, 0, summary.access) = summary.total
        /\ FoldFunction(LAMBDA m, n : m + n, 0, summary.reconcile) = summary.total
        /\ summary.total = Cardinality(access)
=============================================================================
