------------------------ MODULE AccessReport_proofs ------------------------
(***************************************************************************)
(* Proofs about the reports, for any scripts, users, ends, subscriptions   *)
(* and changes of the tables between the reads of a report: the audit and  *)
(* the overview are exact about every pair that did not change meanwhile,  *)
(* they agree with each other, and the summary adds up to the list.        *)
(***************************************************************************)
EXTENDS AccessReport, FiniteSetTheorems, WellFoundedInduction, TLAPS

-----------------------------------------------------------------------------
(* The tables.                                                             *)

SubRows == [script : Scripts \cup {NoScript}, user : Users \cup {NoUser},
            status : {"none", "active", "expired", "revoked"}, granted : BOOLEAN]

AccessRows == [script : Scripts, user : Users, end : Ends]

ActiveIn(table, s, u) == \E i \in Subs : /\ table[i].script = s /\ table[i].user = u
                                         /\ table[i].status = "active"

\* The flag of a subscription follows its status, an active one belongs to a
\* customer, and a pair has one access at most.
TablesInv ==
    /\ day \in Nat /\ customer \subseteq Users
    /\ sub \in [Subs -> SubRows]
    /\ \A i \in Subs : /\ sub[i].granted = (sub[i].status = "active")
                       /\ sub[i].status = "active" => sub[i].user \in customer
    /\ access \in SUBSET AccessRows /\ IsFiniteSet(access)
    /\ \A x, y \in access : x.script = y.script /\ x.user = y.user => x = y

\* What a pair shows in the tables.
SamePair(s, u) ==
    /\ u \in customer' <=> u \in customer
    /\ ActiveIn(sub', s, u) <=> ActiveIn(sub, s, u)
    /\ (\E x \in access' : x.script = s /\ x.user = u) <=> (\E x \in access : x.script = s /\ x.user = u)

LEMMA TablesInitially == Init => TablesInv
<1>1. IsFiniteSet({})
  BY FS_EmptySet
<1>2. NoSub \in SubRows /\ NoSub.status = "none" /\ NoSub.granted = FALSE
  BY DEF NoSub, SubRows
<1>3. NoSubs \in [Subs -> SubRows] /\ \A i \in Subs : NoSubs[i] = NoSub
  BY <1>2 DEF NoSubs
<1>4. ASSUME Init, NEW i \in Subs
      PROVE  sub[i].granted = (sub[i].status = "active") /\ sub[i].status # "active"
  <2>1. sub[i].status = "none" /\ sub[i].granted = FALSE
    BY <1>2, <1>3, <1>4 DEF Init
  <2> QED BY <2>1
<1> QED BY <1>1, <1>3, <1>4 DEF Init, TablesInv

\* Each change of a table leaves the pairs alone that it does not touch.
LEMMA NewCustomerStep ==
    ASSUME TablesInv, NEW u \in Users, NewCustomer(u)
    PROVE  /\ TablesInv' /\ Touch(Scripts \X {u})
           /\ \A s \in Scripts, v \in Users : <<s, v>> \notin Scripts \X {u} => SamePair(s, v)
<1>1. customer' = customer \cup {u} /\ UNCHANGED <<sub, access, day>> /\ Touch(Scripts \X {u})
  BY DEF NewCustomer, Touch
<1>2. TablesInv'
  BY <1>1 DEF TablesInv
<1>3. ASSUME NEW s \in Scripts, NEW v \in Users, <<s, v>> \notin Scripts \X {u}
      PROVE  SamePair(s, v)
  <2>1. v # u
    BY <1>3
  <2> QED BY <1>1, <2>1 DEF SamePair
<1> QED BY <1>1, <1>2, <1>3

LEMMA NewSubStep ==
    ASSUME TablesInv, NEW s \in Scripts, NEW u \in Users, NewSub(s, u)
    PROVE  /\ TablesInv' /\ Touch({<<s, u>>})
           /\ \A r \in Scripts, v \in Users : <<r, v>> \notin {<<s, u>>} => SamePair(r, v)
<1> DEFINE row == [script |-> s, user |-> u, status |-> "active", granted |-> TRUE]
<1>1. PICK i \in Subs : sub[i] = NoSub /\ sub' = [sub EXCEPT ![i] = row]
  BY DEF NewSub
<1>2. u \in customer /\ UNCHANGED <<customer, access, day>> /\ Touch({<<s, u>>})
  BY DEF NewSub, Touch
<1>3. /\ row \in SubRows /\ row.status = "active" /\ row.granted = TRUE /\ row.user = u /\ row.script = s
      /\ NoSub.status = "none"
  BY DEF SubRows, NoSub
<1> HIDE DEF row
<1>4. /\ sub' \in [Subs -> SubRows]
      /\ \A j \in Subs : sub'[j] = IF j = i THEN row ELSE sub[j]
  BY <1>1, <1>3 DEF TablesInv
<1>5. TablesInv'
  BY <1>2, <1>3, <1>4 DEF TablesInv
<1>6. ASSUME NEW r \in Scripts, NEW v \in Users, <<r, v>> \notin {<<s, u>>}
      PROVE  SamePair(r, v)
  <2>1. ~ (r = s /\ v = u)
    BY <1>6
  <2>2. ASSUME NEW j \in Subs
        PROVE  sub'[j].script = r /\ sub'[j].user = v /\ sub'[j].status = "active"
                 <=> sub[j].script = r /\ sub[j].user = v /\ sub[j].status = "active"
    BY <1>1, <1>3, <1>4, <2>1
  <2>3. ActiveIn(sub', r, v) <=> ActiveIn(sub, r, v)
    BY <2>2 DEF ActiveIn
  <2> QED BY <1>2, <2>3 DEF SamePair
<1> QED BY <1>2, <1>5, <1>6

LEMMA EndSubStep ==
    ASSUME TablesInv, NEW i \in Subs, EndSub(i), NEW p, p = <<sub[i].script, sub[i].user>>
    PROVE  /\ TablesInv' /\ Touch({p})
           /\ \A r \in Scripts, v \in Users : <<r, v>> \notin {p} => SamePair(r, v)
<1>1. PICK status \in {"expired", "revoked"} :
          sub' = [sub EXCEPT ![i].status = status, ![i].granted = FALSE]
  BY DEF EndSub
<1>2. sub[i].status = "active" /\ UNCHANGED <<customer, access, day>> /\ Touch({p})
  BY DEF EndSub, Touch
<1> DEFINE row == [sub[i] EXCEPT !.status = status, !.granted = FALSE]
<1>3. /\ sub[i] \in SubRows /\ row \in SubRows /\ row.status = status /\ row.granted = FALSE
      /\ row.user = sub[i].user /\ row.script = sub[i].script
  BY DEF SubRows, TablesInv
<1>4. sub' = [sub EXCEPT ![i] = row]
  BY <1>1 DEF TablesInv
<1> HIDE DEF row
<1>5. /\ sub' \in [Subs -> SubRows]
      /\ \A j \in Subs : sub'[j] = IF j = i THEN row ELSE sub[j]
  BY <1>3, <1>4 DEF TablesInv
<1>6. TablesInv'
  BY <1>2, <1>3, <1>5 DEF TablesInv
<1>7. ASSUME NEW r \in Scripts, NEW v \in Users, <<r, v>> \notin {p}
      PROVE  SamePair(r, v)
  <2>1. ~ (r = sub[i].script /\ v = sub[i].user)
    BY <1>7
  <2>2. ASSUME NEW j \in Subs
        PROVE  sub'[j].script = r /\ sub'[j].user = v /\ sub'[j].status = "active"
                 <=> sub[j].script = r /\ sub[j].user = v /\ sub[j].status = "active"
    BY <1>3, <1>5, <2>1
  <2>3. ActiveIn(sub', r, v) <=> ActiveIn(sub, r, v)
    BY <2>2 DEF ActiveIn
  <2> QED BY <1>2, <2>3 DEF SamePair
<1> QED BY <1>2, <1>6, <1>7

LEMMA SyncUserStep ==
    ASSUME TablesInv, NEW s \in Scripts, NEW u \in Users, SyncUser(s, u)
    PROVE  /\ TablesInv' /\ Touch({<<s, u>>})
           /\ \A r \in Scripts, v \in Users : <<r, v>> \notin {<<s, u>>} => SamePair(r, v)
<1>1. PICK rows \in {{}} \cup {{[script |-> s, user |-> u, end |-> e]} : e \in Ends} :
          access' = (access \ HeldBy(s, u)) \cup rows
  BY DEF SyncUser
<1>2. UNCHANGED <<customer, sub, day>> /\ Touch({<<s, u>>})
  BY DEF SyncUser, Touch
<1>3. /\ rows \in SUBSET AccessRows /\ IsFiniteSet(rows)
      /\ \A x \in rows : x.script = s /\ x.user = u
      /\ \A x, y \in rows : x = y
  <2>1. CASE rows = {}
    BY <2>1, FS_EmptySet
  <2>2. CASE rows # {}
    <3>1. PICK e \in Ends : rows = {[script |-> s, user |-> u, end |-> e]}
      BY <2>2
    <3>2. [script |-> s, user |-> u, end |-> e] \in AccessRows
      BY DEF AccessRows
    <3>3. [script |-> s, user |-> u, end |-> e].script = s /\ [script |-> s, user |-> u, end |-> e].user = u
      OBVIOUS
    <3>4. IsFiniteSet(rows)
      BY <3>1, FS_Singleton
    <3> QED BY <3>1, <3>2, <3>3, <3>4
  <2> QED BY <2>1, <2>2
<1>4. /\ \A x \in access' : x \in rows \/ (x \in access /\ ~ (x.script = s /\ x.user = u))
      /\ \A x \in access : (x.script = s /\ x.user = u) \/ x \in access'
  BY <1>1 DEF HeldBy
<1>5. access' \in SUBSET AccessRows /\ IsFiniteSet(access')
  <2>1. IsFiniteSet(access \ HeldBy(s, u))
    BY FS_Subset, access \ HeldBy(s, u) \in SUBSET access DEF TablesInv
  <2>2. IsFiniteSet(access')
    BY <1>1, <1>3, <2>1, FS_Union
  <2> QED BY <1>3, <1>4, <2>2 DEF TablesInv
<1>6. \A x, y \in access' : x.script = y.script /\ x.user = y.user => x = y
  BY <1>3, <1>4 DEF TablesInv
<1>7. TablesInv'
  BY <1>2, <1>5, <1>6 DEF TablesInv
<1>8. ASSUME NEW r \in Scripts, NEW v \in Users, <<r, v>> \notin {<<s, u>>}
      PROVE  SamePair(r, v)
  <2>1. ~ (r = s /\ v = u)
    BY <1>8
  <2> QED BY <1>2, <1>3, <1>4, <2>1 DEF SamePair
<1> QED BY <1>2, <1>7, <1>8

\* The clock, or a change that touches some pairs and no other.
LEMMA TablesStep ==
    ASSUME TablesInv, Tables
    PROVE  /\ TablesInv'
           /\ \/ UNCHANGED <<customer, sub, access, audit, overview>>
              \/ \E pairs : /\ Touch(pairs)
                            /\ \A s \in Scripts, u \in Users : <<s, u>> \notin pairs => SamePair(s, u)
<1>1. CASE Tick
  BY <1>1 DEF Tick, TablesInv
<1>2. ASSUME NEW u \in Users, NewCustomer(u)
      PROVE  TablesInv' /\ \E pairs : /\ Touch(pairs)
                                      /\ \A s \in Scripts, v \in Users : <<s, v>> \notin pairs => SamePair(s, v)
  BY <1>2, NewCustomerStep
<1>3. ASSUME NEW s \in Scripts, NEW u \in Users, NewSub(s, u) \/ SyncUser(s, u)
      PROVE  TablesInv' /\ \E pairs : /\ Touch(pairs)
                                      /\ \A r \in Scripts, v \in Users : <<r, v>> \notin pairs => SamePair(r, v)
  BY <1>3, NewSubStep, SyncUserStep
<1>4. ASSUME NEW i \in Subs, EndSub(i)
      PROVE  TablesInv' /\ \E pairs : /\ Touch(pairs)
                                      /\ \A r \in Scripts, v \in Users : <<r, v>> \notin pairs => SamePair(r, v)
  <2>1. PICK p : p = <<sub[i].script, sub[i].user>>
    OBVIOUS
  <2> QED BY <1>4, <2>1, EndSubStep
<1> QED BY <1>1, <1>2, <1>3, <1>4 DEF Tables

-----------------------------------------------------------------------------
(* A report that is under way.  What it has read of a pair holds, as long  *)
(* as the pair is untouched.                                               *)

AuditInv ==
    /\ audit.pc \in {"idle", "next", "subs"} /\ audit.todo \subseteq Enabled
    /\ audit = [pc |-> audit.pc, todo |-> audit.todo, script |-> audit.script,
                tvSet |-> audit.tvSet, touched |-> audit.touched]
    /\ audit.pc = "subs" =>
         /\ audit.script \in Enabled
         /\ audit.tvSet \subseteq Users
         /\ \A u \in Users : <<audit.script, u>> \notin audit.touched =>
              (u \in audit.tvSet <=> \E x \in access : x.script = audit.script /\ x.user = u)

OverviewInv ==
    /\ overview.pc \in {"idle", "customers", "subs", "accesses"}
    /\ overview = [pc |-> overview.pc, only |-> overview.only, customer |-> overview.customer,
                   sub |-> overview.sub, touched |-> overview.touched]
    /\ overview.only \subseteq Scripts
    /\ overview.pc \in {"subs", "accesses"} =>
         \A s \in Scripts, u \in Users : <<s, u>> \notin overview.touched =>
            (u \in overview.customer <=> u \in customer)
    /\ overview.pc = "accesses" =>
         /\ overview.sub \in [Subs -> SubRows]
         /\ \A i \in Subs : overview.sub[i].granted = (overview.sub[i].status = "active")
         /\ \A s \in Scripts, u \in Users : <<s, u>> \notin overview.touched =>
              (ActiveIn(overview.sub, s, u) <=> ActiveIn(sub, s, u))

ReportInv == TablesInv /\ AuditInv /\ OverviewInv

LEMMA AuditIdleInv == audit = AuditIdle => AuditInv
BY DEF AuditIdle, AuditInv

LEMMA OverviewIdleInv == overview = OverviewIdle => OverviewInv
BY DEF OverviewIdle, OverviewInv

LEMMA ReportInitially == Init => ReportInv
BY TablesInitially, AuditIdleInv, OverviewIdleInv DEF Init, ReportInv

LEMMA AuditTouched ==
    ASSUME AuditInv, NEW pairs, Touch(pairs),
           \A s \in Scripts, u \in Users : <<s, u>> \notin pairs => SamePair(s, u)
    PROVE  AuditInv'
<1>1. PICK a : a = audit
  OBVIOUS
<1>2. CASE audit.pc # "subs"
  BY <1>2 DEF Touch, AuditInv
<1>3. CASE audit.pc = "subs"
  <2>1. audit' = [audit EXCEPT !.touched = @ \cup pairs]
    BY <1>3 DEF Touch
  <2>2. audit' = [pc |-> a.pc, todo |-> a.todo, script |-> a.script, tvSet |-> a.tvSet,
                  touched |-> a.touched \cup pairs]
    BY <1>1, <2>1 DEF AuditInv
  <2>3. /\ audit'.pc = a.pc /\ audit'.todo = a.todo /\ audit'.script = a.script /\ audit'.tvSet = a.tvSet
        /\ audit'.touched = a.touched \cup pairs
    BY <2>2
  <2>4. ASSUME NEW u \in Users, <<a.script, u>> \notin a.touched \cup pairs
        PROVE  u \in a.tvSet <=> \E x \in access' : x.script = a.script /\ x.user = u
    <3>1. u \in a.tvSet <=> \E x \in access : x.script = a.script /\ x.user = u
      BY <1>1, <1>3, <2>4 DEF AuditInv
    <3>2. SamePair(a.script, u)
      BY <1>1, <1>3, <2>4, ScriptsAssumption DEF AuditInv
    <3> QED BY <3>1, <3>2 DEF SamePair
  <2> QED BY <1>1, <1>3, <2>2, <2>3, <2>4 DEF AuditInv
<1> QED BY <1>2, <1>3

LEMMA OverviewTouched ==
    ASSUME OverviewInv, NEW pairs, Touch(pairs),
           \A s \in Scripts, u \in Users : <<s, u>> \notin pairs => SamePair(s, u)
    PROVE  OverviewInv'
<1>1. PICK o : o = overview
  OBVIOUS
<1>2. CASE overview.pc \notin {"subs", "accesses"}
  BY <1>2 DEF Touch, OverviewInv
<1>3. CASE overview.pc \in {"subs", "accesses"}
  <2>1. overview' = [overview EXCEPT !.touched = @ \cup pairs]
    BY <1>3 DEF Touch
  <2>2. overview' = [pc |-> o.pc, only |-> o.only, customer |-> o.customer, sub |-> o.sub,
                     touched |-> o.touched \cup pairs]
    BY <1>1, <2>1 DEF OverviewInv
  <2>3. /\ overview'.pc = o.pc /\ overview'.only = o.only /\ overview'.customer = o.customer
        /\ overview'.sub = o.sub /\ overview'.touched = o.touched \cup pairs
    BY <2>2
  <2>4. ASSUME NEW s \in Scripts, NEW u \in Users, <<s, u>> \notin o.touched \cup pairs
        PROVE  /\ u \in o.customer <=> u \in customer'
               /\ o.pc = "accesses" => (ActiveIn(o.sub, s, u) <=> ActiveIn(sub', s, u))
    <3>1. SamePair(s, u)
      BY <2>4
    <3> QED BY <1>1, <1>3, <2>4, <3>1 DEF SamePair, OverviewInv
  <2>5. o.pc = "accesses" => /\ o.sub \in [Subs -> SubRows]
                             /\ \A i \in Subs : o.sub[i].granted = (o.sub[i].status = "active")
    BY <1>1 DEF OverviewInv
  <2>6. o.pc \in {"subs", "accesses"} /\ o.only \subseteq Scripts
    BY <1>1, <1>3 DEF OverviewInv
  <2> HIDE DEF ActiveIn
  <2> QED BY <2>2, <2>3, <2>4, <2>5, <2>6 DEF OverviewInv
<1> QED BY <1>2, <1>3

LEMMA AuditSteps ==
    ASSUME ReportInv, AuditRun \/ AuditAccesses \/ AuditSubscriptions \/ AuditFails
    PROVE  ReportInv'
<1>1. UNCHANGED <<day, customer, sub, access, overview>>
  BY DEF AuditRun, AuditAccesses, AuditSubscriptions, AuditFails
<1>2. TablesInv' /\ OverviewInv'
  BY <1>1 DEF ReportInv, TablesInv, OverviewInv, ActiveIn
<1>3. ASSUME NEW todo \in SUBSET Enabled, NEW pc \in {"idle", "next"},
             audit' = [AuditIdle EXCEPT !.pc = pc, !.todo = todo]
      PROVE  AuditInv'
  <2>1. audit' = [pc |-> pc, todo |-> todo, script |-> NoScript, tvSet |-> {}, touched |-> {}]
    BY <1>3 DEF AuditIdle
  <2>2. audit'.pc = pc /\ audit'.todo = todo /\ audit'.script = NoScript /\ audit'.tvSet = {} /\ audit'.touched = {}
    BY <2>1
  <2> QED BY <2>1, <2>2 DEF AuditInv
<1>4. AuditRun => AuditInv'
  BY <1>3 DEF AuditRun
<1>5. AuditSubscriptions => AuditInv'
  BY <1>3 DEF AuditSubscriptions, ReportInv, AuditInv
<1>6. audit' = AuditIdle => AuditInv'
  BY DEF AuditIdle, AuditInv
<1>7. ASSUME AuditAccesses, NEW s \in audit.todo,
             audit' = [AuditIdle EXCEPT !.pc = "subs", !.script = s, !.todo = audit.todo \ {s},
                          !.tvSet = {x.user : x \in {y \in access : y.script = s}}]
      PROVE  AuditInv'
  <2>1. PICK tv : tv = {x.user : x \in {y \in access : y.script = s}}
    OBVIOUS
  <2>2. PICK todo : todo = audit.todo \ {s}
    OBVIOUS
  <2>3. audit' = [pc |-> "subs", todo |-> todo, script |-> s, tvSet |-> tv, touched |-> {}]
    BY <1>7, <2>1, <2>2 DEF AuditIdle
  <2>4. audit'.pc = "subs" /\ audit'.todo = todo /\ audit'.script = s /\ audit'.tvSet = tv /\ audit'.touched = {}
    BY <2>3
  <2>5. s \in Enabled /\ todo \subseteq Enabled
    BY <2>2 DEF ReportInv, AuditInv
  <2>6. \A u \in Users : u \in tv <=> \E x \in access : x.script = s /\ x.user = u
    BY <2>1
  <2>7. tv \subseteq Users
    BY <2>1 DEF ReportInv, TablesInv, AccessRows
  <2> QED BY <1>1, <2>3, <2>4, <2>5, <2>6, <2>7 DEF AuditInv
<1>8. AuditAccesses => AuditInv'
  BY <1>6, <1>7 DEF AuditAccesses
<1> QED BY <1>2, <1>4, <1>5, <1>6, <1>8 DEF ReportInv, AuditFails

LEMMA OverviewSteps ==
    ASSUME ReportInv, OverviewList \/ LoadCustomers \/ LoadSubscriptions \/ LoadActiveTVAccesses \/ OverviewFails
    PROVE  ReportInv'
<1>1. UNCHANGED <<day, customer, sub, access, audit>>
  BY DEF OverviewList, LoadCustomers, LoadSubscriptions, LoadActiveTVAccesses, OverviewFails
<1>2. TablesInv' /\ AuditInv'
  BY <1>1 DEF ReportInv, TablesInv, AuditInv
<1>3. PICK o : o = overview
  OBVIOUS
<1>4. OverviewList => OverviewInv'
  <2>1. ASSUME NEW only \in SUBSET Scripts,
               overview' = [OverviewIdle EXCEPT !.pc = "customers", !.only = only]
        PROVE  OverviewInv'
    <3>1. overview' = [pc |-> "customers", only |-> only, customer |-> {}, sub |-> NoSubs, touched |-> {}]
      BY <2>1 DEF OverviewIdle
    <3>2. /\ overview'.pc = "customers" /\ overview'.only = only /\ overview'.customer = {}
          /\ overview'.sub = NoSubs /\ overview'.touched = {}
      BY <3>1
    <3> QED BY <3>1, <3>2 DEF OverviewInv
  <2>2. \A only \in {Scripts} \cup {{s} : s \in Scripts} : only \in SUBSET Scripts
    OBVIOUS
  <2> QED BY <2>1, <2>2 DEF OverviewList
<1>5. LoadActiveTVAccesses \/ OverviewFails => OverviewInv'
  <2>1. overview' = OverviewIdle => OverviewInv'
    BY DEF OverviewIdle, OverviewInv
  <2> QED BY <2>1 DEF LoadActiveTVAccesses, OverviewFails
<1>6. ASSUME LoadCustomers
      PROVE  OverviewInv'
  <2>1. overview' = [pc |-> "subs", only |-> o.only, customer |-> customer, sub |-> o.sub,
                     touched |-> o.touched]
    BY <1>3, <1>6 DEF LoadCustomers, ReportInv, OverviewInv
  <2>2. /\ overview'.pc = "subs" /\ overview'.only = o.only /\ overview'.customer = customer
        /\ overview'.sub = o.sub /\ overview'.touched = o.touched
    BY <2>1
  <2>3. o.only \subseteq Scripts
    BY <1>3 DEF ReportInv, OverviewInv
  <2> QED BY <1>1, <2>1, <2>2, <2>3 DEF OverviewInv
<1>7. ASSUME LoadSubscriptions
      PROVE  OverviewInv'
  <2>1. overview' = [pc |-> "accesses", only |-> o.only, customer |-> o.customer, sub |-> sub,
                     touched |-> o.touched]
    BY <1>3, <1>7 DEF LoadSubscriptions, ReportInv, OverviewInv
  <2>2. /\ overview'.pc = "accesses" /\ overview'.only = o.only /\ overview'.customer = o.customer
        /\ overview'.sub = sub /\ overview'.touched = o.touched
    BY <2>1
  <2>3. /\ sub \in [Subs -> SubRows]
        /\ \A i \in Subs : sub[i].granted = (sub[i].status = "active")
    BY DEF ReportInv, TablesInv
  <2>4. /\ \A s \in Scripts, u \in Users : <<s, u>> \notin o.touched => (u \in o.customer <=> u \in customer)
        /\ o.only \subseteq Scripts
    BY <1>3, <1>7 DEF ReportInv, OverviewInv, LoadSubscriptions
  <2> QED BY <1>1, <2>1, <2>2, <2>3, <2>4 DEF OverviewInv
<1> QED BY <1>2, <1>4, <1>5, <1>6, <1>7 DEF ReportInv

LEMMA ReportStepped ==
    ASSUME ReportInv, [Next]_vars
    PROVE  ReportInv'
<1>1. CASE Tables
  <2>1. TablesInv'
    BY <1>1, TablesStep DEF ReportInv
  <2>2. CASE UNCHANGED <<customer, sub, access, audit, overview>>
    BY <2>1, <2>2 DEF ReportInv, AuditInv, OverviewInv, ActiveIn
  <2>3. ASSUME NEW pairs, Touch(pairs),
               \A s \in Scripts, u \in Users : <<s, u>> \notin pairs => SamePair(s, u)
        PROVE  ReportInv'
    BY <2>1, <2>3, AuditTouched, OverviewTouched DEF ReportInv
  <2> QED BY <1>1, <2>2, <2>3, TablesStep DEF ReportInv
<1>2. CASE UNCHANGED vars
  BY <1>2 DEF vars, ReportInv, TablesInv, AuditInv, OverviewInv, ActiveIn
<1> QED BY <1>1, <1>2, AuditSteps, OverviewSteps DEF Next

LEMMA ReportInvariant == Spec => []ReportInv
BY ReportInitially, ReportStepped, PTL DEF Spec

\* The audit (AccessAuditService.AuditRun) is exact about every pair that did
\* not change between its reads of the snapshot and of the subscriptions.
THEOREM AuditCorrect == Spec => AuditIsExact
<1> DEFINE Exact == \A u \in Users : <<audit.script, u>> \notin audit.touched =>
                      /\ u \in MissingOnTV(audit.tvSet, DbSet(audit.script))
                           <=> ActiveSub(audit.script, u) /\ HeldBy(audit.script, u) = {}
                      /\ u \in ExtraOnTV(audit.tvSet, DbSet(audit.script))
                           <=> ~ ActiveSub(audit.script, u) /\ HeldBy(audit.script, u) # {}
<1>1. ASSUME ReportInv, AuditSubscriptions
      PROVE  Exact
  <2>1. audit.pc = "subs"
    BY <1>1 DEF AuditSubscriptions
  <2> SUFFICES ASSUME NEW u \in Users, <<audit.script, u>> \notin audit.touched
               PROVE  /\ u \in MissingOnTV(audit.tvSet, DbSet(audit.script))
                           <=> ActiveSub(audit.script, u) /\ HeldBy(audit.script, u) = {}
                      /\ u \in ExtraOnTV(audit.tvSet, DbSet(audit.script))
                           <=> ~ ActiveSub(audit.script, u) /\ HeldBy(audit.script, u) # {}
    OBVIOUS
  <2>2. u \in audit.tvSet <=> HeldBy(audit.script, u) # {}
    BY <1>1, <2>1 DEF ReportInv, AuditInv, HeldBy
  <2>3. u \in DbSet(audit.script) <=> ActiveSub(audit.script, u)
    BY DEF DbSet, ActiveSub
  <2> QED BY <2>2, <2>3 DEF MissingOnTV, ExtraOnTV
<1>2. ReportInv /\ [Next]_vars => [AuditSubscriptions => Exact]_vars
  BY <1>1
<1>3. Spec => [][AuditSubscriptions => Exact]_vars
  BY <1>2, ReportInvariant, PTL DEF Spec
<1> QED BY <1>3 DEF AuditIsExact

-----------------------------------------------------------------------------
(* The row that stands for a pair (loadSubscriptions of the overview).     *)

LEMMA NaturalsReached ==
    ASSUME NEW S, 0 \in S, \A n \in Nat : n \in S => n + 1 \in S
    PROVE  \A n \in Nat : n \in S
<1> DEFINE Less == {ss \in Nat \X Nat : ss[1] < ss[2]}
           Rest == {n \in Nat : n \notin S}
<1>1. IsWellFoundedOn(Less, Nat)
  BY NatLessThanWellFounded DEF OpToRel
<1>2. ASSUME Rest # {}
      PROVE  FALSE
  <2>1. PICK x \in Rest : \A y \in Rest : ~ (<<y, x>> \in Less)
    <3> HIDE DEF Less
    <3>1. Rest \subseteq Nat
      OBVIOUS
    <3> HIDE DEF Rest
    <3> QED BY <1>1, <1>2, <3>1, WFMin
  <2>2. x \in Nat /\ x # 0 /\ x - 1 \in Nat /\ x - 1 < x
    BY <2>1
  <2>3. x - 1 \in S
    BY <2>1, <2>2
  <2>4. x - 1 + 1 \in S
    BY <2>2, <2>3
  <2> QED BY <2>1, <2>2, <2>4
<1> QED BY <1>2

LEMMA MaxIs ==
    ASSUME NEW n \in Nat, NEW I \in SUBSET (1 .. n), I # {}
    PROVE  Max(I) \in I /\ \A j \in I : j <= Max(I)
<1> DEFINE S == {k \in Nat : \A J \in SUBSET (1 .. k) : J # {} => \E i \in J : \A j \in J : j <= i}
<1>1. 0 \in S
  <2>1. 1 .. 0 = {}
    OBVIOUS
  <2> QED BY <2>1
<1>2. ASSUME NEW k \in Nat, k \in S
      PROVE  k + 1 \in S
  <2> SUFFICES ASSUME NEW J \in SUBSET (1 .. k + 1), J # {}
               PROVE  \E i \in J : \A j \in J : j <= i
    OBVIOUS
  <2>1. CASE k + 1 \in J
    BY <2>1
  <2>2. CASE k + 1 \notin J
    <3>1. J \in SUBSET (1 .. k)
      BY <2>2
    <3> QED BY <1>2, <3>1
  <2> QED BY <2>1, <2>2
<1>3. n \in S
  <2> HIDE DEF S
  <2> QED BY <1>1, <1>2, NaturalsReached
<1>4. PICK i \in I : \A j \in I : j <= i
  BY <1>3
<1>5. \A j \in I : i >= j
  BY <1>4
<1>6. \E x \in I : \A y \in I : x >= y
  BY <1>5
<1>7. Max(I) \in I /\ \A y \in I : Max(I) >= y
  BY <1>6, Zenon DEF Max
<1> QED BY <1>7

\* The row that ShouldPrefer puts before all others of a set, or 0.
Best(table, I) == IF I = {} THEN 0 ELSE CHOOSE i \in I : \A j \in I \ {i} : ShouldPrefer(table, i, j)

LEMMA BestIs ==
    ASSUME NEW table, NEW I \in SUBSET Subs
    PROVE  /\ I = {} => Best(table, I) = 0
           /\ I # {} => /\ Best(table, I) \in I /\ Best(table, I) # 0
                        /\ \A j \in I \ {Best(table, I)} : ShouldPrefer(table, Best(table, I), j)
                        /\ table[Best(table, I)].status = "active" <=> \E j \in I : table[j].status = "active"
<1>1. CASE I = {}
  BY <1>1 DEF Best
<1>2. CASE I # {}
  <2> DEFINE A == {i \in I : table[i].status = "active"}
             m == IF A = {} THEN Max(I) ELSE Max(A)
  <2>1. MaxSubs \in Nat /\ Subs = 1 .. MaxSubs
    BY NumberAssumption DEF Subs
  <2>2. A # {} => m \in A /\ \A j \in A : j <= m
    BY <2>1, MaxIs
  <2>3. A = {} => m \in I /\ \A j \in I : j <= m
    BY <1>2, <2>1, MaxIs
  <2> HIDE DEF m
  <2>4. m \in I /\ \A j \in I \ {m} : ShouldPrefer(table, m, j)
    <3>1. m \in I
      BY <2>2, <2>3
    <3>2. ASSUME NEW j \in I \ {m}
          PROVE  ShouldPrefer(table, m, j)
      <4>1. j \in Int /\ m \in Int /\ j # m
        BY <2>1, <3>1
      <4> QED BY <2>2, <2>3, <3>1, <4>1 DEF ShouldPrefer
    <3> QED BY <3>1, <3>2
  <2>5. \E i \in I : \A j \in I \ {i} : ShouldPrefer(table, i, j)
    BY <2>4
  <2>6. /\ Best(table, I) \in I
        /\ \A j \in I \ {Best(table, I)} : ShouldPrefer(table, Best(table, I), j)
    <3> HIDE DEF A
    <3> QED BY <1>2, <2>5, Zenon DEF Best
  <2>7. Best(table, I) # 0
    BY <2>1, <2>6
  <2>8. ASSUME NEW j \in I, table[j].status = "active"
        PROVE  table[Best(table, I)].status = "active"
    BY <2>6, <2>8 DEF ShouldPrefer
  <2> QED BY <1>2, <2>6, <2>7, <2>8
<1> QED BY <1>1, <1>2

\* A row is put before the best one of the others, or is not.
LEMMA BestTaken ==
    ASSUME NEW table, NEW I \in SUBSET Subs, NEW r \in Subs \ I
    PROVE  Best(table, I \cup {r}) =
               IF Best(table, I) = 0 \/ ShouldPrefer(table, r, Best(table, I)) THEN r ELSE Best(table, I)
<1> DEFINE b == Best(table, I)
           c == Best(table, I \cup {r})
<1>1. Subs \subseteq Int
  BY NumberAssumption DEF Subs
<1>2. I = {} => b = 0
  BY BestIs
<1>3. I # {} => b \in I /\ b # 0 /\ \A j \in I \ {b} : ShouldPrefer(table, b, j)
  BY BestIs
<1>4. c \in I \cup {r} /\ \A j \in (I \cup {r}) \ {c} : ShouldPrefer(table, c, j)
  <2>1. I \cup {r} \in SUBSET Subs /\ I \cup {r} # {}
    OBVIOUS
  <2> QED BY <2>1, BestIs
<1>5. ASSUME NEW i \in Subs, NEW j \in Subs, ShouldPrefer(table, i, j), ShouldPrefer(table, j, i)
      PROVE  FALSE
  BY <1>1, <1>5 DEF ShouldPrefer
<1> HIDE DEF b, c
<1>6. CASE I = {}
  <2>1. c = r
    BY <1>4, <1>6
  <2> QED BY <1>2, <1>6, <2>1 DEF b, c
<1>7. CASE I # {} /\ ShouldPrefer(table, r, b)
  <2>1. c = r
    <3>1. ASSUME c # r
          PROVE  FALSE
      <4>1. c \in I /\ ShouldPrefer(table, c, r)
        BY <1>4, <3>1
      <4>2. c # b => ShouldPrefer(table, b, c)
        BY <1>3, <1>7, <4>1
      <4>3. c # b => ShouldPrefer(table, c, b)
        BY <1>3, <1>4, <1>7
      <4> QED BY <1>3, <1>5, <1>7, <4>1, <4>2, <4>3
    <3> QED BY <3>1
  <2> QED BY <1>7, <2>1 DEF b, c
<1>8. CASE I # {} /\ ~ ShouldPrefer(table, r, b)
  <2>1. c # r
    BY <1>3, <1>4, <1>8
  <2>2. c = b
    BY <1>3, <1>4, <1>5, <1>8, <2>1
  <2> QED BY <1>3, <1>8, <2>2 DEF b, c
<1> QED BY <1>6, <1>7, <1>8

\* The rows of a pair at some places of the list from the newest to the oldest.
PairRows(table, s, u) == {i \in Subs : table[i].script = s /\ table[i].user = u}
ListedRows(table, s, u, x) == {i \in PairRows(table, s, u) : MaxSubs + 1 - i \in x}

Take(table, s, u, current, i) ==
    IF table[i].script = s /\ table[i].user = u /\ (current = 0 \/ ShouldPrefer(table, i, current))
    THEN i ELSE current

\* What a function has in common with the fold that computes Shown.
Folds(table, s, u, f) ==
    f = [x \in SUBSET (DOMAIN NewestFirst) |->
            IF x = {} THEN 0 ELSE Take(table, s, u, f[x \ {Max(x)}], NewestFirst[Max(x)])]

LEMMA ListTaken ==
    ASSUME NEW table, NEW s, NEW u, NEW x \in SUBSET Subs, x # {}
    PROVE  /\ Max(x) \in Subs
           /\ Best(table, ListedRows(table, s, u, x)) =
                Take(table, s, u, Best(table, ListedRows(table, s, u, x \ {Max(x)})), NewestFirst[Max(x)])
<1> DEFINE m == Max(x)
           r == MaxSubs + 1 - m
           I == ListedRows(table, s, u, x)
           J == ListedRows(table, s, u, x \ {m})
<1>1. MaxSubs \in Nat /\ Subs = 1 .. MaxSubs
  BY NumberAssumption DEF Subs
<1>2. m \in x
  BY <1>1, MaxIs
<1> HIDE DEF m
<1>3. r \in Subs /\ NewestFirst[m] = r /\ MaxSubs + 1 - r = m
  BY <1>1, <1>2 DEF NewestFirst
<1>4. \A i \in Subs : MaxSubs + 1 - i = m <=> i = r
  BY <1>1, <1>2
<1>5. I = IF table[r].script = s /\ table[r].user = u THEN J \cup {r} ELSE J
  BY <1>2, <1>3, <1>4 DEF ListedRows, PairRows
<1>6. J \in SUBSET Subs /\ r \notin J
  BY <1>3, <1>4 DEF ListedRows, PairRows
<1> HIDE DEF I, J, r
<1>7. table[r].script = s /\ table[r].user = u =>
        Best(table, J \cup {r}) =
               IF Best(table, J) = 0 \/ ShouldPrefer(table, r, Best(table, J)) THEN r ELSE Best(table, J)
  BY <1>3, <1>6, BestTaken
<1>8. Best(table, I) = Take(table, s, u, Best(table, J), r)
  BY <1>5, <1>7 DEF Take
<1> QED BY <1>2, <1>3, <1>8 DEF I, J, m

\* The fold is well defined and finds the best row.
LEMMA ShownIs ==
    ASSUME NEW table, NEW s, NEW u
    PROVE  Shown(table, s, u) = Best(table, PairRows(table, s, u))
<1> DEFINE g == [x \in SUBSET (DOMAIN NewestFirst) |-> Best(table, ListedRows(table, s, u, x))]
           f == CHOOSE h : Folds(table, s, u, h)
<1>1. DOMAIN NewestFirst = Subs /\ MaxSubs \in Nat /\ Subs = 1 .. MaxSubs
  BY NumberAssumption DEF NewestFirst, Subs
<1>2. Folds(table, s, u, g)
  <2>1. ASSUME NEW x \in SUBSET Subs
        PROVE  g[x] = IF x = {} THEN 0 ELSE Take(table, s, u, g[x \ {Max(x)}], NewestFirst[Max(x)])
    <3>1. CASE x = {}
      <4>1. ListedRows(table, s, u, x) = {}
        BY <3>1 DEF ListedRows
      <4> QED BY <1>1, <3>1, <4>1, BestIs
    <3>2. CASE x # {}
      <4>1. x \ {Max(x)} \in SUBSET Subs
        OBVIOUS
      <4>2. g[x \ {Max(x)}] = Best(table, ListedRows(table, s, u, x \ {Max(x)}))
        BY <1>1, <4>1
      <4>3. g[x] = Best(table, ListedRows(table, s, u, x))
        BY <1>1
      <4> HIDE DEF g
      <4> QED BY <3>2, <4>2, <4>3, ListTaken
    <3> QED BY <3>1, <3>2
  <2>2. g = [x \in SUBSET (DOMAIN NewestFirst) |-> g[x]]
    OBVIOUS
  <2> HIDE DEF g
  <2>3. g = [x \in SUBSET (DOMAIN NewestFirst) |->
               IF x = {} THEN 0 ELSE Take(table, s, u, g[x \ {Max(x)}], NewestFirst[Max(x)])]
    BY <1>1, <2>1, <2>2
  <2> QED BY <2>3, Zenon DEF Folds
<1>3. Shown(table, s, u) = f[DOMAIN NewestFirst]
  BY Zenon DEF Shown, FoldLeft, MapThenFoldSet, Folds, Take
<1>4. Folds(table, s, u, f)
  <2> HIDE DEF g
  <2> QED BY <1>2, Zenon
<1> HIDE DEF f
<1>5. \A x \in SUBSET Subs :
         f[x] = IF x = {} THEN 0 ELSE Take(table, s, u, f[x \ {Max(x)}], NewestFirst[Max(x)])
  BY <1>1, <1>4 DEF Folds
<1> DEFINE Same(x) == f[x] = Best(table, ListedRows(table, s, u, x))
           S == {n \in Nat : \A x \in SUBSET Subs : x \subseteq 1 .. n => Same(x)}
<1>6. Same({})
  <2>1. ListedRows(table, s, u, {}) = {}
    BY DEF ListedRows
  <2> QED BY <1>5, <2>1, BestIs
<1>7. 0 \in S
  <2>1. 1 .. 0 = {}
    OBVIOUS
  <2> HIDE DEF Same
  <2> QED BY <1>6, <2>1
<1>8. ASSUME NEW n \in Nat, n \in S
      PROVE  n + 1 \in S
  <2> SUFFICES ASSUME NEW x \in SUBSET Subs, x \subseteq 1 .. n + 1, x # {}
               PROVE  Same(x)
    <3> HIDE DEF Same
    <3> QED BY <1>6
  <2>1. PICK m : m = Max(x)
    OBVIOUS
  <2>2. m \in x /\ \A j \in x : j <= m
    BY <1>1, <2>1, MaxIs
  <2>3. x \ {m} \in SUBSET Subs /\ x \ {m} \subseteq 1 .. n
    BY <1>1, <2>2
  <2>4. Same(x \ {m})
    <3> HIDE DEF Same
    <3> QED BY <1>8, <2>3
  <2>5. f[x] = Take(table, s, u, f[x \ {m}], NewestFirst[m])
    <3>1. x # {}
      BY <2>2
    <3> HIDE DEF Same, S
    <3> QED BY <1>5, <2>1, <3>1
  <2>6. Best(table, ListedRows(table, s, u, x)) =
          Take(table, s, u, Best(table, ListedRows(table, s, u, x \ {m})), NewestFirst[m])
    BY <2>1, <2>2, ListTaken
  <2> QED BY <2>4, <2>5, <2>6
<1>9. Same(Subs)
  <2>1. MaxSubs \in S
    <3> HIDE DEF S
    <3> QED BY <1>1, <1>7, <1>8, NaturalsReached
  <2> QED BY <1>1, <2>1
<1>10. ListedRows(table, s, u, Subs) = PairRows(table, s, u)
  <2>1. \A i \in Subs : MaxSubs + 1 - i \in Subs
    BY <1>1
  <2> QED BY <2>1 DEF ListedRows, PairRows
<1> QED BY <1>1, <1>3, <1>9, <1>10

\* The row shown is one of the pair, if it has any, and active if one is.
LEMMA ShownActive ==
    ASSUME NEW table, NEW s, NEW u
    PROVE  /\ Shown(table, s, u) \in Subs \cup {0}
           /\ Shown(table, s, u) # 0 /\ table[Shown(table, s, u)].status = "active" <=> ActiveIn(table, s, u)
<1>1. PairRows(table, s, u) \in SUBSET Subs
  BY DEF PairRows
<1>2. ActiveIn(table, s, u) <=> \E j \in PairRows(table, s, u) : table[j].status = "active"
  BY DEF ActiveIn, PairRows
<1> QED BY <1>1, <1>2, ShownIs, BestIs

-----------------------------------------------------------------------------
(* The overview.                                                           *)

LEMMA MatchedIs ==
    ASSUME NEW customers, NEW table, NEW s, NEW u,
           \A i \in Subs : table[i].granted = (table[i].status = "active")
    PROVE  /\ ReconcileStatus(customers, table, s, u) = "matched_active"
                <=> u \in customers /\ ActiveIn(table, s, u)
           /\ ReconcileStatus(customers, table, s, u) # "grant_flag_mismatch"
           /\ ReconcileStatus(customers, table, s, u) \in ReconcileStatuses
<1> DEFINE n == Shown(table, s, u)
<1>1. /\ n \in Subs \cup {0}
      /\ n # 0 /\ table[n].status = "active" <=> ActiveIn(table, s, u)
  BY ShownActive
<1>2. ReconcileStatus(customers, table, s, u) =
        IF u \notin customers THEN "no_customer"
        ELSE IF n = 0 THEN "no_subscription"
        ELSE classifyTVReconcileStatus(table[n])
  BY DEF ReconcileStatus
<1> HIDE DEF n
<1>3. ASSUME n # 0
      PROVE  classifyTVReconcileStatus(table[n]) =
                 IF table[n].status = "active" THEN "matched_active" ELSE "db_inactive"
  <2>1. table[n].granted = (table[n].status = "active")
    BY <1>1, <1>3
  <2>2. CASE table[n].status = "active"
    BY <2>1, <2>2 DEF classifyTVReconcileStatus
  <2>3. CASE table[n].status # "active"
    BY <2>3 DEF classifyTVReconcileStatus
  <2> QED BY <2>2, <2>3
<1> QED BY <1>1, <1>2, <1>3 DEF ReconcileStatuses

\* An active subscription has a customer, and is the only kind that matches.
LEMMA MatchedNow ==
    ASSUME TablesInv, NEW s \in Scripts, NEW u \in Users
    PROVE  ReconcileStatus(customer, sub, s, u) = "matched_active" <=> ActiveSub(s, u)
<1>1. ActiveSub(s, u) => u \in customer
  BY DEF ActiveSub, TablesInv
<1>2. ReconcileStatus(customer, sub, s, u) = "matched_active" <=> u \in customer /\ ActiveIn(sub, s, u)
  BY MatchedIs DEF TablesInv
<1> QED BY <1>1, <1>2 DEF ActiveSub, ActiveIn

\* The overview (TVAccessOverviewService.List) shows a matched access exactly
\* for the untouched pairs with an active subscription, whatever other rows
\* the pair has, and finds no flag at odds with its status.
THEOREM OverviewCorrect == Spec => OverviewIsExact
<1> DEFINE Exact == \A r \in Rows(overview.only, overview.customer, overview.sub) :
                      /\ r.reconcile # "grant_flag_mismatch"
                      /\ <<r.script, r.user>> \notin overview.touched =>
                           (r.reconcile = "matched_active") = ActiveSub(r.script, r.user)
<1>1. ASSUME ReportInv, LoadActiveTVAccesses
      PROVE  Exact
  <2> SUFFICES ASSUME NEW r \in Rows(overview.only, overview.customer, overview.sub)
               PROVE  /\ r.reconcile # "grant_flag_mismatch"
                      /\ <<r.script, r.user>> \notin overview.touched =>
                           (r.reconcile = "matched_active") = ActiveSub(r.script, r.user)
    OBVIOUS
  <2> DEFINE Status(s, u) == ReconcileStatus(overview.customer, overview.sub, s, u)
  <2>1. PICK x \in access : /\ r.script = x.script /\ r.user = x.user
                            /\ r.reconcile = Status(x.script, x.user)
    BY DEF Rows
  <2>2. x.script \in Scripts /\ x.user \in Users
    BY <1>1 DEF ReportInv, TablesInv, AccessRows
  <2>3. overview.pc = "accesses" /\ \A i \in Subs : overview.sub[i].granted = (overview.sub[i].status = "active")
    BY <1>1 DEF ReportInv, OverviewInv, LoadActiveTVAccesses
  <2>4. /\ Status(x.script, x.user) = "matched_active"
             <=> x.user \in overview.customer /\ ActiveIn(overview.sub, x.script, x.user)
        /\ Status(x.script, x.user) # "grant_flag_mismatch"
    BY <2>3, MatchedIs
  <2>5. ASSUME <<x.script, x.user>> \notin overview.touched
        PROVE  Status(x.script, x.user) = "matched_active" <=> ActiveSub(x.script, x.user)
    <3>1. /\ x.user \in overview.customer <=> x.user \in customer
          /\ ActiveIn(overview.sub, x.script, x.user) <=> ActiveIn(sub, x.script, x.user)
      BY <1>1, <2>2, <2>3, <2>5 DEF ReportInv, OverviewInv
    <3>2. ActiveSub(x.script, x.user) <=> ActiveIn(sub, x.script, x.user)
      BY DEF ActiveSub, ActiveIn
    <3>3. ActiveSub(x.script, x.user) => x.user \in customer
      BY <1>1 DEF ActiveSub, ReportInv, TablesInv
    <3> QED BY <2>4, <3>1, <3>2, <3>3
  <2>6. ActiveSub(x.script, x.user) \in BOOLEAN
    BY DEF ActiveSub
  <2> HIDE DEF Status
  <2> QED BY <2>1, <2>4, <2>5, <2>6
<1>2. ReportInv /\ [Next]_vars => [LoadActiveTVAccesses => Exact]_vars
  BY <1>1
<1>3. Spec => [][LoadActiveTVAccesses => Exact]_vars
  BY <1>2, ReportInvariant, PTL DEF Spec
<1> QED BY <1>3 DEF OverviewIsExact

\* The audit calls extra exactly the names that the overview, taken from the
\* same tables, does not show as matched: DbSet and ShouldPrefer agree.
THEOREM ReportsCorrect == Spec => []ReportsAgree
<1>1. ASSUME TablesInv
      PROVE  ReportsAgree
  <2> SUFFICES ASSUME NEW s \in Enabled
               PROVE  ExtraOnTV({x.user : x \in {y \in access : y.script = s}}, DbSet(s)) =
                        {r.user : r \in {x \in Rows({s}, customer, sub) : x.reconcile # "matched_active"}}
    BY DEF ReportsAgree
  <2> DEFINE Extra == ExtraOnTV({x.user : x \in {y \in access : y.script = s}}, DbSet(s))
             Unmatched == {r.user : r \in {x \in Rows({s}, customer, sub) : x.reconcile # "matched_active"}}
             Row(x) == [script |-> x.script, user |-> x.user, access |-> AccessStatus(x.end),
                        reconcile |-> ReconcileStatus(customer, sub, x.script, x.user)]
  <2>1. s \in Scripts
    BY ScriptsAssumption
  <2>2. \A u : u \in DbSet(s) <=> ActiveSub(s, u)
    BY DEF DbSet, ActiveSub
  <2>3. \A x \in access : x.user \in Users
    BY <1>1 DEF TablesInv, AccessRows
  <2>4. \A u : u \in Extra <=> \E x \in access : x.script = s /\ x.user = u /\ ~ ActiveSub(s, u)
    BY <2>2 DEF ExtraOnTV
  <2>5. Rows({s}, customer, sub) = {Row(x) : x \in {y \in access : y.script = s}}
    BY DEF Rows
  <2>6. \A x : /\ Row(x).user = x.user
               /\ Row(x).reconcile = ReconcileStatus(customer, sub, x.script, x.user)
    OBVIOUS
  <2> HIDE DEF Row
  <2>7. \A u : u \in Unmatched <=> \E x \in access : /\ x.script = s /\ x.user = u
                                                     /\ ReconcileStatus(customer, sub, s, u) # "matched_active"
    <3>1. \A u : u \in Unmatched <=> \E r \in Rows({s}, customer, sub) : r.user = u /\ r.reconcile # "matched_active"
      OBVIOUS
    <3>2. \A u : u \in Unmatched <=> \E x \in access : /\ x.script = s /\ Row(x).user = u
                                                       /\ Row(x).reconcile # "matched_active"
      BY <2>5, <3>1
    <3> HIDE DEF Unmatched
    <3> QED BY <2>6, <3>2
  <2> HIDE DEF Extra, Unmatched
  <2>8. \A u \in Users : ReconcileStatus(customer, sub, s, u) = "matched_active" <=> ActiveSub(s, u)
    BY <1>1, <2>1, MatchedNow
  <2>9. Extra = Unmatched
    BY <2>3, <2>4, <2>7, <2>8
  <2> QED BY <2>9 DEF Extra, Unmatched
<1>2. ReportInv => ReportsAgree
  BY <1>1 DEF ReportInv
<1> QED BY <1>2, ReportInvariant, PTL

-----------------------------------------------------------------------------
(* The summary.                                                            *)

LEMMA CardinalityOfParts ==
    ASSUME NEW A, NEW B, IsFiniteSet(A), IsFiniteSet(B), A \cap B = {}
    PROVE  /\ Cardinality(A) \in Nat /\ Cardinality(B) \in Nat
           /\ Cardinality(A \cup B) = Cardinality(A) + Cardinality(B)
<1>1. Cardinality(A \cup B) = Cardinality(A) + Cardinality(B) - Cardinality(A \cap B)
  BY FS_Union
<1>2. Cardinality(A \cap B) = 0
  BY FS_EmptySet
<1>3. Cardinality(A) \in Nat /\ Cardinality(B) \in Nat
  BY FS_CardinalityType
<1> QED BY <1>1, <1>2, <1>3

Sum(count) == FoldFunction(LAMBDA m, n : m + n, 0, count)

\* Counts per class add up to the number of rows: the fold is well defined
\* and, for the classes it has gone through, counts their rows.
LEMMA ClassesAddUp ==
    ASSUME NEW R, IsFiniteSet(R), NEW D, IsFiniteSet(D), NEW class, \A r \in R : class[r] \in D
    PROVE  Sum([c \in D |-> Cardinality({r \in R : class[r] = c})]) = Cardinality(R)
<1> DEFINE count == [c \in D |-> Cardinality({r \in R : class[r] = c})]
           In(x) == {r \in R : class[r] \in x}
           Some(x) == CHOOSE c \in x : TRUE
           Sums(h) == h = [x \in SUBSET (DOMAIN count) |->
                             IF x = {} THEN 0 ELSE count[Some(x)] + h[x \ {Some(x)}]]
           g == [x \in SUBSET (DOMAIN count) |-> Cardinality(In(x))]
           f == CHOOSE h : Sums(h)
<1>1. Sum(count) = f[DOMAIN count]
  BY Zenon DEF Sum, FoldFunction, FoldFunctionOnSet, MapThenFoldSet
<1>2. DOMAIN count = D /\ \A c \in D : count[c] = Cardinality({r \in R : class[r] = c})
  OBVIOUS
<1>3. \A x : x # {} => Some(x) \in x
  OBVIOUS
<1> HIDE DEF count, Some
<1>4. \A x : IsFiniteSet(In(x)) /\ Cardinality(In(x)) \in Nat
  BY FS_Subset, FS_CardinalityType, \A x : In(x) \in SUBSET R
<1>5. ASSUME NEW x \in SUBSET D, x # {}
      PROVE  Cardinality(In(x)) = count[Some(x)] + Cardinality(In(x \ {Some(x)}))
  <2> DEFINE c == Some(x)
             A == {r \in R : class[r] = c}
             B == In(x \ {c})
  <2>1. c \in x
    BY <1>3, <1>5
  <2>2. count[c] = Cardinality(A)
    BY <1>2, <2>1
  <2>3. In(x) = A \cup B /\ A \cap B = {}
    BY <2>1
  <2>4. IsFiniteSet(A) /\ IsFiniteSet(B)
    BY <1>4, FS_Subset, A \in SUBSET R
  <2> HIDE DEF In, A, B, c
  <2>5. Cardinality(In(x)) = Cardinality(A) + Cardinality(B)
    BY <2>3, <2>4, CardinalityOfParts
  <2> QED BY <2>2, <2>5 DEF B, c
<1>6. Cardinality(In({})) = 0
  <2>1. In({}) = {}
    OBVIOUS
  <2> QED BY <2>1, FS_EmptySet
<1> HIDE DEF In
<1>7. Sums(g)
  <2>1. ASSUME NEW x \in SUBSET D
        PROVE  g[x] = IF x = {} THEN 0 ELSE count[Some(x)] + g[x \ {Some(x)}]
    <3>1. x \ {Some(x)} \in SUBSET D
      OBVIOUS
    <3>2. g[x] = Cardinality(In(x)) /\ g[x \ {Some(x)}] = Cardinality(In(x \ {Some(x)}))
      BY <1>2, <3>1
    <3> HIDE DEF g
    <3> QED BY <1>5, <1>6, <3>2
  <2>2. g = [x \in SUBSET (DOMAIN count) |-> g[x]]
    OBVIOUS
  <2> HIDE DEF g
  <2>3. g = [x \in SUBSET (DOMAIN count) |-> IF x = {} THEN 0 ELSE count[Some(x)] + g[x \ {Some(x)}]]
    BY <1>2, <2>1, <2>2
  <2> QED BY <2>3, Zenon
<1>8. Sums(f)
  <2> HIDE DEF g, Sums
  <2> QED BY <1>7, Zenon
<1> HIDE DEF f
<1>9. \A x \in SUBSET D : f[x] = IF x = {} THEN 0 ELSE count[Some(x)] + f[x \ {Some(x)}]
  BY <1>2, <1>8
<1> DEFINE Same(x) == f[x] = Cardinality(In(x))
           S == {n \in Nat : \A x \in SUBSET D : Cardinality(x) = n => Same(x)}
<1>10. Same({})
  BY <1>6, <1>9
<1> HIDE DEF Same
<1>11. 0 \in S
  <2>1. \A x \in SUBSET D : Cardinality(x) = 0 => x = {}
    BY FS_Subset, FS_EmptySet
  <2> QED BY <1>10, <2>1
<1>12. ASSUME NEW n \in Nat, n \in S
       PROVE  n + 1 \in S
  <2> SUFFICES ASSUME NEW x \in SUBSET D, Cardinality(x) = n + 1
               PROVE  Same(x)
    OBVIOUS
  <2>1. PICK c : c = Some(x)
    OBVIOUS
  <2>2. x # {} /\ c \in x
    BY <1>3, <2>1, FS_EmptySet
  <2>3. Cardinality(x \ {c}) = n
    <3>1. IsFiniteSet(x) /\ Cardinality(x) - 1 = n
      BY FS_Subset
    <3> QED BY <2>2, <3>1, FS_RemoveElement
  <2>4. Same(x \ {c})
    BY <1>12, <2>3
  <2>5. f[x] = count[c] + f[x \ {c}] /\ Cardinality(In(x)) = count[c] + Cardinality(In(x \ {c}))
    BY <1>5, <1>9, <2>1, <2>2
  <2> QED BY <2>4, <2>5 DEF Same
<1>13. Same(D)
  <2>1. Cardinality(D) \in Nat
    BY FS_CardinalityType
  <2>2. Cardinality(D) \in S
    <3> HIDE DEF S
    <3> QED BY <1>11, <1>12, <2>1, NaturalsReached
  <2> QED BY <2>2
<1>14. In(D) = R
  BY DEF In
<1> QED BY <1>1, <1>2, <1>13, <1>14 DEF Same, count

\* The rows of the overview stand for the accesses one by one.
LEMMA RowsCounted ==
    ASSUME TablesInv
    PROVE  /\ IsFiniteSet(Rows(Scripts, customer, sub))
           /\ Cardinality(Rows(Scripts, customer, sub)) = Cardinality(access)
           /\ \A r \in Rows(Scripts, customer, sub) : r.access \in AccessStatuses /\ r.reconcile \in ReconcileStatuses
<1> DEFINE R == Rows(Scripts, customer, sub)
           Row(x) == [script |-> x.script, user |-> x.user, access |-> AccessStatus(x.end),
                      reconcile |-> ReconcileStatus(customer, sub, x.script, x.user)]
           f == [x \in access |-> Row(x)]
<1>1. R = {Row(x) : x \in access}
  <2>1. access = {y \in access : y.script \in Scripts}
    BY DEF TablesInv, AccessRows
  <2> QED BY <2>1 DEF Rows
<1>2. \A x : Row(x).script = x.script /\ Row(x).user = x.user
  OBVIOUS
<1>3. \A x, y \in access : f[x] = f[y] => x = y
  <2> SUFFICES ASSUME NEW x \in access, NEW y \in access, Row(x) = Row(y)
               PROVE  x = y
    OBVIOUS
  <2> HIDE DEF Row
  <2>1. x.script = y.script /\ x.user = y.user
    BY <1>2
  <2> QED BY <2>1 DEF TablesInv
<1>4. f \in Surjection(access, R) /\ f \in Injection(access, R)
  <2>1. f \in [access -> R]
    BY <1>1
  <2>2. \A r \in R : \E x \in access : f[x] = r
    BY <1>1
  <2> HIDE DEF f, R
  <2> QED BY <1>3, <2>1, <2>2 DEF Surjection, Injection, IsInjective
<1>5. IsFiniteSet(R) /\ Cardinality(R) = Cardinality(access)
  <2> HIDE DEF f, R
  <2>1. IsFiniteSet(access)
    BY DEF TablesInv
  <2> QED BY <1>4, <2>1, FS_Surjection
<1>6. \A x \in access : Row(x).access \in AccessStatuses /\ Row(x).reconcile \in ReconcileStatuses
  <2> SUFFICES ASSUME NEW x \in access
               PROVE  /\ AccessStatus(x.end) \in AccessStatuses
                      /\ ReconcileStatus(customer, sub, x.script, x.user) \in ReconcileStatuses
    OBVIOUS
  <2>1. AccessStatus(x.end) \in AccessStatuses
    BY DEF AccessStatus, AccessStatuses
  <2> QED BY <2>1, MatchedIs DEF TablesInv
<1> HIDE DEF Row
<1> QED BY <1>1, <1>5, <1>6

\* On every day and for every end, each access is in one class of either
\* classification (accessStatus, classifyTVReconcileStatus): the cards above
\* the list add up to the list.
THEOREM SummaryCorrect == Spec => []SummaryAddsUp
<1>1. ASSUME TablesInv
      PROVE  SummaryAddsUp
  <2> DEFINE R == Rows(Scripts, customer, sub)
             A == [r \in R |-> r.access]
             B == [r \in R |-> r.reconcile]
  <2>1. /\ IsFiniteSet(R) /\ Cardinality(R) = Cardinality(access)
        /\ \A r \in R : A[r] \in AccessStatuses /\ B[r] \in ReconcileStatuses
    BY <1>1, RowsCounted
  <2>2. IsFiniteSet(AccessStatuses) /\ IsFiniteSet(ReconcileStatuses)
    <3>1. /\ AccessStatuses = ({"active"} \cup {"expiring"}) \cup ({"expired"} \cup {"permanent"})
          /\ ReconcileStatuses = (({"matched_active"} \cup {"no_customer"}) \cup ({"no_subscription"} \cup {"db_inactive"}))
                                   \cup {"grant_flag_mismatch"}
      BY DEF AccessStatuses, ReconcileStatuses
    <3>2. \A c : IsFiniteSet({c})
      BY FS_Singleton
    <3>3. \A S, T : IsFiniteSet(S) /\ IsFiniteSet(T) => IsFiniteSet(S \cup T)
      BY FS_Union
    <3> QED BY <3>1, <3>2, <3>3
  <2>3. \A c : {r \in R : A[r] = c} = {r \in R : r.access = c}
    OBVIOUS
  <2>4. \A c : {r \in R : B[r] = c} = {r \in R : r.reconcile = c}
    OBVIOUS
  <2> HIDE DEF R, A, B
  <2>5. Sum([c \in AccessStatuses |-> Cardinality({r \in R : A[r] = c})]) = Cardinality(R)
    BY <2>1, <2>2, ClassesAddUp
  <2>6. Sum([c \in ReconcileStatuses |-> Cardinality({r \in R : B[r] = c})]) = Cardinality(R)
    BY <2>1, <2>2, ClassesAddUp
  <2>7. /\ Summary(R).total = Cardinality(R)
        /\ Summary(R).access = [c \in AccessStatuses |-> Cardinality({r \in R : A[r] = c})]
        /\ Summary(R).reconcile = [c \in ReconcileStatuses |-> Cardinality({r \in R : B[r] = c})]
    BY <2>3, <2>4 DEF Summary
  <2>8. Sum(Summary(R).access) = Summary(R).total /\ Sum(Summary(R).reconcile) = Summary(R).total
    BY <2>5, <2>6, <2>7
  <2> QED BY <2>1, <2>7, <2>8 DEF SummaryAddsUp, R, Sum
<1>2. ReportInv => SummaryAddsUp
  BY <1>1 DEF ReportInv
<1> QED BY <1>2, ReportInvariant, PTL
=============================================================================
