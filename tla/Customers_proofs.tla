-------------------------- MODULE Customers_proofs --------------------------
(***************************************************************************)
(* Proofs about the customer rows, for any number of workers, names,       *)
(* agents and connections: what an agent has claimed is taken over only by *)
(* an operation that was under way at the claim.                           *)
(***************************************************************************)
EXTENDS Customers, TLAPS

-----------------------------------------------------------------------------
(* The invariant.  A write is prepared in the row's draft under its lock,  *)
(* so until the commit nobody else changes the row; the one who has yet to *)
(* claim saw a row without an owner, so an owner who is there by then came *)
(* in between; and a row that a later step writes to was there before.     *)

Ops == OfAgent \cup OfAnyone \cup OfNobody
PCs == {"idle", "get", "file", "reread", "begin", "lookup", "find", "insert", "claim", "update",
        "validate", "save", "sync", "commit"}
Rows == [there : BOOLEAN, owner : Agents \cup {NoAgent}, known : BOOLEAN]
Tasks == [op : Ops \cup {"none"}, name : Names \cup {Nobody}, agent : Agents \cup {NoAgent}, pc : PCs,
          seen : Rows, draft : Rows]

Typed == /\ row \in [Names -> Rows] /\ lock \in [Names -> Workers \cup {Nobody}]
         /\ task \in [Workers -> Tasks] /\ displaced \subseteq Workers

\* The steps of a transaction that may hold a lock, and all that rely on a row
\* that was read or written before.
Last == {"validate", "save", "sync", "commit"}
Reliant(pc, op) == \/ pc \in {"file", "update"} \cup Last
                   \/ pc = "begin" /\ op \in {"approve", "update", "submitById"}

\* Row r may become d without a loss, as far as it is not w who displaces.
Keeps(r, d, w) == /\ d.there
                  /\ r.there => /\ r.known => d.known
                                /\ r.owner \in {NoAgent, d.owner} \/ w \in displaced

LockHeld(n, w) == /\ task[w].pc \in Last /\ task[w].name = n
                  /\ Keeps(row[n], task[w].draft, w)

ClaimDue(w) == LET r == row[task[w].name]
               IN  r.there /\ (r.owner = NoAgent \/ w \in displaced)

RowRead(w) == LET t == task[w]
              IN  Reliant(t.pc, t.op) /\ lock[t.name] # w => row[t.name].there

CustomersInv ==
    /\ Typed
    /\ \A n \in Names, w \in Workers : lock[n] = w => LockHeld(n, w)
    /\ \A w \in Workers : Busy(w) => task[w].name \in Names /\ task[w].op \in Ops
    /\ \A w \in Workers : At(w, "claim") => ClaimDue(w)
    /\ \A w \in Workers : Busy(w) => RowRead(w)
    /\ \A a \in Agents \cup {NoAgent}, n \in Names : <<a, n>> \in requests => row[n].there

\* What OwnerKept says of a step.
KeptRows == \A n \in Names : row[n].there =>
               /\ row'[n].there /\ (row[n].known => row'[n].known)
               /\ row[n].owner \notin {NoAgent, row'[n].owner} =>
                      \E w \in displaced : task[w].name = n /\ task'[w] # task[w]

LEMMA CustomersInitially == Init => CustomersInv
<1> SUFFICES ASSUME Init PROVE CustomersInv
  OBVIOUS
<1>1. NoRow \in Rows /\ NewRow(NoAgent, FALSE) \in Rows
  BY DEF NoRow, NewRow, Rows
<1>2. Idle \in Tasks
  BY <1>1 DEF Idle, Tasks, PCs
<1>3. Typed
  BY <1>1, <1>2 DEF Init, Typed
<1>4. \A w \in Workers : task[w].pc = "idle"
  BY DEF Init, Idle
<1>5. (\A n \in Names : lock[n] \notin Workers) /\ requests = {}
  BY CustomersAssumption DEF Init
<1> QED BY <1>3, <1>4, <1>5 DEF CustomersInv, Busy, At

-----------------------------------------------------------------------------
(* A worker goes on, and may lock the row of its customer.                 *)

LEMMA Advanced ==
    ASSUME CustomersInv, NEW w \in Workers, NEW t \in Tasks,
           task' = [task EXCEPT ![w] = t], UNCHANGED <<row, requests, displaced>>,
           t.name \in Names, t.op \in Ops, lock' \in [Names -> Workers \cup {Nobody}],
           \A n \in Names : lock'[n] = lock[n] \/ (lock'[n] = w /\ lock[n] = Nobody),
           \A n \in Names : lock'[n] = w =>
               t.pc \in Last /\ t.name = n /\ Keeps(row[n], t.draft, w),
           Reliant(t.pc, t.op) /\ lock'[t.name] # w => row[t.name].there,
           t.pc = "claim" => row[t.name].there /\ (row[t.name].owner = NoAgent \/ w \in displaced)
    PROVE  CustomersInv'
<1>1. task \in [Workers -> Tasks] /\ task'[w] = t /\ \A v \in Workers \ {w} : task'[v] = task[v]
  BY DEF CustomersInv, Typed
<1>2. Typed'
  BY DEF CustomersInv, Typed
<1>3. ASSUME NEW n \in Names, NEW v \in Workers, lock'[n] = v PROVE LockHeld(n, v)'
  <2>1. CASE v = w
    BY <1>1, <1>3, <2>1 DEF LockHeld, Keeps
  <2>2. CASE v # w
    <3>1. lock[n] = v
      BY <1>3, <2>2
    <3>2. LockHeld(n, v)
      BY <3>1 DEF CustomersInv
    <3> QED BY <1>1, <2>2, <3>2 DEF LockHeld, Keeps
  <2> QED BY <2>1, <2>2
<1>4. \A v \in Workers : Busy(v)' => task'[v].name \in Names /\ task'[v].op \in Ops
  BY <1>1 DEF CustomersInv, Busy, At
<1>5. \A v \in Workers : At(v, "claim")' => ClaimDue(v)'
  BY <1>1 DEF CustomersInv, At, ClaimDue
<1>6. ASSUME NEW v \in Workers, Busy(v)' PROVE RowRead(v)'
  <2>1. CASE v = w
    BY <1>1, <2>1 DEF RowRead
  <2>2. CASE v # w
    <3>1. task'[v] = task[v] /\ RowRead(v) /\ task[v].name \in Names
      BY <1>1, <1>6, <2>2 DEF CustomersInv, Busy, At
    <3>2. lock'[task[v].name] # v => lock[task[v].name] # v
      BY <3>1, CustomersAssumption
    <3> QED BY <3>1, <3>2 DEF RowRead
  <2> QED BY <2>1, <2>2
<1> QED BY <1>2, <1>3, <1>4, <1>5, <1>6 DEF CustomersInv

\* A worker is done, and holds no lock any more.
LEMMA Ended ==
    ASSUME CustomersInv, NEW w \in Workers, Finish(w), UNCHANGED row,
           lock' \in [Names -> Workers \cup {Nobody}],
           \A n \in Names : lock'[n] # w /\ (lock'[n] = lock[n] \/ (lock[n] = w /\ lock'[n] = Nobody)),
           \A a \in Agents \cup {NoAgent}, n \in Names : <<a, n>> \in requests' => row[n].there
    PROVE  CustomersInv'
<1>1. task \in [Workers -> Tasks] /\ task'[w] = Idle /\ \A v \in Workers \ {w} : task'[v] = task[v]
  BY DEF CustomersInv, Typed, Finish
<1>2. Idle \in Tasks /\ Idle.pc = "idle"
  BY DEF Idle, Tasks, PCs, NoRow, Rows
<1>3. Typed'
  BY <1>2 DEF CustomersInv, Typed, Finish
<1>4. ASSUME NEW n \in Names, NEW v \in Workers, lock'[n] = v PROVE LockHeld(n, v)'
  <2>1. v # w /\ lock[n] = v
    BY <1>4, CustomersAssumption
  <2>2. LockHeld(n, v)
    BY <2>1 DEF CustomersInv
  <2>3. task'[v] = task[v] /\ (v \in displaced => v \in displaced')
    BY <1>1, <2>1 DEF Finish
  <2> QED BY <2>2, <2>3 DEF LockHeld, Keeps
<1>5. \A v \in Workers : Busy(v)' => task'[v].name \in Names /\ task'[v].op \in Ops
  BY <1>1, <1>2 DEF CustomersInv, Busy, At
<1>6. \A v \in Workers : At(v, "claim")' => ClaimDue(v)'
  BY <1>1, <1>2 DEF CustomersInv, At, ClaimDue, Finish
<1>7. ASSUME NEW v \in Workers, Busy(v)' PROVE RowRead(v)'
  <2>1. v # w /\ task'[v] = task[v] /\ RowRead(v) /\ task[v].name \in Names
    BY <1>1, <1>2, <1>7 DEF CustomersInv, Busy, At
  <2>2. lock'[task[v].name] # v => lock[task[v].name] # v
    BY <2>1
  <2> QED BY <2>1, <2>2 DEF RowRead
<1> QED BY <1>3, <1>4, <1>5, <1>6, <1>7 DEF CustomersInv

LEMMA RolledBack ==
    ASSUME CustomersInv, NEW w \in Workers, Rollback(w)
    PROVE  CustomersInv'
<1>1. Unlocked(w) \in [Names -> Workers \cup {Nobody}]
  BY DEF CustomersInv, Typed, Unlocked
<1>2. \A n \in Names : /\ Unlocked(w)[n] # w
                       /\ Unlocked(w)[n] = lock[n] \/ (lock[n] = w /\ Unlocked(w)[n] = Nobody)
  BY CustomersAssumption DEF Unlocked
<1>3. \A a \in Agents \cup {NoAgent}, n \in Names : <<a, n>> \in requests => row[n].there
  BY DEF CustomersInv
<1> QED BY <1>1, <1>2, <1>3, Ended DEF Rollback

\* The worker only changes what comes next, and has no lock or keeps it.
LEMMA Moved ==
    ASSUME CustomersInv, NEW w \in Workers, NEW pc \in PCs, Busy(w),
           GoTo(w, pc), UNCHANGED <<row, lock, requests, displaced>>, pc # "claim",
           Reliant(pc, task[w].op) => Reliant(task[w].pc, task[w].op) \/ row[task[w].name].there,
           pc \in Last \/ \A n \in Names : lock[n] # w
    PROVE  CustomersInv'
<1> DEFINE t == [task[w] EXCEPT !.pc = pc]
<1>1. task[w] \in Tasks
  BY DEF CustomersInv, Typed
<1>2. /\ t \in Tasks /\ t.pc = pc /\ t.op = task[w].op /\ t.name = task[w].name /\ t.draft = task[w].draft
      /\ task' = [task EXCEPT ![w] = t]
  BY <1>1 DEF Tasks, GoTo
<1>3. t.name \in Names /\ t.op \in Ops
  BY <1>2 DEF CustomersInv
<1>4. \A n \in Names : lock'[n] = w => pc \in Last /\ t.name = n /\ Keeps(row[n], t.draft, w)
  BY <1>2 DEF CustomersInv, LockHeld
<1>6. Reliant(t.pc, t.op) /\ lock'[t.name] # w => row[t.name].there
  BY <1>2 DEF CustomersInv, RowRead
<1>5. lock' \in [Names -> Workers \cup {Nobody}]
  BY DEF CustomersInv, Typed
<1> HIDE DEF t
<1> QED BY <1>2, <1>3, <1>4, <1>5, <1>6, Advanced

\* A worker with no lock has none when it has finished.
LEMMA Finished ==
    ASSUME CustomersInv, NEW w \in Workers, Finish(w), UNCHANGED <<row, lock, requests>>,
           \A n \in Names : lock[n] # w
    PROVE  CustomersInv'
BY Ended DEF CustomersInv, Typed

\* Outside of the steps that hold one, a worker has no lock.
LEMMA NoLock ==
    ASSUME CustomersInv, NEW w \in Workers, task[w].pc \notin Last
    PROVE  \A n \in Names : lock[n] # w
BY DEF CustomersInv, LockHeld

-----------------------------------------------------------------------------
(* The steps.                                                              *)

LEMMA Written ==
    ASSUME CustomersInv, NEW w \in Workers, Busy(w), NEW draft \in Rows,
           NEW pc \in Last,
           Write(w, draft, pc), Keeps(row[task[w].name], draft, w)
    PROVE  CustomersInv'
<1> DEFINE t == [task[w] EXCEPT !.draft = draft, !.pc = pc]
<1>1. task[w] \in Tasks /\ task[w].name \in Names /\ task[w].op \in Ops
  BY DEF CustomersInv, Typed
<1>2. /\ t \in Tasks /\ t.pc = pc /\ t.op \in Ops /\ t.name = task[w].name /\ t.draft = draft
      /\ task' = [task EXCEPT ![w] = t] /\ lock' = [lock EXCEPT ![t.name] = w]
      /\ UNCHANGED <<row, requests, displaced>> /\ lock[t.name] \in {Nobody, w}
  BY <1>1 DEF Tasks, Write, PCs, Last
<1>3. /\ lock' \in [Names -> Workers \cup {Nobody}] /\ lock'[t.name] = w
      /\ \A n \in Names : lock'[n] = lock[n] \/ (lock'[n] = w /\ lock[n] = Nobody)
  BY <1>1, <1>2 DEF CustomersInv, Typed
<1>4. \A n \in Names : lock'[n] = w => n = t.name
  <2>1. \A n \in Names : lock[n] = w => n = t.name
    BY <1>2 DEF CustomersInv, LockHeld
  <2> QED BY <1>2, <2>1 DEF CustomersInv, Typed
<1> HIDE DEF t
<1> QED BY <1>1, <1>2, <1>3, <1>4, Advanced DEF Last

LEMMA Started ==
    ASSUME CustomersInv, NEW w \in Workers, Start(w)
    PROVE  CustomersInv'
<1>1. PICK n \in Names, a \in Agents \cup {NoAgent}, op \in OfAgent \cup OfAnyone \cup OfNobody :
          task' = [task EXCEPT ![w] = [Idle EXCEPT !.op = op, !.name = n, !.agent = a, !.pc = "get"]]
  BY DEF Start
<1> DEFINE t == [Idle EXCEPT !.op = op, !.name = n, !.agent = a, !.pc = "get"]
<1>2. /\ t \in Tasks /\ t.name = n /\ t.pc = "get" /\ t.op \in Ops
      /\ task' = [task EXCEPT ![w] = t]
  BY <1>1 DEF Idle, Tasks, PCs, NoRow, Rows, Ops
<1>3. \A m \in Names : lock[m] # w
  BY NoLock DEF Start, At, Last
<1>4. lock' \in [Names -> Workers \cup {Nobody}] /\ UNCHANGED <<row, lock, requests, displaced>>
  BY DEF Start, CustomersInv, Typed
<1> HIDE DEF t
<1> QED BY <1>2, <1>3, <1>4, Advanced DEF Reliant, Last

LEMMA FirstSteps ==
    ASSUME NEW op \in Ops
    PROVE  FirstStep(op) \in PCs \ {"claim"} /\ (Reliant(FirstStep(op), op) => Reliant("begin", op))
<1>1. op \in {"submitByName", "submitById", "createPending", "approve", "update", "create", "grantByName",
              "grantById"}
  BY DEF Ops, OfAgent, OfAnyone, OfNobody
<1> QED BY <1>1 DEF FirstStep, PCs, Reliant, Last

LEMMA Stated ==
    ASSUME CustomersInv, NEW w \in Workers, Statement(w)
    PROVE  CustomersInv'
<1>1. CASE Get(w)
  <2>1. \A n \in Names : lock[n] # w
    BY <1>1, NoLock DEF Get, At, Last
  <2>2. CASE Finish(w)
    BY <1>1, <2>1, <2>2, Finished DEF Get
  <2>3. CASE Admitted(task[w]) /\ GoTo(w, IF task[w].op = "submitById" THEN "file" ELSE "begin") /\ UNCHANGED displaced
    <3> DEFINE pc == IF task[w].op = "submitById" THEN "file" ELSE "begin"
    <3>1. Busy(w) /\ task[w].name \in Names /\ task[w] \in Tasks
      BY <1>1 DEF Get, At, Busy, CustomersInv, Typed
    <3>2. Reliant(pc, task[w].op) => task[w].op \in {"submitById", "approve", "update"}
      BY DEF Reliant, Last
    <3>3. task[w].op \in {"submitById", "approve", "update"} => row[task[w].name].there
      BY <2>3, <3>1 DEF Admitted, CustomersInv, Tasks
    <3>4. pc \in PCs /\ pc # "claim" /\ GoTo(w, pc)
      BY <2>3 DEF PCs
    <3> HIDE DEF pc
    <3> QED BY <1>1, <2>1, <2>3, <3>1, <3>2, <3>3, <3>4, Moved DEF Get
  <2> QED BY <1>1, <2>2, <2>3 DEF Get
<1>2. CASE File(w)
  <2>1. \A n \in Names : lock[n] # w
    BY <1>2, NoLock DEF File, At, Last
  <2>2. task[w].name \in Names /\ row[task[w].name].there
    BY <1>2, <2>1 DEF File, At, Busy, CustomersInv, RowRead, Reliant
  <2>3. \A a \in Agents \cup {NoAgent}, n \in Names : <<a, n>> \in requests' => row[n].there
    BY <1>2, <2>2 DEF File, CustomersInv
  <2>4. lock' \in [Names -> Workers \cup {Nobody}]
    BY <1>2 DEF File, CustomersInv, Typed
  <2> QED BY <1>2, <2>1, <2>3, <2>4, Ended DEF File
<1>3. CASE Reread(w)
  BY <1>3, NoLock, Finished DEF Reread, At, Last
<1>4. CASE Begin(w)
  <2>1. \A n \in Names : lock[n] # w
    BY <1>4, NoLock DEF Begin, At, Last
  <2>2. Busy(w) /\ task[w].op \in Ops
    BY <1>4 DEF Begin, At, Busy, CustomersInv
  <2>3. /\ FirstStep(task[w].op) \in PCs \ {"claim"}
        /\ Reliant(FirstStep(task[w].op), task[w].op) => Reliant(task[w].pc, task[w].op)
    BY <1>4, <2>2, FirstSteps DEF Begin, At
  <2> QED BY <1>4, <2>1, <2>2, <2>3, Moved DEF Begin
<1>5. CASE Lookup(w)
  <2>1. CASE Rollback(w)
    BY <2>1, RolledBack
  <2>2. CASE /\ row[task[w].name].there /\ GoTo(w, "validate")
             /\ UNCHANGED <<row, lock, requests, free, displaced, ops>>
    BY <1>5, <2>2, Moved DEF Lookup, At, Busy, PCs, Last
  <2> QED BY <1>5, <2>1, <2>2 DEF Lookup
<1> QED BY <1>1, <1>2, <1>3, <1>4, <1>5 DEF Statement

LEMMA Found ==
    ASSUME CustomersInv, NEW w \in Workers, Find(w)
    PROVE  CustomersInv'
<1> DEFINE found == row[task[w].name]
           next == IF ~ found.there THEN "insert"
                   ELSE IF Claims(task[w], found) THEN "claim" ELSE Settled(task[w])
           t == [task[w] EXCEPT !.seen = found, !.pc = next]
<1>1. task[w] \in Tasks /\ task[w].name \in Names /\ task[w].op \in Ops
  BY DEF Find, At, Busy, CustomersInv, Typed
<1>2. found \in Rows
  BY <1>1 DEF CustomersInv, Typed
<1>3. next \in PCs /\ (next = "claim" => found.there /\ found.owner = NoAgent)
  BY DEF Settled, PCs, Claims
<1>4. t \in Tasks /\ t.name = task[w].name /\ t.op = task[w].op /\ t.pc = next
  BY <1>1, <1>2, <1>3 DEF Tasks
<1>5. task' = [task EXCEPT ![w] = t] /\ UNCHANGED <<row, lock, requests, displaced>>
  BY <1>1 DEF Find
<1>6. \A n \in Names : lock[n] # w
  BY NoLock DEF Find, At, Last
<1>8. Reliant(next, task[w].op) => found.there
  BY DEF Reliant, Last
<1>7. lock' \in [Names -> Workers \cup {Nobody}]
  BY <1>5 DEF CustomersInv, Typed
<1> HIDE DEF t, next
<1> QED BY <1>1, <1>3, <1>4, <1>5, <1>6, <1>7, <1>8, Advanced

LEMMA Committed ==
    ASSUME CustomersInv, NEW w \in Workers, At(w, "sync") \/ At(w, "commit"), Commit(w)
    PROVE  CustomersInv' /\ KeptRows
<1> DEFINE n == task[w].name
           after == AfterCommit(task[w].op)
           t == IF after = "idle" THEN Idle ELSE [task[w] EXCEPT !.pc = after]
<1>1. task[w] \in Tasks /\ n \in Names /\ task[w].op \in Ops /\ Busy(w)
  BY DEF At, Busy, CustomersInv, Typed
<1>2. after \in {"idle", "file", "reread"}
  BY DEF AfterCommit
<1>3. Idle \in Tasks /\ Idle.pc = "idle"
  BY DEF Idle, Tasks, PCs, NoRow, Rows
<1>4. /\ t \in Tasks /\ t.pc = after /\ (after # "idle" => t.name = n /\ t.op = task[w].op)
      /\ task' = [task EXCEPT ![w] = t]
  <2>1. task' = [task EXCEPT ![w] = t]
    BY DEF Commit
  <2>2. CASE after = "idle"
    BY <1>3, <2>1, <2>2
  <2>3. CASE after # "idle"
    BY <1>1, <1>2, <2>1, <2>3 DEF Tasks, PCs
  <2> QED BY <2>2, <2>3
<1>5. /\ row' = IF lock[n] = w THEN [row EXCEPT ![n] = task[w].draft] ELSE row
      /\ lock' = Unlocked(w)
      /\ \A v \in Workers \ {w} : v \in displaced \cup Overlapping(w) => v \in displaced'
      /\ displaced' \subseteq Workers /\ requests' \subseteq requests
  BY DEF Commit, Overlapping, CustomersInv, Typed
<1> HIDE DEF t, after
<1>6. task[w].draft \in Rows
  BY <1>1 DEF Tasks
<1>7. task' \in [Workers -> Tasks] /\ task'[w] = t /\ \A v \in Workers \ {w} : task'[v] = task[v]
  BY <1>4 DEF CustomersInv, Typed
<1>8. Typed'
  BY <1>5, <1>6, <1>7 DEF CustomersInv, Typed, Unlocked
<1>9. lock[n] = w => Keeps(row[n], task[w].draft, w)
  BY <1>1 DEF CustomersInv, LockHeld
<1>10. ASSUME NEW m \in Names, NEW v \in Workers, lock'[m] = v PROVE LockHeld(m, v)'
  <2>1. v # w /\ lock[m] = v
    BY <1>5, <1>10, CustomersAssumption DEF Unlocked
  <2>2. LockHeld(m, v) /\ row'[m] = row[m]
    BY <1>5, <2>1 DEF CustomersInv, Typed
  <2> QED BY <1>5, <1>7, <2>1, <2>2 DEF LockHeld, Keeps
<1>11. \A v \in Workers : Busy(v)' => task'[v].name \in Names /\ task'[v].op \in Ops
  BY <1>1, <1>4, <1>7 DEF CustomersInv, Busy, At
<1>12. ASSUME NEW v \in Workers, At(v, "claim")' PROVE ClaimDue(v)'
  <2>1. v # w /\ task'[v] = task[v] /\ ClaimDue(v)
    BY <1>2, <1>4, <1>7, <1>12 DEF At, CustomersInv
  <2>2. CASE lock[n] = w /\ task[v].name = n
    <3>1. row'[n] = task[w].draft
      BY <1>1, <1>5, <2>2 DEF CustomersInv, Typed
    <3>2. task[w].draft.there
      BY <1>9, <2>2 DEF Keeps
    <3>3. CASE task[w].draft.owner = row[n].owner
      BY <1>5, <2>1, <2>2, <3>1, <3>2, <3>3 DEF ClaimDue
    <3>4. CASE task[w].draft.owner # row[n].owner
      <4>1. v \in Overlapping(w)
        BY <1>7, <1>12, <2>1, <2>2, <3>4 DEF Overlapping, Busy, At
      <4> QED BY <1>5, <2>1, <2>2, <3>1, <3>2, <4>1 DEF ClaimDue
    <3> QED BY <3>3, <3>4
  <2>3. CASE ~ (lock[n] = w /\ task[v].name = n)
    <3>1. task[v].name \in Names
      BY <1>7, <1>12, <2>1 DEF CustomersInv, Busy, At
    <3>2. row'[task[v].name] = row[task[v].name]
      BY <1>5, <2>3, <3>1 DEF CustomersInv, Typed
    <3> QED BY <1>5, <2>1, <3>2 DEF ClaimDue
  <2> QED BY <2>2, <2>3
<1>13. KeptRows
  <2> SUFFICES ASSUME NEW m \in Names, row[m].there
               PROVE  /\ row'[m].there /\ (row[m].known => row'[m].known)
                      /\ row[m].owner \notin {NoAgent, row'[m].owner} =>
                             \E v \in displaced : task[v].name = m /\ task'[v] # task[v]
    BY DEF KeptRows
  <2>1. CASE lock[n] = w /\ m = n
    <3>1. row'[m] = task[w].draft
      BY <1>1, <1>5, <2>1 DEF CustomersInv, Typed
    <3>2. task'[w] # task[w]
      BY <1>2, <1>4, <1>7 DEF At
    <3> QED BY <1>9, <2>1, <3>1, <3>2 DEF Keeps
  <2>2. CASE ~ (lock[n] = w /\ m = n)
    BY <1>5, <2>2 DEF CustomersInv, Typed
  <2> QED BY <2>1, <2>2
<1>14. lock[n] # w => row[n].there
  BY <1>1 DEF CustomersInv, RowRead, Reliant, Last, At
<1>15. row'[n].there
  BY <1>1, <1>5, <1>9, <1>14 DEF Keeps, CustomersInv, Typed
<1>16. ASSUME NEW v \in Workers, Busy(v)' PROVE RowRead(v)'
  <2>1. CASE v = w
    BY <1>2, <1>4, <1>7, <1>15, <1>16, <2>1 DEF RowRead, Busy, At
  <2>2. CASE v # w
    <3>1. task'[v] = task[v] /\ RowRead(v) /\ task[v].name \in Names
      BY <1>7, <1>16, <2>2 DEF CustomersInv, Busy, At
    <3>2. lock'[task[v].name] # v => lock[task[v].name] # v
      BY <1>5, <2>2, <3>1 DEF Unlocked
    <3> QED BY <1>13, <3>1, <3>2 DEF RowRead, KeptRows
  <2> QED BY <2>1, <2>2
<1>17. \A a \in Agents \cup {NoAgent}, m \in Names : <<a, m>> \in requests' => row'[m].there
  BY <1>5, <1>13 DEF CustomersInv, KeptRows
<1> QED BY <1>8, <1>10, <1>11, <1>12, <1>13, <1>16, <1>17 DEF CustomersInv

\* A statement of a transaction that writes the row, or ends the transaction.
LEMMA Wrote ==
    ASSUME CustomersInv, NEW w \in Workers, Insert(w) \/ Claim(w) \/ Update(w) \/ Save(w)
    PROVE  CustomersInv'
<1> DEFINE n == task[w].name
<1>1. Busy(w) /\ n \in Names /\ row[n] \in Rows /\ task[w] \in Tasks
  BY DEF Insert, Claim, Update, Save, At, Busy, CustomersInv, Typed
<1>2. Settled(task[w]) \in {"validate", "commit"}
  BY DEF Settled
<1>3. CASE Insert(w)
  <2>1. CASE Rollback(w)
    BY <2>1, RolledBack
  <2>2. CASE ~ row[n].there /\ Write(w, NewRow(task[w].agent, task[w].op = "create"),
                  IF task[w].op \in {"create", "createPending"} THEN "commit" ELSE Settled(task[w]))
    <3> DEFINE draft == NewRow(task[w].agent, task[w].op = "create")
               pc == IF task[w].op \in {"create", "createPending"} THEN "commit" ELSE Settled(task[w])
    <3>1. draft \in Rows /\ draft.there
      BY <1>1 DEF NewRow, Rows, Tasks
    <3>2. Keeps(row[n], draft, w)
      BY <2>2, <3>1 DEF Keeps
    <3>3. pc \in Last
      BY <1>2 DEF Last
    <3>4. Write(w, draft, pc)
      BY <2>2
    <3> HIDE DEF draft, pc
    <3> QED BY <1>1, <3>1, <3>2, <3>3, <3>4, Written
  <2> QED BY <1>3, <2>1, <2>2 DEF Insert
<1>4. CASE Claim(w)
  <2> DEFINE draft == [row[n] EXCEPT !.owner = task[w].agent]
             pc == Settled(task[w])
  <2>1. draft \in Rows /\ draft.there = row[n].there /\ draft.known = row[n].known
    BY <1>1 DEF Rows, Tasks
  <2>2. row[n].there /\ (row[n].owner = NoAgent \/ w \in displaced)
    BY <1>4 DEF Claim, CustomersInv, ClaimDue
  <2>3. Keeps(row[n], draft, w)
    BY <2>1, <2>2 DEF Keeps
  <2>4. pc \in Last /\ Write(w, draft, pc)
    BY <1>2, <1>4 DEF Claim, Last
  <2> HIDE DEF draft, pc
  <2> QED BY <1>1, <2>1, <2>3, <2>4, Written
<1>5. CASE Update(w)
  <2>1. Write(w, row[n], "commit")
    BY <1>5 DEF Update
  <2>2. row[n].there
    BY <1>5 DEF Update, CustomersInv, LockHeld, RowRead, Reliant, Last, At, Busy
  <2>3. Keeps(row[n], row[n], w)
    BY <2>2 DEF Keeps
  <2> QED BY <1>1, <2>1, <2>3, Written DEF Last
<1>6. CASE Save(w)
  <2> DEFINE base == IF lock[n] = w THEN task[w].draft ELSE row[n]
             draft == [base EXCEPT !.known = TRUE]
  <2>1. base \in Rows
    BY <1>1 DEF Tasks
  <2>2. base.there /\ Keeps(row[n], base, w)
    <3>1. CASE lock[n] = w
      BY <1>1, <3>1 DEF CustomersInv, LockHeld, Keeps
    <3>2. CASE lock[n] # w
      BY <1>6, <3>2 DEF Save, CustomersInv, RowRead, Reliant, Last, At, Busy, Keeps
    <3> QED BY <3>1, <3>2
  <2>3. draft \in Rows /\ draft.there = base.there /\ draft.owner = base.owner /\ draft.known
    BY <2>1 DEF Rows
  <2>4. Keeps(row[n], draft, w)
    BY <2>2, <2>3 DEF Keeps
  <2>5. Write(w, draft, "sync")
    BY <1>6 DEF Save
  <2> HIDE DEF draft, base
  <2> QED BY <1>1, <2>3, <2>4, <2>5, Written DEF Last
<1> QED BY <1>3, <1>4, <1>5, <1>6

LEMMA Worked ==
    ASSUME CustomersInv, NEW w \in Workers, Work(w)
    PROVE  CustomersInv' /\ (UNCHANGED row \/ KeptRows)
<1>1. CASE Find(w)
  BY <1>1, Found DEF Find
<1>2. CASE Insert(w) \/ Claim(w) \/ Update(w) \/ Save(w)
  BY <1>2, Wrote DEF Insert, Claim, Update, Save, Write, Rollback
<1>3. CASE Validate(w)
  <2>1. CASE Rollback(w)
    BY <2>1, RolledBack DEF Rollback
  <2>2. CASE GoTo(w, IF Seen(w).known THEN "sync" ELSE "save") /\ UNCHANGED <<row, lock, requests, displaced>>
    <3> DEFINE pc == IF Seen(w).known THEN "sync" ELSE "save"
    <3>1. pc \in PCs /\ pc \in Last /\ pc # "claim" /\ GoTo(w, pc)
      BY <2>2 DEF PCs, Last
    <3>2. Busy(w) /\ Reliant(task[w].pc, task[w].op)
      BY <1>3 DEF Validate, At, Busy, Reliant, Last
    <3> HIDE DEF pc
    <3> QED BY <2>2, <3>1, <3>2, Moved
  <2> QED BY <1>3, <2>1, <2>2 DEF Validate
<1>4. CASE End(w)
  <2>1. CASE Rollback(w)
    BY <2>1, RolledBack DEF Rollback
  <2>2. CASE Commit(w)
    BY <1>4, <2>2, Committed DEF End
  <2> QED BY <1>4, <2>1, <2>2 DEF End
<1> QED BY <1>1, <1>2, <1>3, <1>4 DEF Work

LEMMA Stepped ==
    ASSUME CustomersInv, [Next]_vars
    PROVE  CustomersInv' /\ KeptRows
<1>1. CASE UNCHANGED vars
  <2>1. CustomersInv'
    BY <1>1 DEF vars, CustomersInv, Typed, LockHeld, Keeps, ClaimDue, RowRead, Busy, At
  <2> QED BY <1>1, <2>1 DEF vars, KeptRows
<1>2. ASSUME NEW w \in Workers, Start(w) \/ Statement(w) \/ Work(w) \/ LockTimeout(w)
      PROVE  CustomersInv' /\ (UNCHANGED row \/ KeptRows)
  <2>1. CASE Start(w)
    BY <2>1, Started DEF Start
  <2>2. CASE Statement(w)
    BY <2>2, Stated DEF Statement, Get, File, Reread, Begin, Lookup, Rollback
  <2>3. CASE Work(w)
    BY <2>3, Worked
  <2>4. CASE LockTimeout(w)
    BY <2>4, RolledBack DEF LockTimeout, Rollback
  <2> QED BY <1>2, <2>1, <2>2, <2>3, <2>4
<1> QED BY <1>1, <1>2 DEF Next, KeptRows

\* What an agent has claimed is taken over by no operation that began after the
\* claim, no row is lost and no known user forgotten: CustomerService and the
\* claim in ReviewService, with any number of overlapping operations.
THEOREM OwnersKept == Spec => OwnerKept
<1>1. CustomersInv /\ [Next]_vars => CustomersInv'
  BY Stepped
<1>2. CustomersInv /\ [Next]_vars =>
      [\A n \in Names : row[n].there =>
          /\ row'[n].there /\ (row[n].known => row'[n].known)
          /\ row[n].owner \notin {NoAgent, row'[n].owner} =>
                 \E w \in displaced : task[w].name = n /\ task'[w] # task[w]]_vars
  BY Stepped DEF KeptRows
<1> QED BY <1>1, <1>2, CustomersInitially, PTL DEF Spec, OwnerKept
=============================================================================
