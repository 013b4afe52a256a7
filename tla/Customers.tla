----------------------------- MODULE Customers -----------------------------
(***************************************************************************)
(* Customer rows and database connections: customer_service.go and the     *)
(* operations of review_service.go and subscription_service.go that find,  *)
(* create, claim and validate a customer on their way.  What these do to   *)
(* requests, subscriptions and TradingView is in module AccessGrant.       *)
(*                                                                         *)
(* The pool has Pool connections (main.go).  A statement outside of a      *)
(* transaction borrows one for a moment; a transaction keeps its own from  *)
(* Begin to Commit or Rollback, the calls to TradingView in between        *)
(* included; who finds none free waits without a limit.  A write locks the *)
(* row until the end of the transaction, a plain read takes no lock and    *)
(* sees the state at the first read of its transaction (InnoDB).  gorm     *)
(* wraps a single Create or Updates in a transaction of its own.           *)
(*                                                                         *)
(* A row is named by the user name, which the unique index and the         *)
(* comparison in lower case both identify.                                 *)
(***************************************************************************)
EXTENDS Integers, FiniteSets

CONSTANTS
    Workers,         \* goroutines that serve requests
    Names,           \* TradingView user names
    Agents,
    NoAgent,         \* no agent: a customer nobody owns, an operator of the back office
    Nobody,          \* holder of a lock that is free, name of a worker at rest
    Pool,            \* connections of the pool
    MaxOps           \* bound: operations started

ASSUME CustomersAssumption ==
    /\ Workers # {} /\ IsFiniteSet(Workers) /\ Pool \in Nat \ {0} /\ MaxOps \in Nat
    /\ NoAgent \notin Agents /\ Nobody \notin Workers \cup Names

VARIABLES
    row,             \* [Names -> the committed row, or NoRow]
    lock,            \* [Names -> the worker whose transaction wrote the row, or Nobody]
    requests,        \* pairs of an agent and a name: pending requests
    free,            \* connections nobody holds
    task,            \* what each worker does
    displaced,       \* history: workers under way when another one claimed their customer
    ops              \* operations so far

vars == <<row, lock, requests, free, task, displaced, ops>>

NoRow == [there |-> FALSE, owner |-> NoAgent, known |-> FALSE]
NewRow(a, known) == [there |-> TRUE, owner |-> a, known |-> known]
Idle == [op |-> "none", name |-> Nobody, agent |-> NoAgent, pc |-> "idle", seen |-> NoRow, draft |-> NoRow]

Init ==
    /\ row \in [Names -> {NoRow, NewRow(NoAgent, FALSE)}]
    /\ lock = [n \in Names |-> Nobody]
    /\ requests = {} /\ free = Pool
    /\ task = [w \in Workers |-> Idle]
    /\ displaced = {} /\ ops = 0

At(w, pc) == task[w].pc = pc
Busy(w) == ~ At(w, "idle")
GoTo(w, pc) == task' = [task EXCEPT ![w].pc = pc]
Finish(w) == task' = [task EXCEPT ![w] = Idle] /\ displaced' = displaced \ {w}

\* ---- requests come in

\* The agent of an operation is the one who sends it, whose request is approved,
\* or whom the back office gives the customer to.
OfAgent == {"submitByName", "submitById", "createPending", "approve"}
OfAnyone == {"update", "create", "grantByName"}
OfNobody == {"grantById"}

Start(w) ==
    /\ At(w, "idle") /\ ops < MaxOps /\ ops' = ops + 1
    /\ \E n \in Names, a \in Agents \cup {NoAgent}, op \in OfAgent \cup OfAnyone \cup OfNobody :
          /\ (op \in OfAgent => a # NoAgent) /\ (op \in OfNobody => a = NoAgent)
          /\ task' = [task EXCEPT ![w] = [Idle EXCEPT !.op = op, !.name = n, !.agent = a, !.pc = "get"]]
    /\ UNCHANGED <<row, lock, requests, free, displaced>>

\* ---- statements outside of a transaction

\* The first reads: the script, the request, or the customer.  An agent finds
\* only customers of his own; a name that is taken cannot be created.
Admitted(t) ==
    CASE t.op = "submitById" -> row[t.name].there /\ row[t.name].owner = t.agent
      [] t.op = "update" -> row[t.name].there /\ t.agent \in {NoAgent, row[t.name].owner}
      [] t.op = "approve" -> <<t.agent, t.name>> \in requests
      [] t.op \in {"create", "createPending"} -> ~ row[t.name].there
      [] OTHER -> TRUE

Get(w) ==
    /\ At(w, "get") /\ free > 0
    /\ \/ /\ Admitted(task[w])
          /\ GoTo(w, IF task[w].op = "submitById" THEN "file" ELSE "begin")
          /\ UNCHANGED displaced
       \/ Finish(w)
    /\ UNCHANGED <<row, lock, requests, free, ops>>

\* The customer is settled; the request is inserted, or refused.
File(w) ==
    /\ At(w, "file") /\ free > 0
    /\ requests' \in {requests, requests \cup {<<task[w].agent, task[w].name>>}}
    /\ Finish(w)
    /\ UNCHANGED <<row, lock, free, ops>>

\* What was written is read again for the answer.
Reread(w) ==
    /\ At(w, "reread") /\ free > 0
    /\ Finish(w)
    /\ UNCHANGED <<row, lock, requests, free, ops>>

\* ---- transactions

FirstStep(op) ==
    CASE op = "grantById" -> "lookup"
      [] op \in {"submitByName", "grantByName"} -> "find"
      [] op = "approve" -> "validate"
      [] op \in {"create", "createPending"} -> "insert"
      [] OTHER -> "update"

Begin(w) ==
    /\ At(w, "begin") /\ free > 0
    /\ free' = free - 1
    /\ GoTo(w, FirstStep(task[w].op))
    /\ UNCHANGED <<row, lock, requests, displaced, ops>>

Unlocked(w) == [n \in Names |-> IF lock[n] = w THEN Nobody ELSE lock[n]]

\* Mutant: an error return without tx.Rollback().
RollbackForgotten(w) ==
    /\ Finish(w)
    /\ UNCHANGED <<row, requests, lock, free, ops>>

Rollback(w) ==
    /\ free' = free + 1 /\ lock' = Unlocked(w)
    /\ Finish(w)
    /\ UNCHANGED <<row, requests, ops>>

\* DirectGrant has begun, and reads the customer through the pool.
Lookup(w) ==
    /\ At(w, "lookup") /\ free > 0
    /\ \/ /\ row[task[w].name].there
          /\ GoTo(w, "validate")
          /\ UNCHANGED <<row, lock, requests, free, displaced, ops>>
       \/ Rollback(w)

\* Mutant: the owner is not looked at.
ClaimsAlways(t, found) == found.owner # t.agent /\ t.agent # NoAgent

Claims(t, found) == found.owner = NoAgent /\ t.agent # NoAgent
Settled(t) == IF t.op = "submitByName" THEN "commit" ELSE "validate"

\* FindOrCreatePendingByUsername: the plain read ...
Find(w) ==
    /\ At(w, "find")
    /\ LET found == row[task[w].name]
           next == IF ~ found.there THEN "insert"
                   ELSE IF Claims(task[w], found) THEN "claim" ELSE Settled(task[w])
       IN  task' = [task EXCEPT ![w].seen = found, ![w].pc = next]
    /\ UNCHANGED <<row, lock, requests, free, displaced, ops>>

\* Write to the row in the transaction of w, once no other one holds it.
Write(w, draft, pc) ==
    LET n == task[w].name
    IN  /\ lock[n] \in {Nobody, w}
        /\ lock' = [lock EXCEPT ![n] = w]
        /\ task' = [task EXCEPT ![w].draft = draft, ![w].pc = pc]
        /\ UNCHANGED <<row, requests, free, displaced, ops>>

\* ... then the insertion, which the unique index may refuse ...
Insert(w) ==
    /\ At(w, "insert")
    /\ IF row[task[w].name].there
       THEN lock[task[w].name] = Nobody /\ Rollback(w)
       ELSE Write(w, NewRow(task[w].agent, task[w].op = "create"),
                  IF task[w].op \in {"create", "createPending"} THEN "commit" ELSE Settled(task[w]))

\* ... or the claim, by id alone.
Claim(w) ==
    /\ At(w, "claim")
    /\ Write(w, [row[task[w].name] EXCEPT !.owner = task[w].agent], Settled(task[w]))

\* Contact and remark, which nothing here depends on.
Update(w) ==
    /\ At(w, "update")
    /\ Write(w, row[task[w].name], "commit")

\* EnsureValidatedCustomer: the row as the transaction sees it, and the call
\* to TradingView, which may find no such user or fail.
Seen(w) ==
    LET t == task[w]
    IN  IF lock[t.name] = w THEN t.draft ELSE IF t.seen.there THEN t.seen ELSE row[t.name]

Validate(w) ==
    /\ At(w, "validate")
    /\ \/ /\ GoTo(w, IF Seen(w).known THEN "sync" ELSE "save")
          /\ UNCHANGED <<row, lock, requests, free, displaced, ops>>
       \/ Rollback(w)

Save(w) ==
    /\ At(w, "save")
    /\ LET n == task[w].name
       IN  Write(w, [IF lock[n] = w THEN task[w].draft ELSE row[n] EXCEPT !.known = TRUE], "sync")

AfterCommit(op) ==
    CASE op = "submitByName" -> "file"
      [] op \in {"grantByName", "grantById", "update"} -> "reread"
      [] OTHER -> "idle"

\* The claim of w is seen by all who come later, and by nobody under way.
Overlapping(w) ==
    LET n == task[w].name
    IN  IF lock[n] = w /\ task[w].draft.owner # row[n].owner
        THEN {v \in Workers \ {w} : Busy(v) /\ task[v].name = n}
        ELSE {}

Commit(w) ==
    LET t == task[w]
        n == t.name
    IN  /\ row' = IF lock[n] = w THEN [row EXCEPT ![n] = t.draft] ELSE row
        /\ lock' = Unlocked(w) /\ free' = free + 1
        /\ requests' = IF t.op = "approve" THEN requests \ {<<t.agent, n>>} ELSE requests
        /\ task' = [task EXCEPT ![w] = IF AfterCommit(t.op) = "idle" THEN Idle ELSE [t EXCEPT !.pc = AfterCommit(t.op)]]
        /\ displaced' = (displaced \cup Overlapping(w)) \ IF AfterCommit(t.op) = "idle" THEN {w} ELSE {}
        /\ UNCHANGED ops

\* The calls to TradingView and the other writes of a grant or an approval,
\* or the end of a transaction that has nothing else to do; any may fail.
End(w) ==
    /\ At(w, "sync") \/ At(w, "commit")
    /\ Commit(w) \/ Rollback(w)

\* A lock is waited for 50 seconds.
LockTimeout(w) ==
    /\ \E pc \in {"insert", "claim", "update", "save"} : At(w, pc)
    /\ lock[task[w].name] \notin {Nobody, w}
    /\ Rollback(w)

\* ---- specification

Statement(w) == Get(w) \/ File(w) \/ Reread(w) \/ Begin(w) \/ Lookup(w)
Work(w) == Find(w) \/ Insert(w) \/ Claim(w) \/ Update(w) \/ Validate(w) \/ Save(w) \/ End(w)

Next == \E w \in Workers : Start(w) \/ Statement(w) \/ Work(w) \/ LockTimeout(w)

\* A goroutine goes on, who waits for a connection or a lock gets one that
\* becomes free again and again.
Fairness == \A w \in Workers : SF_vars(Statement(w)) /\ SF_vars(Work(w))

Spec == Init /\ [][Next]_vars
FairSpec == Spec /\ Fairness

\* ---- properties

\* The one way to stop for good: every connection is held by a direct grant
\* that waits for a second one to read its customer.
GrantsStarve ==
    LET waiting == {w \in Workers : At(w, "lookup")}
    IN  free = 0 /\ Cardinality(waiting) = Pool

\* Every operation returns unless the direct grants have starved one another:
\* each of the many error returns gives back its connection and its lock, and
\* no lock is held by one who waits for another.
OperationsReturn == \A w \in Workers : Busy(w) ~> (~ Busy(w) \/ GrantsStarve)

\* A customer whom an agent has claimed is taken over by no operation that
\* began after the claim; nor is a row lost, or a known user forgotten.  (Two
\* claims that overlap are both carried out, and the later one stays.)
OwnerKept ==
    [][\A n \in Names : row[n].there =>
          /\ row'[n].there /\ (row[n].known => row'[n].known)
          /\ row[n].owner \notin {NoAgent, row'[n].owner} =>
                 \E w \in displaced : task[w].name = n /\ task'[w] # task[w]]_vars
=============================================================================
