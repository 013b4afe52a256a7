------------------------- MODULE AccessGrant_proofs -------------------------
(***************************************************************************)
(* Theorems about AccessGrant that hold for every number of goroutines,    *)
(* customers, requests and subscriptions, and every kind of fault.         *)
(***************************************************************************)
EXTENDS AccessGrantOverlap, TLAPS

-----------------------------------------------------------------------------
(* Types.                                                                  *)

\* Where the operation is between its first read and its commit.
Working == {"snapshot", "add", "remove", "readd", "modify", "commit"}

\* What the type invariant needs to be inductive: the fields a step is going
\* to use hold real keys and expirations.
TypedTask(t) ==
    /\ t.pc \in {"create", "lookup", "snapshot"} => t.key \in Keys
    /\ /\ t.pc \in Working
       /\ t.op \in {"approve", "grant", "renew"}
       /\ ~ t.undo
       => t.exp \in Expiry
    /\ t.pc = "commit" => ~ t.undo
    /\ t.pc = "scan" => t.op = "expire"

TaskTyped == \A p \in Procs : TypedTask(task[p])

RowsTyped == \A r \in Requests : Pending(r) => request[r].key \in Keys

TInv == TypeOK /\ TaskTyped /\ RowsTyped

\* A goroutine between operations is typed.
LEMMA IdleTyped == Idle \in TaskState /\ TypedTask(Idle)
  BY DEF Idle, TaskState, Labels, OpNames, Access, Expiry, TypedTask, Working

\* Set changes one goroutine only.
LEMMA SetTyped ==
  ASSUME TypeOK, TaskTyped, NEW p \in Procs, NEW t \in TaskState,
         TypedTask(t), Set(p, t)
  PROVE  task' \in [Procs -> TaskState] /\ TaskTyped'
  <1>1. task' = [task EXCEPT ![p] = t] /\ task \in [Procs -> TaskState]
    BY DEF Set, TypeOK
  <1>2. \A q \in Procs : task'[q] = IF q = p THEN t ELSE task[q]
    BY <1>1
  <1>3. \A q \in Procs : TypedTask(task'[q])
    BY <1>2 DEF TaskTyped
  <1>4. TaskTyped'
    BY <1>3 DEF TaskTyped, TypedTask
  <1> QED BY <1>1, <1>4

\* What Return leaves in a goroutine: nothing, or the rest of a scan.
LEMMA ReturnTyped ==
  ASSUME TypeOK, TaskTyped, NEW p \in Procs, Return(p)
  PROVE  task' \in [Procs -> TaskState] /\ TaskTyped'
  <1> DEFINE rest == [Idle EXCEPT !.pc = "scan", !.op = "expire",
                                  !.todo = task[p].todo]
  <1>1. task[p].todo \in SUBSET Subs
    BY DEF TypeOK, TaskState
  <1>2. rest \in TaskState /\ TypedTask(rest)
    BY <1>1 DEF Idle, TaskState, Labels, OpNames, Access, Expiry, TypedTask,
                Working
  <1>3. Set(p, Idle) \/ Set(p, rest)
    BY DEF Return
  <1> QED BY <1>2, <1>3, IdleTyped, SetTyped

\* The new expiration of a plan is an expiration.
LEMMA ExpirationTyped ==
  ASSUME TypeOK, NEW i \in Subs \cup {0}, NEW d \in Expiry
  PROVE  /\ Base(i) \in Nat
         /\ calculateExpiration(d, Base(i)) \in Expiry
         /\ calculateExpiration(d, now) \in Expiry
  <1>1. i # 0 => sub[i].exp \in Expiry
    BY DEF TypeOK, SubRow
  <1>2. Base(i) \in Nat /\ now \in Nat
    BY <1>1 DEF Base, TypeOK, Expiry
  <1> QED BY <1>2 DEF calculateExpiration, Expiry

\* The plans on sale last for some time or for ever.
LEMMA DurationTyped == Durations \subseteq Expiry
  BY DurationsAssumption DEF Expiry

-----------------------------------------------------------------------------
(* Every step preserves the type invariant.                                *)

LEMMA InitTyped == Init => TInv
  BY IdleTyped, NatAssumption
     DEF Init, TInv, TypeOK, TaskTyped, RowsTyped, Pending, NoRequestRow, NoSubRow,
         RequestRow, SubRow, Access, Expiry

\* Steps of a request on its way in.
LEMMA ArriveTyped ==
  ASSUME TInv, NEW p \in Procs, Arrive(p)
  PROVE  TInv'
  <1> USE DEF TInv
  <1>0. /\ UNCHANGED <<now, request, sub, remote, faults>>
        /\ \E t \in TaskState : TypedTask(t) /\ Set(p, t)
    <2>1. CASE SubmitRequest(p)
      <3>1. PICK a \in Agents, k \in Keys, d \in Durations :
              Set(p, [Idle EXCEPT !.pc = "create", !.op = "submit",
                                  !.agent = a, !.key = k, !.dur = d])
        BY <2>1 DEF SubmitRequest
      <3> QED BY <2>1, <3>1, DurationTyped
              DEF SubmitRequest, Idle, TaskState, TypedTask, Working, Labels,
                  OpNames, Access, Expiry
    <2>2. ASSUME NEW op \in {"cancel", "reject"}, CloseRequest(p, op)
          PROVE  <1>0!1 /\ <1>0!2
      <3>1. PICK r \in Requests :
              Set(p, [Idle EXCEPT !.pc = "close", !.op = op, !.req = r])
        BY <2>2 DEF CloseRequest
      <3> QED BY <2>2, <3>1
              DEF CloseRequest, Idle, TaskState, TypedTask, Working, Labels,
                  OpNames, Access, Expiry
    <2>3. CASE ApproveRequest(p)
      <3>1. PICK r \in Requests :
              /\ Pending(r)
              /\ Set(p, [Idle EXCEPT !.pc = "lookup", !.op = "approve", !.req = r,
                                !.key = request[r].key, !.dur = request[r].dur])
        BY <2>3 DEF ApproveRequest
      <3>2. request[r].key \in Keys /\ request[r].dur \in Expiry
        BY <3>1 DEF RowsTyped, TypeOK, RequestRow
      <3> QED BY <2>3, <3>1, <3>2
              DEF ApproveRequest, Idle, TaskState, TypedTask, Working, Labels,
                  OpNames, Access, Expiry
    <2>4. CASE DirectGrant(p)
      <3>1. PICK k \in Keys, d \in Durations :
              Set(p, [Idle EXCEPT !.pc = "snapshot", !.op = "grant", !.key = k,
                                  !.exp = calculateExpiration(d, now)])
        BY <2>4 DEF DirectGrant
      <3>2. calculateExpiration(d, now) \in Expiry
        BY DurationTyped, ExpirationTyped
      <3> QED BY <2>4, <3>1, <3>2
              DEF DirectGrant, Idle, TaskState, TypedTask, Working, Labels,
                  OpNames, Access, Expiry
    <2>5. CASE DirectRenew(p)
      <3>1. PICK i \in Subs, d \in Durations :
              Set(p, [Idle EXCEPT
                        !.pc = IF calculateExpiration(d, Base(i)) = Lifetime
                               THEN "remove" ELSE "modify",
                        !.op = "renew", !.key = sub[i].key, !.sub = i,
                        !.exp = calculateExpiration(d, Base(i))])
        BY <2>5 DEF DirectRenew
      <3>2. calculateExpiration(d, Base(i)) \in Expiry /\ sub[i].key \in Keys \cup {NoKey}
        BY DurationTyped, ExpirationTyped DEF TypeOK, SubRow
      <3> QED BY <2>5, <3>1, <3>2
              DEF DirectRenew, Idle, TaskState, TypedTask, Working, Labels,
                  OpNames, Access, Expiry
    <2>6. CASE Revoke(p)
      <3>1. PICK i \in Subs :
              Set(p, [Idle EXCEPT !.pc = "remove", !.op = "revoke",
                                  !.key = sub[i].key, !.sub = i])
        BY <2>6 DEF Revoke
      <3>2. sub[i].key \in Keys \cup {NoKey}
        BY DEF TypeOK, SubRow
      <3> QED BY <2>6, <3>1, <3>2
              DEF Revoke, Idle, TaskState, TypedTask, Working, Labels, OpNames,
                  Access, Expiry
    <2> QED BY <2>1, <2>2, <2>3, <2>4, <2>5, <2>6 DEF Arrive
  <1>1. task' \in [Procs -> TaskState] /\ TaskTyped'
    BY <1>0, SetTyped
  <1> QED BY <1>0, <1>1 DEF TypeOK, RowsTyped, Pending

\* Moving on within an operation keeps its fields.
LEMMA GotoTyped ==
  ASSUME TypeOK, TaskTyped, NEW p \in Procs, task[p].pc \in Working,
         NEW label \in {"remove", "readd", "modify", "commit"},
         label = "commit" => ~ task[p].undo, Goto(p, label)
  PROVE  task' \in [Procs -> TaskState] /\ TaskTyped'
  <1> DEFINE t == [task[p] EXCEPT !.pc = label]
  <1>1. task[p] \in TaskState /\ TypedTask(task[p])
    BY DEF TypeOK, TaskTyped
  <1>2. t \in TaskState
    BY <1>1 DEF TaskState, Labels
  <1>3. TypedTask(t)
    BY <1>1 DEF TypedTask, TaskState, Working
  <1> QED BY <1>2, <1>3, SetTyped DEF Goto

LEMMA SyncedTyped ==
  ASSUME TypeOK, TaskTyped, NEW p \in Procs, task[p].pc \in Working, Synced(p)
  PROVE  task' \in [Procs -> TaskState] /\ TaskTyped'
  <1>1. CASE task[p].undo
    BY <1>1, ReturnTyped DEF Synced
  <1>2. CASE ~ task[p].undo
    BY <1>2, GotoTyped DEF Synced
  <1> QED BY <1>1, <1>2

LEMMA ExistsTyped ==
  ASSUME TypeOK, TaskTyped, NEW p \in Procs, task[p].pc \in Working, Exists(p)
  PROVE  task' \in [Procs -> TaskState] /\ TaskTyped'
  <1>1. CASE At(p, "readd")
    BY <1>1, ReturnTyped DEF Exists
  <1>2. CASE ~ At(p, "readd")
    <2> DEFINE label == IF task[p].exp = Lifetime THEN "remove" ELSE "modify"
    <2>1. Goto(p, label) /\ label \in {"remove", "modify"}
      BY <1>2 DEF Exists
    <2> HIDE DEF label
    <2> QED BY <2>1, GotoTyped
  <1> QED BY <1>1, <1>2

LEMMA HoldTyped ==
  ASSUME TypeOK, NEW k, NEW e \in Access, Hold(k, e)
  PROVE  remote' \in [Keys -> Access]
  BY DEF TypeOK, Hold

LEMMA FaultTyped ==
  ASSUME TypeOK, (\E f \in FaultNames : Fault(f)) \/ Quiet
  PROVE  faults' \in Nat
  BY DEF TypeOK, Fault, Quiet

\* Calls to TradingView.
LEMMA CallTyped ==
  ASSUME TInv, NEW p \in Procs,
         AddAccess(p) \/ RemoveAccess(p) \/ ModifyExpiration(p)
  PROVE  TInv'
  <1> USE DEF TInv
  <1>1. task[p] \in TaskState /\ task[p].exp \in Access /\ NoAccess \in Access
    BY DEF TypeOK, TaskState, Access
  <1>2. task[p].pc \in Working /\ UNCHANGED <<now, request, sub>>
    BY DEF AddAccess, RemoveAccess, ModifyExpiration, At, Working
  <1>3. remote' \in [Keys -> Access]
    BY <1>1, HoldTyped
       DEF AddAccess, RemoveAccess, ModifyExpiration, TypeOK
  <1>4. \/ Return(p) \/ Synced(p) \/ Exists(p)
        \/ At(p, "remove") /\ Goto(p, "readd")
    BY DEF AddAccess, RemoveAccess, ModifyExpiration
  <1>5. task' \in [Procs -> TaskState] /\ TaskTyped'
    BY <1>2, <1>4, ReturnTyped, SyncedTyped, ExistsTyped, GotoTyped
  <1>6. faults' \in Nat
    BY FaultTyped DEF AddAccess, RemoveAccess, ModifyExpiration, FaultNames
  <1> QED BY <1>2, <1>3, <1>5, <1>6 DEF TypeOK, RowsTyped, Pending

\* What a committed transaction leaves in the tables.
LEMMA WriteTyped ==
  ASSUME TInv, NEW t \in TaskState, TypedTask(t), t.pc = "commit", Write(t)
  PROVE  /\ sub' \in [Subs -> SubRow]
         /\ request' \in [Requests -> RequestRow]
         /\ RowsTyped'
  <1> USE DEF TInv
  <1>1. t.op \in {"approve", "grant", "renew"} => t.exp \in Expiry
    BY DEF TypedTask, Working
  <1>2. CASE t.op = "approve" /\ SaveApproval(t)
    <2>1. PICK i \in Subs :
            /\ sub' = [sub EXCEPT ![i] = [status |-> "active", key |-> t.key,
                        exp |-> t.exp, granted |-> TRUE, req |-> t.req]]
            /\ request' = [request EXCEPT ![t.req].status = "approved"]
      BY <1>2 DEF SaveApproval
    <2>2. sub' \in [Subs -> SubRow]
      BY <1>1, <1>2, <2>1 DEF TypeOK, SubRow, TaskState
    <2>3. request' \in [Requests -> RequestRow]
      BY <2>1 DEF TypeOK, RequestRow
    <2>4. RowsTyped'
      BY <2>1 DEF TypeOK, RequestRow, RowsTyped, Pending
    <2> QED BY <2>2, <2>3, <2>4
  <1>3. CASE t.op = "grant" /\ CreateGrant(t)
    BY <1>1, <1>3 DEF CreateGrant, TypeOK, SubRow, TaskState, RowsTyped, Pending
  <1>4. CASE t.op = "renew" /\ UpdateExpiration(t)
    BY <1>1, <1>4 DEF UpdateExpiration, TypeOK, SubRow, RowsTyped, Pending
  <1>5. ASSUME NEW status \in {"revoked", "expired"}, MarkEnded(t, status)
        PROVE  /\ sub' \in [Subs -> SubRow]
               /\ request' \in [Requests -> RequestRow]
               /\ RowsTyped'
    <2>1. request' \in [Requests -> RequestRow] /\ RowsTyped'
      BY <1>5 DEF MarkEnded, TypeOK, RowsTyped, Pending
    <2> DEFINE ended == [sub[t.sub] EXCEPT !.status = status, !.granted = FALSE]
    <2>2. ASSUME t.sub \in Subs PROVE ended \in SubRow
      <3>1. sub[t.sub] \in SubRow
        BY <2>2 DEF TypeOK
      <3> QED BY <3>1, <1>5 DEF SubRow
    <2>3. sub' = [sub EXCEPT ![t.sub] = ended]
      BY <1>5 DEF MarkEnded
    <2> HIDE DEF ended
    <2>4. sub' \in [Subs -> SubRow]
      BY <2>2, <2>3 DEF TypeOK
    <2> QED BY <2>1, <2>4
  <1> QED BY <1>2, <1>3, <1>4, <1>5 DEF Write

LEMMA CompensateTyped ==
  ASSUME TypeOK, TaskTyped, NEW p \in Procs, Compensate(p)
  PROVE  task' \in [Procs -> TaskState] /\ TaskTyped'
  <1>1. CASE task[p].op \in {"approve", "grant"}
    <2> DEFINE back == [task[p] EXCEPT !.exp = task[p].snap, !.undo = TRUE]
               t == [back EXCEPT !.pc = FirstCall(back)]
    <2>1. task[p] \in TaskState
      BY DEF TypeOK
    <2>2. t \in TaskState /\ TypedTask(t)
      BY <2>1 DEF TaskState, TypedTask, FirstCall, Labels, Working
    <2>3. Set(p, t)
      BY <1>1 DEF Compensate
    <2> QED BY <2>2, <2>3, SetTyped
  <1>2. CASE task[p].op \notin {"approve", "grant"}
    BY <1>2, ReturnTyped DEF Compensate
  <1> QED BY <1>1, <1>2

LEMMA CommitTyped ==
  ASSUME TInv, NEW p \in Procs, Commit(p)
  PROVE  TInv'
  <1> USE DEF TInv
  <1>1. task[p] \in TaskState /\ TypedTask(task[p]) /\ task[p].pc = "commit"
    BY DEF TypeOK, TaskTyped, Commit, At
  <1>2. UNCHANGED <<now, remote>> /\ (Return(p) \/ Compensate(p))
    BY DEF Commit
  <1>3. /\ sub' \in [Subs -> SubRow]
        /\ request' \in [Requests -> RequestRow]
        /\ RowsTyped'
    BY <1>1, WriteTyped DEF Commit, TypeOK, RowsTyped, Pending
  <1>4. task' \in [Procs -> TaskState] /\ TaskTyped'
    BY <1>2, ReturnTyped, CompensateTyped
  <1>5. faults' \in Nat
    BY FaultTyped DEF Commit, FaultNames
  <1> QED BY <1>2, <1>3, <1>4, <1>5 DEF TypeOK

\* The remaining steps of a busy goroutine.
LEMMA StepTyped ==
  ASSUME TInv, NEW p \in Procs, Step(p)
  PROVE  TInv'
  <1> USE DEF TInv
  <1>0. task[p] \in TaskState /\ TypedTask(task[p])
    BY DEF TypeOK, TaskTyped
  <1>1. CASE CreateRequest(p)
    <2>1. task' \in [Procs -> TaskState] /\ TaskTyped'
      BY <1>1, ReturnTyped DEF CreateRequest
    <2>2. request' \in [Requests -> RequestRow] /\ RowsTyped'
      <3>1. task[p].key \in Keys /\ task[p].agent \in Agents \cup {NoAgent}
            /\ task[p].dur \in Expiry
        BY <1>0, <1>1 DEF CreateRequest, At, TypedTask, TaskState
      <3>2. CASE UNCHANGED request
        BY <3>2 DEF TypeOK, RowsTyped, Pending
      <3>3. ASSUME NEW r \in Requests,
                   request' = [request EXCEPT ![r] =
                    [status |-> "pending", agent |-> task[p].agent,
                     key |-> task[p].key, dur |-> task[p].dur]]
            PROVE  request' \in [Requests -> RequestRow] /\ RowsTyped'
        BY <3>1, <3>3 DEF TypeOK, RequestRow, RowsTyped, Pending
      <3> QED BY <1>1, <3>2, <3>3 DEF CreateRequest
    <2>3. faults' \in Nat
      BY <1>1, FaultTyped DEF CreateRequest, FaultNames
    <2> QED BY <1>1, <2>1, <2>2, <2>3 DEF CreateRequest, TypeOK
  <1>2. CASE CommitClose(p)
    <2>1. task' \in [Procs -> TaskState] /\ TaskTyped'
      BY <1>2, ReturnTyped DEF CommitClose
    <2>2. request' \in [Requests -> RequestRow]
      BY <1>2 DEF CommitClose, TypeOK, RequestRow
    <2>3. RowsTyped'
      BY <1>2 DEF CommitClose, TypeOK, RequestRow, RowsTyped, Pending
    <2>4. faults' \in Nat
      BY <1>2, FaultTyped DEF CommitClose, FaultNames
    <2> QED BY <1>2, <2>1, <2>2, <2>3, <2>4 DEF CommitClose, TypeOK
  <1>3. CASE FindActive(p)
    <2>1. PICK i \in Subs \cup {0} :
            Set(p, [task[p] EXCEPT !.pc = "snapshot", !.sub = i,
                      !.exp = calculateExpiration(task[p].dur, Base(i))])
      BY <1>3 DEF FindActive
    <2> DEFINE e == calculateExpiration(task[p].dur, Base(i))
               t == [task[p] EXCEPT !.pc = "snapshot", !.sub = i, !.exp = e]
    <2>2. e \in Expiry
      BY <1>0, ExpirationTyped DEF TaskState
    <2> HIDE DEF e
    <2>3. t \in TaskState
      BY <1>0, <2>2 DEF TaskState, Labels, Access
    <2>4. TypedTask(t)
      BY <1>0, <1>3, <2>2 DEF TypedTask, FindActive, At, Working, TaskState
    <2>5. task' \in [Procs -> TaskState] /\ TaskTyped'
      BY <2>1, <2>3, <2>4, SetTyped DEF e
    <2> QED BY <1>3, <2>5 DEF FindActive, TypeOK, RowsTyped, Pending
  <1>4. CASE Refuse(p)
    BY <1>4, ReturnTyped DEF Refuse, TypeOK, RowsTyped, Pending
  <1>5. CASE RevokeNext(p)
    <2>1. PICK i \in task[p].todo :
            Set(p, [task[p] EXCEPT !.pc = "remove", !.key = sub[i].key,
                                   !.sub = i, !.todo = @ \ {i}])
      BY <1>5 DEF RevokeNext
    <2> DEFINE t == [task[p] EXCEPT !.pc = "remove", !.key = sub[i].key,
                                    !.sub = i, !.todo = @ \ {i}]
    <2>2. /\ i \in Subs /\ sub[i].key \in Keys \cup {NoKey}
          /\ task[p].todo \ {i} \in SUBSET Subs
      BY <1>0 DEF TypeOK, SubRow, TaskState
    <2>3. t \in TaskState
      <3>1. [task[p] EXCEPT !.pc = "remove", !.key = sub[i].key, !.sub = i]
              \in TaskState
        BY <1>0, <2>2 DEF TaskState, Labels
      <3> QED BY <1>0, <2>2, <3>1 DEF TaskState
    <2>4. TypedTask(t)
      BY <1>0, <1>5 DEF TypedTask, RevokeNext, At, Working, TaskState
    <2>5. task' \in [Procs -> TaskState] /\ TaskTyped'
      BY <2>1, <2>3, <2>4, SetTyped
    <2> QED BY <1>5, <2>5 DEF RevokeNext, TypeOK, RowsTyped, Pending
  <1>6. CASE snapshotTradingViewAccess(p)
    <2> DEFINE t == [task[p] EXCEPT !.pc = "add", !.snap = remote[task[p].key]]
    <2>1. remote[task[p].key] \in Access
      BY <1>0, <1>6 DEF snapshotTradingViewAccess, At, TypedTask, TypeOK
    <2>2. t \in TaskState
      BY <1>0, <2>1 DEF TaskState, Labels
    <2>3. TypedTask(t)
      BY <1>0, <1>6 DEF TypedTask, snapshotTradingViewAccess, At, Working, TaskState
    <2>4. task' \in [Procs -> TaskState] /\ TaskTyped'
      BY <1>6, <2>2, <2>3, SetTyped DEF snapshotTradingViewAccess
    <2> QED BY <1>6, <2>4 DEF snapshotTradingViewAccess, TypeOK, RowsTyped, Pending
  <1> QED BY <1>1, <1>2, <1>3, <1>4, <1>5, <1>6, CallTyped, CommitTyped DEF Step

LEMMA NextTyped == TInv /\ [Next]_vars => TInv'
  <1> SUFFICES ASSUME TInv, [Next]_vars PROVE TInv'
    OBVIOUS
  <1> USE DEF TInv
  <1>1. ASSUME NEW p \in Procs, Step(p) PROVE TInv'
    BY <1>1, StepTyped
  <1>2. ASSUME NEW p \in Handlers, Arrive(p) PROVE TInv'
    BY <1>2, ArriveTyped DEF Procs
  <1>3. ASSUME NEW p \in Jobs, RevokeExpired(p) PROVE TInv'
    <2> DEFINE expired == {i \in Subs : Overdue(i)}
               t == [Idle EXCEPT !.pc = "scan", !.op = "expire", !.todo = expired]
    <2>1. p \in Procs /\ (Set(p, Idle) \/ Set(p, t))
      BY <1>3 DEF RevokeExpired, Procs
    <2>2. expired \in SUBSET Subs
      OBVIOUS
    <2> HIDE DEF expired
    <2>3. t \in TaskState /\ TypedTask(t)
      BY <2>2 DEF Idle, TaskState, Labels, OpNames, Access, Expiry, TypedTask,
                  Working
    <2>4. task' \in [Procs -> TaskState] /\ TaskTyped'
      BY <2>1, <2>3, IdleTyped, SetTyped
    <2> QED BY <1>3, <2>4 DEF RevokeExpired, TypeOK, RowsTyped, Pending
  <1>4. CASE Tick
    BY <1>4 DEF Tick, TypeOK, TaskTyped, RowsTyped, Pending
  <1>5. CASE Crash
    <2>1. task' \in [Procs -> TaskState] /\ TaskTyped'
      BY <1>5, IdleTyped DEF Crash, TaskTyped, TypedTask
    <2>2. faults' \in Nat
      BY <1>5, FaultTyped DEF Crash, FaultNames
    <2> QED BY <1>5, <2>1, <2>2 DEF Crash, TypeOK, RowsTyped, Pending
  <1>6. CASE UNCHANGED vars
    BY <1>6 DEF vars, TypeOK, TaskTyped, RowsTyped, Pending
  <1> QED BY <1>1, <1>2, <1>3, <1>4, <1>5, <1>6 DEF Next

\* Rows, accesses and goroutines keep their types whatever interleaves,
\* fails or crashes.
THEOREM TypeCorrect == Spec => []TypeOK
  <1>1. Init => TInv
    BY InitTyped
  <1>2. TInv /\ [Next]_vars => TInv'
    BY NextTyped
  <1>3. TInv => TypeOK
    BY DEF TInv
  <1> QED BY <1>1, <1>2, <1>3, PTL DEF Spec

-----------------------------------------------------------------------------
(* The tables, whatever interleaves: the grant flag and the atomicity of   *)
(* an approval.                                                            *)

\* Only a commit writes the table of subscriptions.
LEMMA OnlyCommitWrites ==
  ASSUME [Next]_vars
  PROVE  UNCHANGED sub \/ \E p \in Procs : Commit(p) /\ Write(task[p])
  BY DEF Next, vars, Step, Arrive, CreateRequest, CommitClose, FindActive,
         Refuse, RevokeNext, snapshotTradingViewAccess, AddAccess, RemoveAccess,
         ModifyExpiration, Commit, SubmitRequest, CloseRequest, ApproveRequest,
         DirectGrant, DirectRenew, Revoke, RevokeExpired, Tick, Crash

\* tv_granted and status = 'active' agree in every reachable table, although
\* approvals save whole rows read earlier and revocations do not look.
THEOREM FlagCorrect == Spec => []GrantFlagFollowsStatus
  <1>1. Init => GrantFlagFollowsStatus
    BY DEF Init, GrantFlagFollowsStatus, NoSubRow
  <1>2. ASSUME TInv, GrantFlagFollowsStatus, [Next]_vars
        PROVE  GrantFlagFollowsStatus'
    <2> USE <1>2
    <2>1. CASE UNCHANGED sub
      BY <2>1 DEF GrantFlagFollowsStatus
    <2>2. ASSUME NEW p \in Procs, Write(task[p]) PROVE GrantFlagFollowsStatus'
      <3>1. sub \in [Subs -> SubRow]
        BY DEF TInv, TypeOK
      <3>2. CASE SaveApproval(task[p])
        BY <3>1, <3>2 DEF SaveApproval, GrantFlagFollowsStatus, SubRow
      <3>3. CASE CreateGrant(task[p])
        BY <3>1, <3>3 DEF CreateGrant, GrantFlagFollowsStatus, SubRow
      <3>4. CASE UpdateExpiration(task[p])
        BY <3>1, <3>4 DEF UpdateExpiration, GrantFlagFollowsStatus, SubRow
      <3>5. ASSUME NEW status \in {"revoked", "expired"},
                   MarkEnded(task[p], status)
            PROVE  GrantFlagFollowsStatus'
        BY <3>1, <3>5 DEF MarkEnded, GrantFlagFollowsStatus, SubRow
      <3> QED BY <2>2, <3>2, <3>3, <3>4, <3>5 DEF Write
    <2> QED BY <2>1, <2>2, OnlyCommitWrites
  <1>3. Spec => []TInv
    BY InitTyped, NextTyped, PTL DEF Spec
  <1> QED BY <1>1, <1>2, <1>3, PTL DEF Spec

-----------------------------------------------------------------------------
(* Approval.                                                               *)

\* An approval works on the pair its request names, to the end.
ApprovesOwnKey ==
    \A p \in Procs : task[p].op = "approve" =>
        /\ task[p].req \in Requests
        /\ request[task[p].req].status # "none"
        /\ task[p].key = request[task[p].req].key

\* The key of a request, once it is there, never changes, and a request does
\* not go away.
LEMMA RequestsStay ==
  ASSUME TInv, [Next]_vars, NEW r \in Requests, request[r].status # "none"
  PROVE  request'[r].status # "none" /\ request'[r].key = request[r].key
  <1>1. request \in [Requests -> RequestRow]
    BY DEF TInv, TypeOK
  <1>2. CASE UNCHANGED request
    BY <1>2
  <1> DEFINE Stays == request'[r].status # "none" /\ request'[r].key = request[r].key
  <1>3. ASSUME NEW p \in Procs, CreateRequest(p) PROVE Stays
    BY <1>1, <1>3 DEF CreateRequest, IsNextRow
  <1>4. ASSUME NEW p \in Procs, CommitClose(p) PROVE Stays
    BY <1>1, <1>4 DEF CommitClose, RequestRow
  <1>5. ASSUME NEW p \in Procs, Commit(p) PROVE Stays
    BY <1>1, <1>5 DEF Commit, Write, SaveApproval, CreateGrant, UpdateExpiration,
                      MarkEnded, RequestRow
  <1>6. \/ UNCHANGED request
        \/ \E p \in Procs : CreateRequest(p) \/ CommitClose(p) \/ Commit(p)
    BY DEF Next, vars, Step, Arrive, FindActive, Refuse, RevokeNext,
           snapshotTradingViewAccess, AddAccess, RemoveAccess, ModifyExpiration,
           SubmitRequest, CloseRequest, ApproveRequest, DirectGrant, DirectRenew,
           Revoke, RevokeExpired, Tick, Crash
  <1> QED BY <1>2, <1>3, <1>4, <1>5, <1>6

\* A goroutine is approving after a step only if it was approving the same
\* request before, or has just started to.
LEMMA ApprovalGoesOn ==
  ASSUME TInv, [Next]_vars, NEW q \in Procs, task'[q].op = "approve"
  PROVE  \/ /\ task[q].op = "approve"
            /\ task'[q].req = task[q].req
            /\ task'[q].key = task[q].key
         \/ /\ task'[q].req \in Requests
            /\ Pending(task'[q].req)
            /\ task'[q].key = request[task'[q].req].key
  <1> DEFINE GoesOn == \/ /\ task[q].op = "approve"
                          /\ task'[q].req = task[q].req
                          /\ task'[q].key = task[q].key
                       \/ /\ task'[q].req \in Requests
                          /\ Pending(task'[q].req)
                          /\ task'[q].key = request[task'[q].req].key
  <1>1. task \in [Procs -> TaskState]
    BY DEF TInv, TypeOK
  <1>2. ASSUME NEW p \in Procs, Step(p) PROVE GoesOn
    <2>1. task[p].pc = "scan" => task[p].op = "expire"
      BY DEF TInv, TaskTyped, TypedTask
    <2>2. CASE Return(p)
      BY <1>1, <2>2 DEF Return, Set, Idle
    <2>3. ASSUME NEW label \in Labels, Goto(p, label) PROVE GoesOn
      BY <1>1, <2>3 DEF Goto, Set, TaskState
    <2>4. CASE Compensate(p)
      <3> DEFINE back == [task[p] EXCEPT !.exp = task[p].snap, !.undo = TRUE]
                 t == [back EXCEPT !.pc = FirstCall(back)]
      <3>1. Return(p) \/ Set(p, t)
        BY <2>4 DEF Compensate
      <3>2. t.op = task[p].op /\ t.req = task[p].req /\ t.key = task[p].key
        BY <1>1 DEF TaskState
      <3> HIDE DEF t
      <3> QED BY <1>1, <2>2, <3>1, <3>2 DEF Set
    <2>5. CASE FindActive(p)
      BY <1>1, <2>5 DEF FindActive, Set, TaskState
    <2>6. CASE RevokeNext(p)
      BY <1>1, <2>1, <2>6 DEF RevokeNext, Set, TaskState, At
    <2>7. CASE snapshotTradingViewAccess(p)
      BY <1>1, <2>7 DEF snapshotTradingViewAccess, Set, TaskState
    <2> QED
      BY <1>2, <2>2, <2>3, <2>4, <2>5, <2>6, <2>7
         DEF Step, CreateRequest, CommitClose, Refuse, AddAccess, RemoveAccess,
             ModifyExpiration, Commit, Synced, Exists, Labels
  <1>3. ASSUME NEW p \in Procs, Arrive(p) PROVE GoesOn
    <2>1. CASE SubmitRequest(p)
      BY <1>1, <2>1 DEF SubmitRequest, Set, Idle
    <2>2. ASSUME NEW op \in {"cancel", "reject"}, CloseRequest(p, op) PROVE GoesOn
      BY <1>1, <2>2 DEF CloseRequest, Set, Idle
    <2>3. CASE ApproveRequest(p)
      BY <1>1, <2>3 DEF ApproveRequest, Set, Idle
    <2>4. CASE DirectGrant(p)
      BY <1>1, <2>4 DEF DirectGrant, Set, Idle
    <2>5. CASE DirectRenew(p)
      BY <1>1, <2>5 DEF DirectRenew, Set, Idle
    <2>6. CASE Revoke(p)
      BY <1>1, <2>6 DEF Revoke, Set, Idle
    <2> QED BY <1>3, <2>1, <2>2, <2>3, <2>4, <2>5, <2>6 DEF Arrive
  <1>4. ASSUME NEW p \in Procs, RevokeExpired(p) PROVE GoesOn
    BY <1>1, <1>4 DEF RevokeExpired, Set, Idle, TaskState
  <1>5. CASE Tick \/ UNCHANGED vars
    BY <1>5 DEF Tick, vars
  <1>6. CASE Crash
    BY <1>6 DEF Crash, Idle
  <1> QED BY <1>2, <1>3, <1>4, <1>5, <1>6 DEF Next, Procs

LEMMA ApprovesOwnKeyStep == TInv /\ ApprovesOwnKey /\ [Next]_vars => ApprovesOwnKey'
  <1> SUFFICES ASSUME TInv, ApprovesOwnKey, [Next]_vars, NEW q \in Procs,
                      task'[q].op = "approve"
               PROVE  /\ task'[q].req \in Requests
                      /\ request'[task'[q].req].status # "none"
                      /\ task'[q].key = request'[task'[q].req].key
    BY DEF ApprovesOwnKey
  <1>1. /\ task'[q].req \in Requests
        /\ request[task'[q].req].status # "none"
        /\ task'[q].key = request[task'[q].req].key
    BY ApprovalGoesOn DEF ApprovesOwnKey, Pending
  <1> QED BY <1>1, RequestsStay

\* A request becomes approved only together with an active subscription of
\* its own customer and script, for any number of reviewers and faults.
THEOREM ApprovalCorrect == Spec => ApprovalIsAtomic
  <1> DEFINE Atomic ==
        \A r \in Requests :
          request[r].status # "approved" /\ request'[r].status = "approved"
          => \E i \in Subs : /\ sub'[i].req = r
                             /\ sub'[i].status = "active"
                             /\ sub'[i].key = request[r].key
  <1>1. Init => TInv /\ ApprovesOwnKey
    BY InitTyped DEF Init, ApprovesOwnKey, Idle
  <1>2. TInv /\ ApprovesOwnKey /\ [Next]_vars => (TInv /\ ApprovesOwnKey)'
    BY NextTyped, ApprovesOwnKeyStep
  <1>3. TInv /\ ApprovesOwnKey /\ [Next]_vars => [Atomic]_vars
    <2> SUFFICES ASSUME TInv, ApprovesOwnKey, [Next]_vars, NEW r \in Requests,
                        request[r].status # "approved",
                        request'[r].status = "approved"
                 PROVE  \E i \in Subs : /\ sub'[i].req = r
                                        /\ sub'[i].status = "active"
                                        /\ sub'[i].key = request[r].key
      OBVIOUS
    <2>1. /\ request \in [Requests -> RequestRow] /\ sub \in [Subs -> SubRow]
      BY DEF TInv, TypeOK
    <2>2. ~ \E p \in Procs : CreateRequest(p)
      BY <2>1 DEF CreateRequest, RequestRow
    <2>3. ASSUME NEW p \in Procs, CommitClose(p) PROVE FALSE
      <3>1. \/ request' = request
            \/ request' = [request EXCEPT ![task[p].req].status = "cancelled"]
            \/ request' = [request EXCEPT ![task[p].req].status = "rejected"]
        BY <2>3 DEF CommitClose
      <3> QED BY <2>1, <3>1 DEF RequestRow
    <2>4. PICK p \in Procs : Commit(p)
      BY <2>2, <2>3
         DEF Next, vars, Step, Arrive, FindActive, Refuse, RevokeNext,
             snapshotTradingViewAccess, AddAccess, RemoveAccess,
             ModifyExpiration, SubmitRequest, CloseRequest, ApproveRequest,
             DirectGrant, DirectRenew, Revoke, RevokeExpired, Tick, Crash
    <2>5. task[p].op = "approve" /\ SaveApproval(task[p])
      BY <2>4 DEF Commit, Write, CreateGrant, UpdateExpiration, MarkEnded
    <2>6. task[p].req = r
      BY <2>1, <2>5 DEF SaveApproval, RequestRow
    <2>7. task[p].key = request[r].key
      BY <2>5, <2>6 DEF ApprovesOwnKey
    <2> QED BY <2>1, <2>5, <2>6, <2>7 DEF SaveApproval
  <1> QED BY <1>1, <1>2, <1>3, PTL DEF Spec, ApprovalIsAtomic
-----------------------------------------------------------------------------
(* Compensation.                                                           *)

\* A compensation works towards the access found by the snapshot, and it
\* removes an access only to leave none or to add a lifetime again.
RestoringTask(t) ==
    t.undo => /\ t.exp = t.snap
              /\ t.pc \in {"add", "remove", "readd", "modify"}
              /\ t.pc = "remove" => t.exp \in {NoAccess, Lifetime}

Restoring == \A p \in Procs : RestoringTask(task[p])

\* One goroutine moved, and it is idle, works on, or restores.
LEMMA SetRestoring ==
  ASSUME TypeOK, Restoring, NEW p \in Procs, NEW t, RestoringTask(t), Set(p, t)
  PROVE  Restoring'
  <1>1. \A q \in Procs : task'[q] = IF q = p THEN t ELSE task[q]
    BY DEF Set, TypeOK
  <1> QED BY <1>1 DEF Restoring, RestoringTask

\* What has just returned is not restoring any more.
LEMMA ReturnRestoring ==
  ASSUME TypeOK, Restoring, NEW p \in Procs, Return(p)
  PROVE  Restoring'
  <1> DEFINE rest == [Idle EXCEPT !.pc = "scan", !.op = "expire",
                                  !.todo = task[p].todo]
  <1>1. ~ Idle.undo /\ ~ rest.undo
    BY DEF Idle
  <1>2. Set(p, Idle) \/ Set(p, rest)
    BY DEF Return
  <1> HIDE DEF rest
  <1> QED BY <1>1, <1>2, SetRestoring DEF RestoringTask

\* The calls of a compensation, one after the other.
LEMMA CallRestoring ==
  ASSUME TypeOK, Restoring, NEW p \in Procs,
         AddAccess(p) \/ RemoveAccess(p) \/ ModifyExpiration(p)
  PROVE  Restoring'
  <1>1. task[p] \in TaskState /\ RestoringTask(task[p])
    BY DEF TypeOK, Restoring
  <1>2. \/ Return(p)
        \/ At(p, "remove") /\ task[p].exp = Lifetime /\ Goto(p, "readd")
        \/ ~ task[p].undo /\ Goto(p, "commit")
        \/ task[p].exp = Lifetime /\ Goto(p, "remove")
        \/ Goto(p, "modify")
    BY DEF AddAccess, RemoveAccess, ModifyExpiration, Synced, Exists
  <1>3. ASSUME NEW label \in {"remove", "readd", "modify", "commit"},
               Goto(p, label),
               label = "commit" => ~ task[p].undo,
               label = "remove" => task[p].exp = Lifetime
        PROVE  Restoring'
    <2> DEFINE t == [task[p] EXCEPT !.pc = label]
    <2>1. RestoringTask(t)
      BY <1>1, <1>3 DEF RestoringTask, TaskState
    <2>2. Set(p, t)
      BY <1>3 DEF Goto
    <2> HIDE DEF t
    <2> QED BY <2>1, <2>2, SetRestoring
  <1> QED BY <1>2, <1>3, ReturnRestoring

\* A commit that fails starts a compensation towards the snapshot.
LEMMA CompensateRestoring ==
  ASSUME TypeOK, Restoring, NEW p \in Procs, Compensate(p)
  PROVE  Restoring'
  <1>1. CASE task[p].op \in {"approve", "grant"}
    <2> DEFINE back == [task[p] EXCEPT !.exp = task[p].snap, !.undo = TRUE]
               t == [back EXCEPT !.pc = FirstCall(back)]
    <2>1. task[p] \in TaskState
      BY DEF TypeOK
    <2>2. RestoringTask(t)
      BY <2>1 DEF TaskState, RestoringTask, FirstCall
    <2>3. Set(p, t)
      BY <1>1 DEF Compensate
    <2> HIDE DEF t
    <2> QED BY <2>2, <2>3, SetRestoring
  <1>2. CASE task[p].op \notin {"approve", "grant"}
    BY <1>2, ReturnRestoring DEF Compensate
  <1> QED BY <1>1, <1>2

\* An operation that starts is not restoring anything.
LEMMA StartsClean ==
  ASSUME NEW p \in Procs, Arrive(p) \/ RevokeExpired(p)
  PROVE  \E t : ~ t.undo /\ Set(p, t)
  <1>1. CASE SubmitRequest(p)
    BY <1>1 DEF SubmitRequest, Idle
  <1>2. ASSUME NEW op \in {"cancel", "reject"}, CloseRequest(p, op)
        PROVE  \E t : ~ t.undo /\ Set(p, t)
    BY <1>2 DEF CloseRequest, Idle
  <1>3. CASE ApproveRequest(p)
    BY <1>3 DEF ApproveRequest, Idle
  <1>4. CASE DirectGrant(p)
    BY <1>4 DEF DirectGrant, Idle
  <1>5. CASE DirectRenew(p)
    BY <1>5 DEF DirectRenew, Idle
  <1>6. CASE Revoke(p)
    BY <1>6 DEF Revoke, Idle
  <1>7. CASE RevokeExpired(p)
    BY <1>7 DEF RevokeExpired, Idle
  <1> QED BY <1>1, <1>2, <1>3, <1>4, <1>5, <1>6, <1>7 DEF Arrive

LEMMA RestoringStep == TInv /\ Restoring /\ [Next]_vars => Restoring'
  <1> SUFFICES ASSUME TypeOK, Restoring, [Next]_vars PROVE Restoring'
    BY DEF TInv
  <1>1. ASSUME NEW p \in Procs, NEW t, ~ t.undo, Set(p, t) PROVE Restoring'
    BY <1>1, SetRestoring DEF RestoringTask
  <1>2. ASSUME NEW p \in Procs, Arrive(p) \/ RevokeExpired(p) PROVE Restoring'
    BY <1>1, <1>2, StartsClean
  <1>3. ASSUME NEW p \in Procs,
               \/ FindActive(p) \/ RevokeNext(p) \/ snapshotTradingViewAccess(p)
        PROVE  \E t : ~ t.undo /\ Set(p, t)
    <2>1. task[p] \in TaskState /\ ~ task[p].undo
      BY <1>3 DEF TypeOK, Restoring, RestoringTask, FindActive, RevokeNext,
                  snapshotTradingViewAccess, At
    <2> QED BY <1>3, <2>1
            DEF TaskState, FindActive, RevokeNext, snapshotTradingViewAccess
  <1>4. ASSUME NEW p \in Procs, Step(p) PROVE Restoring'
    BY <1>1, <1>3, <1>4, ReturnRestoring, CallRestoring, CompensateRestoring
       DEF Step, CreateRequest, CommitClose, Refuse, Commit
  <1>5. CASE Tick \/ UNCHANGED vars
    BY <1>5 DEF Tick, vars, Restoring
  <1>6. CASE Crash
    BY <1>6 DEF Crash, Restoring, RestoringTask, Idle
  <1> QED BY <1>2, <1>4, <1>5, <1>6 DEF Next, Procs

\* A compensation that ends without a fault leaves the access the operation
\* had found, whichever other operations run and whatever failed before.
THEOREM RestoreCorrect == Spec => CompensationRestores
  <1> DEFINE Restores ==
        \A p \in Procs :
          /\ task[p].undo
          /\ task'[p].pc = "idle"
          /\ faults' = faults
          /\ remote' # remote
          => remote'[task[p].key] = task[p].snap
  <1>1. Init => TInv /\ Restoring
    BY InitTyped DEF Init, Restoring, RestoringTask, Idle
  <1>2. TInv /\ Restoring /\ [Next]_vars => (TInv /\ Restoring)'
    BY NextTyped, RestoringStep
  <1>3. TInv /\ Restoring /\ [Next]_vars => [Restores]_vars
    <2> SUFFICES ASSUME TInv, Restoring, [Next]_vars, NEW p \in Procs,
                        task[p].undo, task'[p].pc = "idle", faults' = faults,
                        remote' # remote
                 PROVE  remote'[task[p].key] = task[p].snap
      OBVIOUS
    <2>1. PICK q \in Procs :
            AddAccess(q) \/ RemoveAccess(q) \/ ModifyExpiration(q)
      BY DEF Next, vars, Step, Arrive, CreateRequest, CommitClose, FindActive,
             Refuse, RevokeNext, snapshotTradingViewAccess, Commit,
             SubmitRequest, CloseRequest, ApproveRequest, DirectGrant,
             DirectRenew, Revoke, RevokeExpired, Tick, Crash
    <2>2. /\ task \in [Procs -> TaskState] /\ remote \in [Keys -> Access]
          /\ faults \in Nat /\ RestoringTask(task[p])
      BY DEF TInv, TypeOK, Restoring
    <2>3. q = p
      <3>1. task[p].pc # "idle"
        BY <2>2 DEF RestoringTask
      <3>2. q # p => task'[p] = task[p]
        BY <2>1, <2>2
           DEF AddAccess, RemoveAccess, ModifyExpiration, Synced, Exists,
               Return, Goto, Set
      <3> QED BY <3>1, <3>2
    <2>4. \A f \in Faults : ~ Fault(f)
      BY <2>2 DEF Fault
    <2>5. \/ Hold(task[p].key, task[p].exp)
          \/ Hold(task[p].key, NoAccess) /\ At(p, "remove")
             /\ task[p].exp # Lifetime
      <3>1. CASE AddAccess(p)
        BY <2>4, <3>1 DEF AddAccess, Fault
      <3>2. CASE RemoveAccess(p)
        <4>1. ~ Goto(p, "readd")
          BY <2>2 DEF Goto, Set, TaskState
        <4> QED BY <2>4, <3>2, <4>1 DEF RemoveAccess, Fault
      <3>3. CASE ModifyExpiration(p)
        BY <2>4, <3>3 DEF ModifyExpiration, Fault
      <3> QED BY <2>1, <2>3, <3>1, <3>2, <3>3
    <2>6. Hold(task[p].key, task[p].snap)
      BY <2>2, <2>5 DEF RestoringTask, At
    <2> QED BY <2>2, <2>6 DEF Hold
  <1> QED BY <1>1, <1>2, <1>3, PTL DEF Spec, CompensationRestores
-----------------------------------------------------------------------------
(* Overlapping operations.                                                 *)

\* What rows are, whoever writes them.
Named ==
    /\ \A r \in Requests : request[r].status # "none" =>
           request[r].key \in Keys /\ request[r].dur \in Durations
    /\ \A r \in Requests : request[r].key \in Keys => request[r].status # "none"
    /\ \A i \in Subs : sub[i].status # "none" <=> sub[i].key \in Keys

\* The rows a goroutine works on are there and of its pair.
OwnRows(t) ==
    /\ t.pc = "idle" => t.op = "none"
    /\ t.pc = "create" => t.op = "submit" /\ t.key \in Keys /\ t.dur \in Durations
    /\ t.pc = "close" => /\ t.op \in {"cancel", "reject"} /\ t.req \in Requests
                         /\ request[t.req].status # "none"
    /\ t.pc = "lookup" => t.op = "approve" /\ t.dur \in Durations
    /\ t.pc = "snapshot" => t.op \in {"approve", "grant"}
    /\ t.pc \in Working \cup {"lookup"} => t.key \in Keys
    /\ t.op = "approve" => /\ t.req \in Requests /\ request[t.req].status # "none"
                           /\ request[t.req].key = t.key
    /\ t.pc \in Working /\ t.op = "approve" /\ t.sub # 0 =>
           t.sub \in Subs /\ sub[t.sub].status # "none" /\ sub[t.sub].key = t.key
    /\ t.pc \in Working /\ t.op \in {"renew", "revoke", "expire"} =>
           t.sub \in Subs \ t.todo /\ sub[t.sub].status # "none" /\ sub[t.sub].key = t.key
    /\ \A i \in t.todo : sub[i].status # "none"
    /\ t.todo # {} => t.op = "expire"
    /\ t.pc = "scan" => t.op = "expire"
    /\ t.op = "renew" => t.pc \in Working

\* An end later than that of row i, where both have one.
Longer(i, e) == sub[i].exp # Lifetime /\ e # Lifetime => e > sub[i].exp

\* What a goroutine has read still holds for the pairs outside W.
Unspoilt(t, W) ==
    /\ t.pc = "create" => t.key \in W \/ ~ PendingDuplicate(t.agent, t.key)
    /\ t.pc = "close" => request[t.req].key \in W \/ Pending(t.req)
    /\ t.op = "approve" /\ ~ t.undo => t.key \in W \/ Pending(t.req)
    /\ t.pc \in Working /\ t.op = "approve" /\ ~ t.undo =>
           t.key \in W \/ /\ IsFirstActive(t.sub, t.key)
                          /\ t.sub # 0 => Longer(t.sub, t.exp)
    /\ t.pc \in Working /\ t.op = "grant" /\ ~ t.undo =>
           t.key \in W \/ ActiveSubs(t.key) = {}
    /\ t.op = "renew" => t.key \in W \/ /\ sub[t.sub].status = "active"
                                        /\ Longer(t.sub, t.exp)
    /\ \A i \in t.todo : sub[i].key \in W \/ Late(i)
    /\ t.pc \in Working /\ t.op = "expire" => t.key \in W \/ Late(t.sub)

Watching == /\ foreign \in [Procs -> SUBSET Keys]
            /\ \A p \in Procs : At(p, "idle") => foreign[p] = {}

Knowing == \A p \in Procs : OwnRows(task[p]) /\ Unspoilt(task[p], foreign[p])

OInv == TInv /\ Named /\ Watching /\ Knowing

\* A goroutine between operations knows nothing that could be spoilt.
LEMMA IdleKnows == OwnRows(Idle) /\ Unspoilt(Idle, {})
  BY DEF OwnRows, Unspoilt, Idle, Working

LEMMA IdleKnowsAfter == OwnRows(Idle)' /\ \A W : Unspoilt(Idle, W)'
  BY DEF OwnRows, Unspoilt, Idle, Working

\* The pairs in question.
SameRows(k) ==
    /\ \A r \in Requests : request[r].key = k \/ request'[r].key = k =>
                               request'[r] = request[r]
    /\ \A i \in Subs : sub[i].key = k \/ sub'[i].key = k => sub'[i] = sub[i]

RowsStay ==
    /\ \A r \in Requests : request[r].status # "none" =>
           request'[r].status # "none" /\ request'[r].key = request[r].key
    /\ \A i \in Subs : sub[i].status # "none" =>
           sub'[i].status # "none" /\ sub'[i].key = sub[i].key

\* A pair that is not written keeps its rows.
LEMMA UnwrittenRows ==
  ASSUME Named, RowsStay, NEW k \in Keys, k \notin Written
  PROVE  SameRows(k)
  <1>1. ASSUME NEW r \in Requests, request[r].key = k \/ request'[r].key = k
        PROVE  request'[r] = request[r]
    BY <1>1 DEF Named, RowsStay, Written
  <1>2. ASSUME NEW i \in Subs, sub[i].key = k \/ sub'[i].key = k
        PROVE  sub'[i] = sub[i]
    BY <1>2 DEF Named, RowsStay, Written
  <1> QED BY <1>1, <1>2 DEF SameRows

\* Rows do not go away, whatever others do.
LEMMA OwnRowsStay ==
  ASSUME RowsStay, NEW t \in TaskState, OwnRows(t)
  PROVE  OwnRows(t)'
  BY DEF OwnRows, RowsStay, TaskState

\* What is known of a pair lasts as long as nobody else writes it.
LEMMA UnspoiltStays ==
  ASSUME TInv, RowsStay, NEW t \in TaskState, TypedTask(t), OwnRows(t),
         NEW W, NEW V, W \subseteq V, Unspoilt(t, W),
         now' \in Nat, now' >= now, Named,
         \A k \in Keys \ V : SameRows(k)
  PROVE  Unspoilt(t, V)'
  <1>0. now \in Nat /\ sub \in [Subs -> SubRow]
    BY DEF TInv, TypeOK
  <1>1. \A a : \A k \in Keys \ V : ~ PendingDuplicate(a, k) => ~ PendingDuplicate(a, k)'
    BY DEF PendingDuplicate, Pending, SameRows
  <1>2. \A r \in Requests : request[r].key \in Keys \ V /\ Pending(r) => Pending(r)'
    BY DEF Pending, SameRows
  <1>3. \A k \in Keys \ V : ActiveSubs(k)' = ActiveSubs(k)
    BY DEF ActiveSubs, SameRows
  <1>4. \A i \in Subs : sub[i].key \in Keys \ V => sub'[i] = sub[i]
    BY DEF SameRows
  <1>5. \A i \in Subs : sub[i].key \in Keys \ V /\ Late(i) => Late(i)'
    BY <1>0, <1>4, AccessAssumption DEF Late, SubRow, Expiry
  <1>6. \A i : \A k \in Keys \ V : IsFirstActive(i, k) => IsFirstActive(i, k)'
    BY <1>3 DEF IsFirstActive
  <1>7. \A i \in Subs : \A e : sub[i].key \in Keys \ V /\ Longer(i, e) => Longer(i, e)'
    BY <1>4 DEF Longer
  <1>8. t.pc = "create" => t.key \in V \/ ~ PendingDuplicate(t.agent, t.key)'
    BY <1>1 DEF Unspoilt, OwnRows
  <1>9. t.pc = "close" => request'[t.req].key \in V \/ Pending(t.req)'
    BY <1>2 DEF Unspoilt, OwnRows, RowsStay, Named
  <1>10. t.op = "approve" /\ ~ t.undo => t.key \in V \/ Pending(t.req)'
    BY <1>2 DEF Unspoilt, OwnRows, Named
  <1>11. t.pc \in Working /\ t.op = "approve" /\ ~ t.undo =>
           t.key \in V \/ /\ IsFirstActive(t.sub, t.key)'
                          /\ t.sub # 0 => Longer(t.sub, t.exp)'
    BY <1>6, <1>7 DEF Unspoilt, OwnRows
  <1>12. t.pc \in Working /\ t.op = "grant" /\ ~ t.undo =>
           t.key \in V \/ ActiveSubs(t.key)' = {}
    BY <1>3 DEF Unspoilt, OwnRows
  <1>13. t.op = "renew" => t.key \in V \/ /\ sub'[t.sub].status = "active"
                                          /\ Longer(t.sub, t.exp)'
    BY <1>4, <1>7 DEF Unspoilt, OwnRows
  <1>14. \A i \in t.todo : sub'[i].key \in V \/ Late(i)'
    <2>1. t.todo \subseteq Subs
      BY DEF TaskState
    <2> QED BY <1>5, <2>1 DEF Unspoilt, OwnRows, RowsStay, Named
  <1>15. t.pc \in Working /\ t.op = "expire" => t.key \in V \/ Late(t.sub)'
    BY <1>5 DEF Unspoilt, OwnRows
  <1> QED BY <1>8, <1>9, <1>10, <1>11, <1>12, <1>13, <1>14, <1>15 DEF Unspoilt

\* A row that is there stays there, under its pair, and a new one gets a pair.
LEMMA RowsStep ==
  ASSUME TInv, Named, Knowing, [Next]_vars
  PROVE  RowsStay /\ Named'
  <1>0. request \in [Requests -> RequestRow] /\ sub \in [Subs -> SubRow]
    BY DEF TInv, TypeOK
  <1>1. UNCHANGED request => /\ \A r \in Requests : request[r].status # "none" =>
                                    request'[r].status # "none" /\ request'[r].key = request[r].key
                             /\ \A r \in Requests : request'[r].status # "none" =>
                                    request'[r].key \in Keys /\ request'[r].dur \in Durations
                             /\ \A r \in Requests : request'[r].key \in Keys =>
                                    request'[r].status # "none"
    BY DEF Named
  <1>2. UNCHANGED sub => /\ \A i \in Subs : sub[i].status # "none" =>
                                sub'[i].status # "none" /\ sub'[i].key = sub[i].key
                         /\ \A i \in Subs : sub'[i].status # "none" <=> sub'[i].key \in Keys
    BY DEF Named
  <1>3. ASSUME NEW p \in Procs, CreateRequest(p) PROVE RowsStay /\ Named'
    <2>1. task[p].key \in Keys /\ task[p].dur \in Durations /\ UNCHANGED sub
      BY <1>3 DEF Knowing, OwnRows, CreateRequest, At
    <2>2. ASSUME NEW r \in Requests, request[r].status = "none",
                 request' = [request EXCEPT ![r] =
                    [status |-> "pending", agent |-> task[p].agent,
                     key |-> task[p].key, dur |-> task[p].dur]]
          PROVE  RowsStay /\ Named'
      BY <1>0, <1>2, <2>1, <2>2 DEF RowsStay, Named
    <2> QED BY <1>1, <1>2, <1>3, <2>1, <2>2 DEF CreateRequest, IsNextRow, RowsStay, Named
  <1>4. ASSUME NEW r \in Requests, NEW status \in {"approved", "rejected", "cancelled"},
               request[r].status # "none",
               request' = [request EXCEPT ![r].status = status]
        PROVE  /\ \A s \in Requests : request[s].status # "none" =>
                      request'[s].status # "none" /\ request'[s].key = request[s].key
               /\ \A s \in Requests : request'[s].status # "none" =>
                      request'[s].key \in Keys /\ request'[s].dur \in Durations
               /\ \A s \in Requests : request'[s].key \in Keys =>
                      request'[s].status # "none"
    BY <1>0, <1>4 DEF Named, RequestRow
  <1>5. ASSUME NEW p \in Procs, CommitClose(p) PROVE RowsStay /\ Named'
    <2>1. task[p].req \in Requests /\ request[task[p].req].status # "none" /\ UNCHANGED sub
      BY <1>5 DEF Knowing, OwnRows, CommitClose, At
    <2> QED BY <1>1, <1>2, <1>4, <1>5, <2>1 DEF CommitClose, RowsStay, Named
  <1>6. ASSUME NEW p \in Procs, Commit(p), Write(task[p]) PROVE RowsStay /\ Named'
    <2>1. OwnRows(task[p]) /\ task[p].pc \in Working /\ task[p].key \in Keys
      BY <1>6 DEF Knowing, OwnRows, Commit, At, Working
    <2>2. ASSUME NEW i \in Subs, NEW row, row.key \in Keys, row.status # "none",
                 sub[i].status # "none" => row.key = sub[i].key,
                 sub' = [sub EXCEPT ![i] = row]
          PROVE  /\ \A j \in Subs : sub[j].status # "none" =>
                        sub'[j].status # "none" /\ sub'[j].key = sub[j].key
                 /\ \A j \in Subs : sub'[j].status # "none" <=> sub'[j].key \in Keys
      BY <1>0, <2>2 DEF Named
    <2>3. CASE task[p].op = "approve" /\ SaveApproval(task[p])
      <3>1. PICK i \in Subs :
              /\ IF task[p].sub = 0 THEN IsNextRow(sub, i) ELSE i = task[p].sub
              /\ sub' = [sub EXCEPT ![i] = [status |-> "active", key |-> task[p].key,
                             exp |-> task[p].exp, granted |-> TRUE, req |-> task[p].req]]
        BY <2>3 DEF SaveApproval
      <3> DEFINE row == [status |-> "active", key |-> task[p].key,
                         exp |-> task[p].exp, granted |-> TRUE, req |-> task[p].req]
      <3>2. sub[i].status # "none" => task[p].key = sub[i].key
        BY <2>1, <2>3, <3>1 DEF OwnRows, IsNextRow
      <3>3. row.key = task[p].key /\ row.status = "active" /\ sub' = [sub EXCEPT ![i] = row]
        BY <3>1
      <3> HIDE DEF row
      <3>4. task[p].req \in Requests /\ request[task[p].req].status # "none"
            /\ request' = [request EXCEPT ![task[p].req].status = "approved"]
        BY <2>1, <2>3 DEF OwnRows, SaveApproval
      <3> QED BY <1>4, <2>1, <2>2, <3>2, <3>3, <3>4 DEF RowsStay, Named
    <2>4. CASE CreateGrant(task[p])
      <3>1. PICK i \in Subs :
              /\ IsNextRow(sub, i)
              /\ sub' = [sub EXCEPT ![i] = [status |-> "active", key |-> task[p].key,
                             exp |-> task[p].exp, granted |-> TRUE, req |-> 0]]
        BY <2>4 DEF CreateGrant
      <3> QED BY <1>0, <1>1, <2>1, <2>4, <3>1 DEF CreateGrant, IsNextRow, RowsStay, Named
    <2>5. CASE task[p].op = "renew" /\ UpdateExpiration(task[p])
      BY <1>0, <1>1, <2>1, <2>5 DEF UpdateExpiration, RowsStay, Named, SubRow
    <2>6. ASSUME NEW status \in {"revoked", "expired"}, MarkEnded(task[p], status),
                 task[p].op \in {"revoke", "expire"}
          PROVE  RowsStay /\ Named'
      <3>1. task[p].sub \in Subs /\ sub[task[p].sub].status # "none"
        BY <2>1, <2>6 DEF OwnRows
      <3> QED BY <1>0, <1>1, <2>6, <3>1 DEF MarkEnded, RowsStay, Named, SubRow
    <2> QED BY <1>6, <2>3, <2>4, <2>5, <2>6 DEF Write
  <1>7. CASE UNCHANGED <<request, sub>>
    BY <1>1, <1>2, <1>7 DEF RowsStay, Named
  <1>8. \/ UNCHANGED <<request, sub>>
        \/ \E p \in Procs : CreateRequest(p) \/ CommitClose(p) \/ (Commit(p) /\ Write(task[p]))
    BY DEF Next, vars, Step, Arrive, FindActive, Refuse, RevokeNext,
           snapshotTradingViewAccess, AddAccess, RemoveAccess, ModifyExpiration, Commit,
           SubmitRequest, CloseRequest, ApproveRequest, DirectGrant, DirectRenew,
           Revoke, RevokeExpired, Tick, Crash
  <1> QED BY <1>3, <1>5, <1>6, <1>7, <1>8

\* What the history variable is after a step of p.
LEMMA WatchStep ==
  ASSUME TInv, Watching, Watch
  PROVE  Watching'
  <1>1. Written \subseteq Keys
    BY DEF Written
  <1> QED BY <1>1 DEF Watch, Watching, At

\* The others keep what they know of the pairs that are not written.
LEMMA OthersKnow ==
  ASSUME OInv, RowsStay, Watch, now' \in Nat, now' >= now, NEW q \in Procs,
         task'[q] = task[q]
  PROVE  OwnRows(task[q])' /\ Unspoilt(task[q], foreign[q])'
  <1>1. /\ task[q] \in TaskState /\ TypedTask(task[q]) /\ OwnRows(task[q])
        /\ Unspoilt(task[q], foreign[q]) /\ TInv /\ Named
    BY DEF OInv, TInv, TypeOK, TaskTyped, Knowing
  <1>2. PICK t \in TaskState : t = task[q]
    BY <1>1
  <1>3. PICK W : W = foreign[q]
    OBVIOUS
  <1>4. PICK V : V = foreign'[q]
    OBVIOUS
  <1>5. OwnRows(t)'
    BY <1>1, <1>2, OwnRowsStay
  <1>6. W \subseteq V /\ \A k \in Keys \ V : SameRows(k) \/ t.pc = "idle"
    <2>1. CASE At(q, "idle")
      BY <1>2, <1>3, <2>1 DEF OInv, Watching, At
    <2>2. CASE ~ At(q, "idle")
      <3>1. V = W \cup Written
        BY <1>3, <1>4, <2>2 DEF Watch, At, Moves
      <3> QED BY <1>1, <3>1, UnwrittenRows
    <2> QED BY <2>1, <2>2
  <1>7. Unspoilt(t, V)'
    <2>1. CASE t.pc = "idle"
      BY <1>1, <1>2, <2>1 DEF Unspoilt, OwnRows, Working
    <2>2. CASE t.pc # "idle"
      BY <1>1, <1>2, <1>3, <1>6, <2>2, UnspoiltStays
    <2> QED BY <2>1, <2>2
  <1>8. task'[q] = t
    BY <1>2
  <1> QED BY <1>4, <1>5, <1>7, <1>8 DEF OwnRows, Unspoilt

\* So a step preserves what all know if its own goroutine does.
LEMMA SetKnows ==
  ASSUME OInv, RowsStay, Watch, UNCHANGED now, NEW p \in Procs, NEW t \in TaskState,
         Set(p, t), OwnRows(t)', NEW W, foreign[p] = W, Unspoilt(t, W)'
  PROVE  Knowing'
  <1>0. now \in Nat /\ task \in [Procs -> TaskState]
    BY DEF OInv, TInv, TypeOK
  <1>1. ASSUME NEW q \in Procs, q # p
        PROVE  OwnRows(task[q])' /\ Unspoilt(task[q], foreign[q])'
    <2>1. task'[q] = task[q]
      BY <1>0, <1>1 DEF Set
    <2> QED BY <1>0, <2>1, OthersKnow
  <1>2. OwnRows(task[p])' /\ Unspoilt(task[p], foreign[p])'
    <2>1. task'[p] = t
      BY <1>0 DEF Set
    <2>2. PICK V : V = foreign'[p]
      OBVIOUS
    <2>3. W \subseteq V \/ t.pc = "idle"
      BY <2>1, <2>2 DEF Watch, At, OInv, Watching
    <2>4. Unspoilt(t, V)'
      <3>1. CASE W \subseteq V
        BY <3>1 DEF Unspoilt
      <3>2. CASE t.pc = "idle"
        BY <3>2 DEF Unspoilt, OwnRows, Working
      <3> QED BY <2>3, <3>1, <3>2
    <2> QED BY <2>1, <2>2, <2>4 DEF OwnRows, Unspoilt
  <1> QED BY <1>1, <1>2 DEF Knowing

\* In a step that writes no table, what holds before it holds after it.
LEMMA SetKnowsStill ==
  ASSUME OInv, Watch, UNCHANGED <<now, request, sub>>, NEW p \in Procs,
         NEW t \in TaskState, Set(p, t), OwnRows(t), Unspoilt(t, foreign[p])
  PROVE  Knowing'
  <1>1. RowsStay
    BY DEF RowsStay
  <1>2. OwnRows(t)'
    BY <1>1, OwnRowsStay
  <1>3. PICK W : W = foreign[p]
    OBVIOUS
  <1>4. Unspoilt(t, W)'
    BY <1>3 DEF Unspoilt, PendingDuplicate, Pending, IsFirstActive, ActiveSubs, Longer, Late
  <1> QED BY <1>1, <1>2, <1>3, <1>4, SetKnows

\* The new end of a row is later than its end.
LEMMA LaterEnd ==
  ASSUME TypeOK, NEW i \in Subs, NEW d \in Durations
  PROVE  Longer(i, calculateExpiration(d, Base(i)))
  <1>1. sub[i].exp \in Nat \cup {Lifetime} /\ now \in Nat /\ i # 0
    BY NatAssumption DEF TypeOK, SubRow, Expiry, Subs
  <1>2. d \in (Nat \ {0}) \cup {Lifetime} /\ Lifetime \notin Nat
    BY DurationsAssumption, AccessAssumption
  <1> QED BY <1>1, <1>2 DEF Longer, calculateExpiration, Base

\* An operation that returns knows what is left of its scan.
LEMMA ReturnKnows ==
  ASSUME OInv, RowsStay, Watch, UNCHANGED now, NEW p \in Procs, Return(p),
         \A i \in task[p].todo : sub'[i] = sub[i]
  PROVE  Knowing'
  <1> DEFINE rest == [Idle EXCEPT !.pc = "scan", !.op = "expire", !.todo = task[p].todo]
  <1>1. PICK todo \in SUBSET Subs : todo = task[p].todo
    BY DEF OInv, TInv, TypeOK, TaskState
  <1>2. PICK W : W = foreign[p]
    OBVIOUS
  <1>3. \A i \in todo : sub[i].status # "none" /\ (sub[i].key \in W \/ Late(i))
    BY <1>1, <1>2 DEF OInv, Knowing, OwnRows, Unspoilt
  <1>4. PICK t \in TaskState : t = [Idle EXCEPT !.pc = "scan", !.op = "expire", !.todo = todo]
    BY DEF Idle, TaskState, Labels, OpNames, Access, Expiry
  <1>5. OwnRows(t)' /\ Unspoilt(t, W)'
    <2>1. t.pc = "scan" /\ t.op = "expire" /\ t.todo = todo
      BY <1>4 DEF Idle
    <2>2. \A i \in todo : sub'[i].status # "none" /\ (sub'[i].key \in W \/ Late(i)')
      BY <1>1, <1>3 DEF Late
    <2> QED BY <2>1, <2>2 DEF OwnRows, Unspoilt, Working
  <1>6. Set(p, Idle) \/ Set(p, t)
    BY <1>1, <1>4 DEF Return
  <1> QED BY <1>2, <1>5, <1>6, IdleTyped, IdleKnowsAfter, SetKnows

\* Between two calls the operation keeps what it has read.
LEMMA GotoKnows ==
  ASSUME OInv, Watch, UNCHANGED <<now, request, sub>>, NEW p \in Procs,
         task[p].pc \in Working, NEW label \in {"remove", "readd", "modify", "commit"},
         Goto(p, label)
  PROVE  Knowing'
  <1> DEFINE t == [task[p] EXCEPT !.pc = label]
  <1>1. task[p] \in TaskState /\ OwnRows(task[p]) /\ Unspoilt(task[p], foreign[p])
    BY DEF OInv, TInv, TypeOK, Knowing
  <1>2. t \in TaskState
    BY <1>1 DEF TaskState, Labels
  <1>3. OwnRows(t)
    BY <1>1 DEF OwnRows, TaskState, Working
  <1>4. Unspoilt(t, foreign[p])
    BY <1>1 DEF Unspoilt, TaskState, Working
  <1> QED BY <1>2, <1>3, <1>4, SetKnowsStill DEF Goto

\* The calls to TradingView.
LEMMA CallKnows ==
  ASSUME OInv, Watch, NEW p \in Procs,
         AddAccess(p) \/ RemoveAccess(p) \/ ModifyExpiration(p)
  PROVE  Knowing'
  <1>1. /\ task[p].pc \in Working /\ UNCHANGED <<now, request, sub>> /\ RowsStay
    BY DEF AddAccess, RemoveAccess, ModifyExpiration, At, Working, RowsStay
  <1>2. \/ Return(p)
        \/ \E label \in {"remove", "readd", "modify", "commit"} : Goto(p, label)
    BY DEF AddAccess, RemoveAccess, ModifyExpiration, Synced, Exists
  <1> QED BY <1>1, <1>2, ReturnKnows, GotoKnows

\* A request that arrives has just read what it will rely on.
LEMMA ArriveKnows ==
  ASSUME OInv, Watch, NEW p \in Procs, Arrive(p)
  PROVE  Knowing'
  <1>0. TInv /\ TypeOK /\ Named /\ UNCHANGED <<now, request, sub>>
    BY DEF OInv, TInv, Arrive, SubmitRequest, CloseRequest, ApproveRequest, DirectGrant,
           DirectRenew, Revoke
  <1>1. CASE SubmitRequest(p)
    <2>1. PICK a \in Agents, k \in Keys, d \in Durations :
            /\ ~ PendingDuplicate(a, k)
            /\ Set(p, [Idle EXCEPT !.pc = "create", !.op = "submit",
                                   !.agent = a, !.key = k, !.dur = d])
      BY <1>1 DEF SubmitRequest
    <2> DEFINE t == [Idle EXCEPT !.pc = "create", !.op = "submit",
                                 !.agent = a, !.key = k, !.dur = d]
    <2>2. t \in TaskState
      BY DurationTyped DEF Idle, TaskState, Labels, OpNames, Access, Expiry
    <2>3. OwnRows(t) /\ Unspoilt(t, foreign[p])
      BY <2>1 DEF OwnRows, Unspoilt, Idle, Working
    <2> HIDE DEF t
    <2> QED BY <1>0, <2>1, <2>2, <2>3, SetKnowsStill DEF t
  <1>2. ASSUME NEW op \in {"cancel", "reject"}, CloseRequest(p, op)
        PROVE  Knowing'
    <2>1. PICK r \in Requests :
            /\ Pending(r)
            /\ Set(p, [Idle EXCEPT !.pc = "close", !.op = op, !.req = r])
      BY <1>2 DEF CloseRequest
    <2> DEFINE t == [Idle EXCEPT !.pc = "close", !.op = op, !.req = r]
    <2>2. t \in TaskState
      BY DEF Idle, TaskState, Labels, OpNames, Access, Expiry
    <2>3. OwnRows(t) /\ Unspoilt(t, foreign[p])
      BY <2>1 DEF OwnRows, Unspoilt, Idle, Working, Pending
    <2> HIDE DEF t
    <2> QED BY <1>0, <2>1, <2>2, <2>3, SetKnowsStill DEF t
  <1>3. CASE ApproveRequest(p)
    <2>1. PICK r \in Requests :
            /\ Pending(r)
            /\ Set(p, [Idle EXCEPT !.pc = "lookup", !.op = "approve", !.req = r,
                               !.key = request[r].key, !.dur = request[r].dur])
      BY <1>3 DEF ApproveRequest
    <2> DEFINE t == [Idle EXCEPT !.pc = "lookup", !.op = "approve", !.req = r,
                               !.key = request[r].key, !.dur = request[r].dur]
    <2>2. t \in TaskState
      BY <1>0 DEF Idle, TaskState, Labels, OpNames, Access, Expiry, TypeOK, RequestRow
    <2>3. request[r].key \in Keys /\ request[r].dur \in Durations
      BY <1>0, <2>1 DEF Named, Pending
    <2>4. OwnRows(t) /\ Unspoilt(t, foreign[p])
      BY <2>1, <2>3 DEF OwnRows, Unspoilt, Idle, Working, Pending
    <2> HIDE DEF t
    <2> QED BY <1>0, <2>1, <2>2, <2>4, SetKnowsStill DEF t
  <1>4. CASE DirectGrant(p)
    <2>1. PICK k \in Keys, d \in Durations :
            /\ ActiveSubs(k) = {}
            /\ Set(p, [Idle EXCEPT !.pc = "snapshot", !.op = "grant", !.key = k,
                                   !.exp = calculateExpiration(d, now)])
      BY <1>4 DEF DirectGrant
    <2> DEFINE e == calculateExpiration(d, now)
               t == [Idle EXCEPT !.pc = "snapshot", !.op = "grant", !.key = k,
                                 !.exp = e]
    <2>2. e \in Expiry
      BY <1>0, DurationTyped, ExpirationTyped
    <2> HIDE DEF e
    <2>3. t \in TaskState
      BY <2>2 DEF Idle, TaskState, Labels, OpNames, Access, Expiry
    <2>4. OwnRows(t) /\ Unspoilt(t, foreign[p])
      BY <2>1 DEF OwnRows, Unspoilt, Idle, Working
    <2> HIDE DEF t
    <2> QED BY <1>0, <2>1, <2>3, <2>4, SetKnowsStill DEF e, t
  <1>5. CASE DirectRenew(p)
    <2>1. PICK i \in Subs, d \in Durations :
            /\ sub[i].status = "active"
            /\ Set(p, [Idle EXCEPT
                        !.pc = IF calculateExpiration(d, Base(i)) = Lifetime
                               THEN "remove" ELSE "modify",
                        !.op = "renew", !.key = sub[i].key, !.sub = i,
                        !.exp = calculateExpiration(d, Base(i))])
      BY <1>5 DEF DirectRenew
    <2> DEFINE e == calculateExpiration(d, Base(i))
               t == [Idle EXCEPT !.pc = IF e = Lifetime THEN "remove" ELSE "modify",
                        !.op = "renew", !.key = sub[i].key, !.sub = i, !.exp = e]
    <2>2. e \in Expiry /\ Longer(i, e) /\ sub[i].key \in Keys
      BY <1>0, <2>1, DurationTyped, ExpirationTyped, LaterEnd DEF Named
    <2> HIDE DEF e
    <2>3. t \in TaskState
      BY <2>2 DEF Idle, TaskState, Labels, OpNames, Access, Expiry
    <2>4. OwnRows(t) /\ Unspoilt(t, foreign[p])
      BY <2>1, <2>2 DEF OwnRows, Unspoilt, Idle, Working
    <2> HIDE DEF t
    <2> QED BY <1>0, <2>1, <2>3, <2>4, SetKnowsStill DEF e, t
  <1>6. CASE Revoke(p)
    <2>1. PICK i \in Subs :
            /\ sub[i].status # "none"
            /\ Set(p, [Idle EXCEPT !.pc = "remove", !.op = "revoke",
                                   !.key = sub[i].key, !.sub = i])
      BY <1>6 DEF Revoke
    <2> DEFINE t == [Idle EXCEPT !.pc = "remove", !.op = "revoke",
                                 !.key = sub[i].key, !.sub = i]
    <2>2. sub[i].key \in Keys
      BY <1>0, <2>1 DEF Named
    <2>3. t \in TaskState
      BY <2>2 DEF Idle, TaskState, Labels, OpNames, Access, Expiry
    <2>4. OwnRows(t) /\ Unspoilt(t, foreign[p])
      BY <2>1, <2>2 DEF OwnRows, Unspoilt, Idle, Working
    <2> HIDE DEF t
    <2> QED BY <1>0, <2>1, <2>3, <2>4, SetKnowsStill DEF t
  <1> QED BY <1>1, <1>2, <1>3, <1>4, <1>5, <1>6 DEF Arrive

\* The query of the expiry job.
LEMMA ScanKnows ==
  ASSUME OInv, Watch, NEW p \in Procs, RevokeExpired(p)
  PROVE  Knowing'
  <1> DEFINE expired == {i \in Subs : Overdue(i)}
             t == [Idle EXCEPT !.pc = "scan", !.op = "expire", !.todo = expired]
  <1>1. At(p, "idle") /\ (Set(p, Idle) \/ Set(p, t)) /\ UNCHANGED <<now, request, sub>>
    BY DEF RevokeExpired, Start
  <1>2. expired \in SUBSET Subs /\ \A i \in expired : Late(i) /\ sub[i].status # "none"
    BY DEF Overdue, Late
  <1> HIDE DEF expired
  <1>3. t \in TaskState
    BY <1>2 DEF Idle, TaskState, Labels, OpNames, Access, Expiry
  <1>4. OwnRows(t) /\ Unspoilt(t, foreign[p])
    BY <1>2 DEF OwnRows, Unspoilt, Idle, Working
  <1>5. OwnRows(Idle) /\ Unspoilt(Idle, foreign[p])
    BY <1>1, IdleKnows DEF OInv, Watching
  <1> HIDE DEF t
  <1> QED BY <1>1, <1>3, <1>4, <1>5, IdleTyped, SetKnowsStill

\* Reads and moves within an operation.
LEMMA LocalKnows ==
  ASSUME OInv, Watch, NEW p \in Procs,
         \/ FindActive(p) \/ Refuse(p) \/ RevokeNext(p)
         \/ snapshotTradingViewAccess(p)
  PROVE  Knowing'
  <1>0. /\ task[p] \in TaskState /\ OwnRows(task[p]) /\ Unspoilt(task[p], foreign[p])
        /\ TypeOK /\ Named /\ TypedTask(task[p]) /\ UNCHANGED <<now, request, sub>>
    BY DEF OInv, TInv, TypeOK, TaskTyped, Knowing, FindActive, Refuse, RevokeNext,
           snapshotTradingViewAccess
  <1>1. CASE FindActive(p)
    <2>1. PICK i \in Subs \cup {0} :
            /\ IsFirstActive(i, task[p].key)
            /\ Set(p, [task[p] EXCEPT !.pc = "snapshot", !.sub = i,
                      !.exp = calculateExpiration(task[p].dur, Base(i))])
      BY <1>1 DEF FindActive
    <2>2. task[p].pc = "lookup" /\ task[p].dur \in Durations
      BY <1>0, <1>1 DEF FindActive, At, OwnRows
    <2> DEFINE e == calculateExpiration(task[p].dur, Base(i))
               t == [task[p] EXCEPT !.pc = "snapshot", !.sub = i, !.exp = e]
    <2>3. e \in Expiry /\ (i # 0 => Longer(i, e))
      BY <1>0, <2>2, ExpirationTyped, LaterEnd DEF TaskState
    <2>4. i # 0 => i \in Subs /\ sub[i].status # "none" /\ sub[i].key = task[p].key
      BY <2>1 DEF IsFirstActive, ActiveSubs
    <2> HIDE DEF e
    <2>5. t \in TaskState
      BY <1>0, <2>3 DEF TaskState, Labels, Access
    <2>6. /\ t.pc = "snapshot" /\ t.op = task[p].op /\ t.key = task[p].key /\ t.sub = i
          /\ t.req = task[p].req /\ t.exp = e /\ t.undo = task[p].undo
          /\ t.todo = task[p].todo
      BY <1>0 DEF TaskState
    <2>7. Set(p, t)
      BY <2>1 DEF e
    <2> HIDE DEF t
    <2>8. OwnRows(t) /\ Unspoilt(t, foreign[p])
      BY <1>0, <2>1, <2>2, <2>3, <2>4, <2>6 DEF OwnRows, Unspoilt, Working
    <2> QED BY <1>0, <2>5, <2>7, <2>8, SetKnowsStill
  <1>2. CASE Refuse(p)
    <2>1. RowsStay
      BY <1>0 DEF RowsStay
    <2> QED BY <1>0, <1>2, <2>1, ReturnKnows DEF Refuse
  <1>3. CASE RevokeNext(p)
    <2>1. PICK i \in task[p].todo :
            Set(p, [task[p] EXCEPT !.pc = "remove", !.key = sub[i].key,
                                   !.sub = i, !.todo = @ \ {i}])
      BY <1>3 DEF RevokeNext
    <2> DEFINE t == [task[p] EXCEPT !.pc = "remove", !.key = sub[i].key,
                                    !.sub = i, !.todo = @ \ {i}]
    <2>2. /\ i \in Subs /\ sub[i].key \in Keys /\ sub[i].status # "none"
          /\ sub[i].key \in foreign[p] \/ Late(i)
          /\ task[p].todo \ {i} \in SUBSET Subs
          /\ task[p].op = "expire"
      BY <1>0, <1>3 DEF Named, TaskState, OwnRows, Unspoilt, RevokeNext, At
    <2>3. t \in TaskState
      <3>1. [task[p] EXCEPT !.pc = "remove", !.key = sub[i].key, !.sub = i]
              \in TaskState
        BY <1>0, <2>2 DEF TaskState, Labels
      <3> QED BY <1>0, <2>2, <3>1 DEF TaskState
    <2>4. /\ t.pc = "remove" /\ t.op = "expire" /\ t.key = sub[i].key /\ t.sub = i
          /\ t.todo = task[p].todo \ {i}
      BY <1>0, <2>2 DEF TaskState
    <2> HIDE DEF t
    <2>5. OwnRows(t) /\ Unspoilt(t, foreign[p])
      BY <1>0, <2>2, <2>4 DEF OwnRows, Unspoilt, Working
    <2> QED BY <1>0, <2>1, <2>3, <2>5, SetKnowsStill DEF t
  <1>4. CASE snapshotTradingViewAccess(p)
    <2> DEFINE t == [task[p] EXCEPT !.pc = "add", !.snap = remote[task[p].key]]
    <2>1. remote[task[p].key] \in Access
      BY <1>0, <1>4 DEF snapshotTradingViewAccess, At, TypedTask, TypeOK
    <2>2. t \in TaskState
      BY <1>0, <2>1 DEF TaskState, Labels
    <2>3. OwnRows(t) /\ Unspoilt(t, foreign[p])
      BY <1>0, <1>4
         DEF OwnRows, Unspoilt, snapshotTradingViewAccess, At, TaskState, Working
    <2>4. Set(p, t)
      BY <1>4 DEF snapshotTradingViewAccess
    <2> HIDE DEF t
    <2> QED BY <1>0, <2>2, <2>3, <2>4, SetKnowsStill
  <1> QED BY <1>1, <1>2, <1>3, <1>4

\* Submission, cancellation and rejection return once they have written.
LEMMA RequestKnows ==
  ASSUME OInv, RowsStay, Watch, NEW p \in Procs, CreateRequest(p) \/ CommitClose(p)
  PROVE  Knowing'
  <1>1. UNCHANGED <<now, sub>> /\ Return(p)
    BY DEF CreateRequest, CommitClose
  <1> QED BY <1>1, ReturnKnows

\* A commit leaves the rest of a scan alone, and a compensation needs no row.
LEMMA CommitKnows ==
  ASSUME OInv, RowsStay, Watch, NEW p \in Procs, Commit(p)
  PROVE  Knowing'
  <1>0. /\ task[p] \in TaskState /\ OwnRows(task[p]) /\ task[p].pc = "commit"
        /\ sub \in [Subs -> SubRow] /\ UNCHANGED now
    BY DEF OInv, TInv, TypeOK, Knowing, Commit, At
  <1>1. CASE Return(p)
    <2>1. \A i \in task[p].todo : sub'[i] = sub[i]
      <3>1. task[p].todo \subseteq Subs
        BY <1>0 DEF TaskState
      <3>2. CASE UNCHANGED sub
        BY <3>2
      <3>3. CASE task[p].op = "expire" /\ MarkEnded(task[p], "expired")
        <4>1. task[p].sub \notin task[p].todo
          BY <1>0, <3>3 DEF OwnRows, Working
        <4> QED BY <1>0, <3>1, <3>3, <4>1 DEF MarkEnded
      <3>4. CASE task[p].op # "expire"
        BY <1>0, <3>4 DEF OwnRows
      <3> QED BY <3>2, <3>3, <3>4 DEF Commit, Write
    <2> QED BY <1>0, <1>1, <2>1, ReturnKnows
  <1>2. CASE Compensate(p) /\ task[p].op \in {"approve", "grant"}
    <2> DEFINE back == [task[p] EXCEPT !.exp = task[p].snap, !.undo = TRUE]
               t == [back EXCEPT !.pc = FirstCall(back)]
    <2>1. t \in TaskState
      BY <1>0 DEF TaskState, FirstCall, Labels
    <2>2. /\ t.op = task[p].op /\ t.undo /\ t.todo = task[p].todo
          /\ t.pc \in {"add", "remove"} /\ t.key = task[p].key /\ t.req = task[p].req
          /\ t.sub = task[p].sub
      BY <1>0 DEF TaskState, FirstCall
    <2>3. Set(p, t)
      BY <1>2 DEF Compensate
    <2> HIDE DEF t
    <2>4. PICK u \in TaskState : u = t
      BY <2>1
    <2>5. OwnRows(u)
      BY <1>0, <1>2, <2>2, <2>4 DEF OwnRows, Working
    <2>6. OwnRows(u)'
      BY <2>5, OwnRowsStay
    <2>7. PICK W : W = foreign[p]
      OBVIOUS
    <2>8. Unspoilt(u, W)'
      BY <1>0, <1>2, <2>2, <2>4 DEF Unspoilt, OwnRows
    <2> QED BY <1>0, <2>3, <2>4, <2>6, <2>7, <2>8, SetKnows
  <1> QED BY <1>1, <1>2 DEF Commit, Compensate

\* All this is inductive.
LEMMA InitOInv == Init /\ foreign = [p \in Procs |-> {}] => OInv
  <1> SUFFICES ASSUME Init, foreign = [p \in Procs |-> {}] PROVE OInv
    OBVIOUS
  <1>1. TInv
    BY InitTyped
  <1>2. Named
    BY FillerAssumption DEF Init, Named, NoRequestRow, NoSubRow
  <1>3. Watching
    BY DEF Watching
  <1>4. Knowing
    BY IdleKnows DEF Init, Knowing
  <1> QED BY <1>1, <1>2, <1>3, <1>4 DEF OInv

LEMMA StepOInv == OInv /\ [Next /\ Watch]_overlapVars => OInv'
  <1>1. ASSUME OInv, Next, Watch PROVE OInv'
    <2>1. TInv' /\ RowsStay /\ Named' /\ Watching'
      BY <1>1, NextTyped, RowsStep, WatchStep DEF OInv
    <2>2. ASSUME Tick PROVE Knowing'
      <3>1. now' \in Nat /\ now' >= now /\ task' = task
        BY <1>1, <2>2 DEF Tick, OInv, TInv, TypeOK
      <3> QED BY <1>1, <2>1, <3>1, OthersKnow DEF Knowing
    <2>3. ASSUME Crash PROVE Knowing'
      <3>1. \A p \in Procs : task'[p] = Idle
        BY <2>3 DEF Crash
      <3> QED BY <3>1, IdleKnowsAfter DEF Knowing, OwnRows, Unspoilt
    <2>4. Knowing'
      BY <1>1, <2>1, <2>2, <2>3, ArriveKnows, ScanKnows, LocalKnows, CallKnows,
         RequestKnows, CommitKnows DEF Next, Step, Procs
    <2> QED BY <2>1, <2>4 DEF OInv
  <1>2. ASSUME OInv, UNCHANGED overlapVars PROVE OInv'
    <2>1. TInv'
      BY <1>2, NextTyped DEF OInv, overlapVars
    <2>2. Named' /\ Watching'
      BY <1>2 DEF OInv, overlapVars, vars, Named, Watching, At
    <2>3. Knowing'
      BY <1>2 DEF OInv, overlapVars, vars, Knowing, OwnRows, Unspoilt, PendingDuplicate,
                  Pending, IsFirstActive, ActiveSubs, Longer, Late
    <2> QED BY <2>1, <2>2, <2>3 DEF OInv
  <1> QED BY <1>1, <1>2

\* What a step writes for pairs that others have left alone.
KeepsPromises(p) ==
    \A k \in Keys \ foreign[p] :
        /\ AddsNoSecond(k) /\ FilesNoDuplicate(k) /\ KeepsDecisions(k) /\ KeepsTime(k)
        /\ k = task[p].key => AddsTime(p)

\* A step that writes nothing keeps every promise.
LEMMA NoWriteKeeps ==
  ASSUME TInv, UNCHANGED <<request, sub>>, NEW p,
         At(p, "commit") => faults' # faults
  PROVE  KeepsPromises(p)
  <1>1. \A i \in Subs : sub[i].exp # Lifetime => sub[i].exp \in Nat
    BY DEF TInv, TypeOK, SubRow, Expiry
  <1> QED BY <1>1 DEF KeepsPromises, AddsNoSecond, FilesNoDuplicate, KeepsDecisions,
                      KeepsTime, AddsTime, Pending

\* A new request joins no pending one.
LEMMA CreateKeeps ==
  ASSUME OInv, NEW p \in Procs, CreateRequest(p)
  PROVE  KeepsPromises(p)
  <1>0. /\ OwnRows(task[p]) /\ Unspoilt(task[p], foreign[p]) /\ task[p].pc = "create"
        /\ request \in [Requests -> RequestRow] /\ UNCHANGED sub /\ TInv
    BY DEF OInv, TInv, TypeOK, Knowing, CreateRequest, At
  <1>1. CASE UNCHANGED request
    BY <1>0, <1>1, NoWriteKeeps DEF At
  <1>2. ASSUME NEW r \in Requests, request[r].status = "none",
               request' = [request EXCEPT ![r] =
                    [status |-> "pending", agent |-> task[p].agent,
                     key |-> task[p].key, dur |-> task[p].dur]]
        PROVE  KeepsPromises(p)
    <2>1. \A k \in Keys \ foreign[p] : FilesNoDuplicate(k) /\ KeepsDecisions(k)
      BY <1>0, <1>2 DEF FilesNoDuplicate, KeepsDecisions, Pending, Unspoilt
    <2>2. \A k \in Keys : AddsNoSecond(k) /\ KeepsTime(k)
      <3>1. \A i \in Subs : sub[i].exp # Lifetime => sub[i].exp \in Nat
        BY <1>0 DEF TInv, TypeOK, SubRow, Expiry
      <3> QED BY <1>0, <3>1 DEF AddsNoSecond, KeepsTime
    <2> QED BY <1>0, <2>1, <2>2 DEF KeepsPromises, AddsTime, At
  <1> QED BY <1>1, <1>2 DEF CreateRequest, IsNextRow

\* A request is closed while it is pending.
LEMMA CloseKeeps ==
  ASSUME OInv, NEW p \in Procs, CommitClose(p)
  PROVE  KeepsPromises(p)
  <1>0. /\ OwnRows(task[p]) /\ Unspoilt(task[p], foreign[p]) /\ task[p].pc = "close"
        /\ request \in [Requests -> RequestRow] /\ UNCHANGED sub /\ TInv
    BY DEF OInv, TInv, TypeOK, Knowing, CommitClose, At
  <1>1. CASE UNCHANGED request
    BY <1>0, <1>1, NoWriteKeeps DEF At
  <1>2. ASSUME NEW status \in {"cancelled", "rejected"},
               request' = [request EXCEPT ![task[p].req].status = status]
        PROVE  KeepsPromises(p)
    <2>1. \A k \in Keys \ foreign[p] : FilesNoDuplicate(k) /\ KeepsDecisions(k)
      BY <1>0, <1>2 DEF FilesNoDuplicate, KeepsDecisions, Pending, Unspoilt, RequestRow
    <2>2. \A k \in Keys : AddsNoSecond(k) /\ KeepsTime(k)
      <3>1. \A i \in Subs : sub[i].exp # Lifetime => sub[i].exp \in Nat
        BY <1>0 DEF TInv, TypeOK, SubRow, Expiry
      <3> QED BY <1>0, <3>1 DEF AddsNoSecond, KeepsTime
    <2> QED BY <1>0, <2>1, <2>2 DEF KeepsPromises, AddsTime, At
  <1> QED BY <1>1, <1>2 DEF CommitClose

\* What a commit writes rests on what the operation has read.
LEMMA WriteKeeps ==
  ASSUME OInv, NEW p \in Procs, Commit(p), Write(task[p])
  PROVE  KeepsPromises(p)
  <1>0. /\ OwnRows(task[p]) /\ Unspoilt(task[p], foreign[p]) /\ task[p].pc = "commit"
        /\ task[p].pc \in Working /\ task[p].key \in Keys /\ ~ task[p].undo
        /\ request \in [Requests -> RequestRow] /\ sub \in [Subs -> SubRow] /\ now \in Nat
    BY DEF OInv, TInv, TypeOK, TaskTyped, TypedTask, Knowing, OwnRows, Commit, At, Working
  <1>1. \A i \in Subs : sub[i].exp # Lifetime => sub[i].exp \in Nat
    BY <1>0 DEF SubRow, Expiry
  <1>2. task[p].exp # Lifetime /\ task[p].op \in {"approve", "renew"} => task[p].exp \in Nat
    BY <1>0 DEF OInv, TInv, TaskTyped, TypedTask, Expiry
  <1>3. CASE task[p].op = "approve" /\ SaveApproval(task[p])
    <2>1. PICK i \in Subs :
            /\ IF task[p].sub = 0 THEN IsNextRow(sub, i) ELSE i = task[p].sub
            /\ sub' = [sub EXCEPT ![i] = [status |-> "active", key |-> task[p].key,
                           exp |-> task[p].exp, granted |-> TRUE, req |-> task[p].req]]
            /\ request' = [request EXCEPT ![task[p].req].status = "approved"]
      BY <1>3 DEF SaveApproval
    <2>2. /\ task[p].req \in Requests /\ request[task[p].req].key = task[p].key
          /\ task[p].key \in foreign[p] \/ Pending(task[p].req)
          /\ task[p].key \in foreign[p] \/ /\ IsFirstActive(task[p].sub, task[p].key)
                                           /\ task[p].sub # 0 => Longer(task[p].sub, task[p].exp)
          /\ task[p].sub # 0 => task[p].sub \in Subs /\ sub[task[p].sub].key = task[p].key
      BY <1>0, <1>3 DEF OwnRows, Unspoilt
    <2>3. \A k \in Keys \ foreign[p] : FilesNoDuplicate(k) /\ KeepsDecisions(k)
      BY <1>0, <2>1, <2>2 DEF FilesNoDuplicate, KeepsDecisions, Pending, RequestRow
    <2>4. ASSUME NEW k \in Keys \ foreign[p] PROVE AddsNoSecond(k)
      <3>1. ASSUME NEW j \in Subs, sub'[j].key = k, sub'[j].status = "active",
                   sub[j].status # "active"
            PROVE  ActiveSubs(k) = {}
        <4>1. j = i /\ k = task[p].key
          BY <1>0, <2>1, <3>1
        <4>2. 0 \notin ActiveSubs(k)
          BY NatAssumption DEF ActiveSubs, Subs
        <4> QED BY <2>1, <2>2, <2>4, <3>1, <4>1, <4>2 DEF IsFirstActive, ActiveSubs
      <3> QED BY <3>1 DEF AddsNoSecond
    <2>5. ASSUME NEW k \in Keys \ foreign[p] PROVE KeepsTime(k)
      <3>1. ASSUME NEW j \in Subs, sub[j].key = k, sub[j].status = "active",
                   sub[j].exp # Lifetime
            PROVE  /\ sub'[j].status = "active"
                   /\ sub'[j].exp = Lifetime \/ sub'[j].exp >= sub[j].exp
        <4>1. CASE j # i
          BY <1>0, <1>1, <2>1, <3>1, <4>1
        <4>2. CASE j = i
          <5>1. j = task[p].sub /\ k = task[p].key
            BY <2>1, <2>2, <3>1, <4>2 DEF IsNextRow
          <5>2. Longer(j, task[p].exp)
            BY <2>2, <2>5, <5>1, NatAssumption DEF Subs
          <5>3. sub'[j].status = "active" /\ sub'[j].exp = task[p].exp
            BY <1>0, <2>1, <4>2
          <5> QED BY <1>1, <1>2, <1>3, <3>1, <5>2, <5>3 DEF Longer
        <4> QED BY <4>1, <4>2
      <3> QED BY <3>1 DEF KeepsTime
    <2>6. task[p].key \notin foreign[p] => AddsTime(p)
      <3>1. ASSUME task[p].key \notin foreign[p], task[p].sub # 0
            PROVE  /\ sub[task[p].sub].status = "active" /\ Longer(task[p].sub, task[p].exp)
                   /\ sub'[task[p].sub].exp = task[p].exp
        BY <1>0, <2>1, <2>2, <3>1 DEF IsFirstActive, ActiveSubs
      <3> QED BY <3>1 DEF AddsTime, Longer
    <2> QED BY <2>3, <2>4, <2>5, <2>6 DEF KeepsPromises
  <1>4. CASE task[p].op = "grant" /\ CreateGrant(task[p])
    <2>1. PICK i \in Subs :
            /\ IsNextRow(sub, i) /\ UNCHANGED request
            /\ sub' = [sub EXCEPT ![i] = [status |-> "active", key |-> task[p].key,
                           exp |-> task[p].exp, granted |-> TRUE, req |-> 0]]
      BY <1>4 DEF CreateGrant
    <2>2. task[p].key \in foreign[p] \/ ActiveSubs(task[p].key) = {}
      BY <1>0, <1>4 DEF Unspoilt
    <2>3. \A k \in Keys : FilesNoDuplicate(k) /\ KeepsDecisions(k)
      BY <2>1 DEF FilesNoDuplicate, KeepsDecisions, Pending
    <2>4. \A k \in Keys \ foreign[p] : AddsNoSecond(k)
      BY <1>0, <2>1, <2>2 DEF AddsNoSecond
    <2>5. \A k \in Keys : KeepsTime(k)
      BY <1>0, <1>1, <2>1 DEF KeepsTime, IsNextRow
    <2> QED BY <1>4, <2>3, <2>4, <2>5 DEF KeepsPromises, AddsTime
  <1>5. CASE task[p].op = "renew" /\ UpdateExpiration(task[p])
    <2>1. /\ task[p].sub \in Subs /\ sub[task[p].sub].key = task[p].key
          /\ task[p].key \in foreign[p] \/ /\ sub[task[p].sub].status = "active"
                                           /\ Longer(task[p].sub, task[p].exp)
      BY <1>0, <1>5 DEF OwnRows, Unspoilt
    <2>2. UNCHANGED request /\ sub' = [sub EXCEPT ![task[p].sub].exp = task[p].exp]
      BY <1>5 DEF UpdateExpiration
    <2>3. \A k \in Keys : FilesNoDuplicate(k) /\ KeepsDecisions(k)
      BY <2>2 DEF FilesNoDuplicate, KeepsDecisions, Pending
    <2>4. \A k \in Keys : AddsNoSecond(k)
      BY <1>0, <2>2 DEF AddsNoSecond, SubRow
    <2>5. ASSUME NEW k \in Keys \ foreign[p] PROVE KeepsTime(k)
      <3>1. ASSUME NEW j \in Subs, sub[j].key = k, sub[j].status = "active",
                   sub[j].exp # Lifetime
            PROVE  /\ sub'[j].status = "active"
                   /\ sub'[j].exp = Lifetime \/ sub'[j].exp >= sub[j].exp
        <4>1. CASE j # task[p].sub
          BY <1>0, <1>1, <2>2, <3>1, <4>1
        <4>2. CASE j = task[p].sub
          <5>1. sub'[j].status = "active" /\ sub'[j].exp = task[p].exp
            BY <1>0, <2>2, <3>1, <4>2 DEF SubRow
          <5>2. Longer(j, task[p].exp)
            BY <2>1, <2>5, <3>1, <4>2
          <5> QED BY <1>1, <1>2, <1>5, <3>1, <5>1, <5>2 DEF Longer
        <4> QED BY <4>1, <4>2
      <3> QED BY <3>1 DEF KeepsTime
    <2>6. task[p].key \notin foreign[p] => AddsTime(p)
      <3>1. sub'[task[p].sub].exp = task[p].exp
        BY <1>0, <2>1, <2>2 DEF SubRow
      <3> QED BY <2>1, <3>1 DEF AddsTime, Longer
    <2> QED BY <2>3, <2>4, <2>5, <2>6 DEF KeepsPromises
  <1>6. ASSUME NEW status \in {"revoked", "expired"}, MarkEnded(task[p], status),
               task[p].op \in {"revoke", "expire"},
               status = "expired" => task[p].op = "expire"
        PROVE  KeepsPromises(p)
    <2>1. /\ task[p].sub \in Subs /\ sub[task[p].sub].key = task[p].key
          /\ status = "expired" => task[p].key \in foreign[p] \/ Late(task[p].sub)
      BY <1>0, <1>6 DEF OwnRows, Unspoilt
    <2>2. UNCHANGED request /\ sub' = [sub EXCEPT ![task[p].sub].status = status,
                                                  ![task[p].sub].granted = FALSE]
      BY <1>6 DEF MarkEnded
    <2>3. \A k \in Keys : FilesNoDuplicate(k) /\ KeepsDecisions(k)
      BY <2>2 DEF FilesNoDuplicate, KeepsDecisions, Pending
    <2>4. \A k \in Keys : AddsNoSecond(k)
      BY <1>0, <2>1, <2>2 DEF AddsNoSecond, SubRow
    <2>5. ASSUME NEW k \in Keys \ foreign[p] PROVE KeepsTime(k)
      BY <1>0, <1>1, <2>1, <2>2, <2>5 DEF KeepsTime, SubRow, Late
    <2> QED BY <1>6, <2>3, <2>4, <2>5 DEF KeepsPromises, AddsTime
  <1> QED BY <1>3, <1>4, <1>5, <1>6 DEF Write

\* Overtaken on its pair, or not at fault: whatever overlaps, fails or crashes,
\* an operation that nobody else has come before on a pair breaks none of the
\* promises there, for any number of goroutines, customers, rows and faults.
THEOREM OverlapCorrect == OverlapSpec => OnlyOverlapSpoils
  <1>1. ASSUME OInv, [Next /\ Watch]_overlapVars, NEW p \in Procs, Moves(p)
        PROVE  KeepsPromises(p)
    <2>0. Next /\ TInv /\ task \in [Procs -> TaskState] /\ faults \in Nat
      BY <1>1 DEF OInv, TInv, TypeOK, overlapVars, vars, Moves
    <2>1. CASE CreateRequest(p) \/ CommitClose(p)
      BY <1>1, <2>1, CreateKeeps, CloseKeeps
    <2>2. CASE Commit(p)
      <3>1. CASE Write(task[p])
        BY <1>1, <2>2, <3>1, WriteKeeps
      <3>2. CASE ~ Write(task[p])
        <4>1. UNCHANGED <<request, sub>> /\ faults' # faults
          BY <2>0, <2>2, <3>2 DEF Commit, Fault
        <4> QED BY <2>0, <4>1, NoWriteKeeps
      <3> QED BY <3>1, <3>2
    <2>3. CASE UNCHANGED <<request, sub>> /\ (At(p, "commit") => Crash)
      <3>1. At(p, "commit") => faults' # faults
        BY <2>0, <2>3 DEF Crash, Fault
      <3> QED BY <2>0, <2>3, <3>1, NoWriteKeeps
    <2>4. ASSUME NEW q \in Procs, Step(q) \/ Arrive(q) \/ RevokeExpired(q)
          PROVE  q = p
      <3>1. \E t : Set(q, t)
        BY <2>4 DEF Step, Arrive, RevokeExpired, CreateRequest, CommitClose, FindActive,
             Refuse, RevokeNext, snapshotTradingViewAccess, AddAccess, RemoveAccess,
             ModifyExpiration, Commit, Compensate, Synced, Exists, Goto, Return,
             SubmitRequest, CloseRequest, ApproveRequest, DirectGrant, DirectRenew, Revoke
      <3> QED BY <1>1, <2>0, <3>1 DEF Set, Moves
    <2>5. CASE Step(p)
      BY <2>1, <2>2, <2>3, <2>5
         DEF Step, FindActive, Refuse, RevokeNext, snapshotTradingViewAccess, AddAccess,
             RemoveAccess, ModifyExpiration, At
    <2>6. CASE Arrive(p) \/ RevokeExpired(p)
      BY <2>3, <2>6
         DEF Arrive, RevokeExpired, SubmitRequest, CloseRequest, ApproveRequest,
             DirectGrant, DirectRenew, Revoke, Start, At
    <2>7. CASE Crash
      BY <2>3, <2>7 DEF Crash
    <2>8. ~ Tick
      BY <1>1 DEF Tick, Moves
    <2> QED BY <2>0, <2>4, <2>5, <2>6, <2>7, <2>8 DEF Next, Procs
  <1>2. OInv /\ [Next /\ Watch]_overlapVars
          => [\A p \in Procs : Moves(p) => KeepsPromises(p)]_overlapVars
    BY <1>1
  <1> QED BY <1>2, InitOInv, StepOInv, PTL DEF OverlapSpec, OverlapInit, OnlyOverlapSpoils, KeepsPromises
=============================================================================
