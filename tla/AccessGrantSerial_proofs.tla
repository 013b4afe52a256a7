----------------------- MODULE AccessGrantSerial_proofs -----------------------
(***************************************************************************)
(* What the sequential code promises: theorems about AccessGrant when      *)
(* operations do not overlap.  Commits still fail, TradingView still loses *)
(* answers and the server still dies; the run DecisionRace is one in which *)
(* operations overlap and a property proved here fails.                    *)
(***************************************************************************)
EXTENDS AccessGrant_proofs, AccessGrantLedger

\* An extension of row i reaches at least its end.
Extends(i, e) == sub[i].exp # Lifetime => e = Lifetime \/ e >= sub[i].exp

\* What a goroutine has read still holds when it writes: each guard of the
\* code, carried from the read to the commit.
SoundTask(t) ==
    /\ t.pc = "create" => t.op = "submit" /\ ~ PendingDuplicate(t.agent, t.key)
    /\ t.pc = "close" => /\ t.op \in {"cancel", "reject"}
                         /\ t.req \in Requests /\ Pending(t.req)
    /\ t.pc = "lookup" => t.op = "approve" /\ ~ t.undo
    /\ t.pc = "snapshot" => ~ t.undo
    /\ t.op = "approve" /\ ~ t.undo => t.req \in Requests /\ Pending(t.req)
    /\ t.pc \in Working /\ t.op = "approve" /\ ~ t.undo =>
           /\ IsFirstActive(t.sub, t.key)
           /\ t.sub # 0 => Extends(t.sub, t.exp)
    /\ t.pc \in Working /\ t.op = "grant" /\ ~ t.undo => ActiveSubs(t.key) = {}
    /\ t.op = "renew" => /\ t.sub \in Subs
                         /\ sub[t.sub].status = "active"
                         /\ Extends(t.sub, t.exp)
    /\ \A i \in t.todo : Late(i)
    /\ t.op = "expire" /\ t.pc # "scan" => Late(t.sub) /\ t.sub \in Subs \ t.todo
    /\ t.todo # {} => t.op = "expire"
    /\ t.pc = "scan" => t.op = "expire"

Sound == \A p \in Procs : SoundTask(task[p])

SInv == Serial /\ TInv /\ Sound /\ OneActive /\ NoPendingDuplicates

\* The tables a sound goroutine relies on did not change.
LEMMA SetSound ==
  ASSUME Serial, TypeOK, NEW p \in Procs, NEW t \in TaskState, SoundTask(t),
         Set(p, t), UNCHANGED <<now, request, sub>>
  PROVE  Sound'
  <1>1. \A q \in Procs : task'[q] = t
    BY DEF Serial, Set, TypeOK
  <1> QED
    BY <1>1 DEF Sound, SoundTask, Extends, PendingDuplicate, Pending,
                IsFirstActive, ActiveSubs, Late

\* A goroutine that does nothing relies on nothing.
LEMMA IdleSound == SoundTask(Idle)
  BY DEF SoundTask, Idle, Working

\* An operation that returns leaves nothing behind but late rows to look at.
LEMMA ReturnSound ==
  ASSUME Serial, TInv, Sound, NEW p \in Procs, Return(p),
         UNCHANGED <<now, request, sub>>
  PROVE  Sound'
  <1> DEFINE rest == [Idle EXCEPT !.pc = "scan", !.op = "expire",
                                  !.todo = task[p].todo]
  <1>1. task[p].todo \in SUBSET Subs /\ \A i \in task[p].todo : Late(i)
    BY DEF TInv, TypeOK, TaskState, Sound, SoundTask
  <1>2. rest \in TaskState
    BY <1>1 DEF Idle, TaskState, Labels, OpNames, Access, Expiry
  <1>3. SoundTask(rest)
    BY <1>1 DEF SoundTask, Idle, Working
  <1>4. Set(p, Idle) \/ Set(p, rest)
    BY DEF Return
  <1> HIDE DEF rest
  <1> QED BY <1>2, <1>3, <1>4, IdleTyped, IdleSound, SetSound DEF TInv

\* Between two calls the operation keeps what it has read.
LEMMA GotoSound ==
  ASSUME Serial, TInv, Sound, NEW p \in Procs, task[p].pc \in Working,
         NEW label \in {"remove", "readd", "modify", "commit"},
         Goto(p, label), UNCHANGED <<now, request, sub>>
  PROVE  Sound'
  <1> DEFINE t == [task[p] EXCEPT !.pc = label]
  <1>1. task[p] \in TaskState /\ SoundTask(task[p])
    BY DEF TInv, TypeOK, Sound
  <1>2. t \in TaskState
    BY <1>1 DEF TaskState, Labels
  <1>3. SoundTask(t)
    BY <1>1 DEF SoundTask, TaskState, Working
  <1> QED BY <1>2, <1>3, SetSound DEF Goto, TInv

\* The calls to TradingView change no table.
LEMMA CallSound ==
  ASSUME Serial, TInv, Sound, NEW p \in Procs,
         AddAccess(p) \/ RemoveAccess(p) \/ ModifyExpiration(p)
  PROVE  Sound'
  <1>1. task[p].pc \in Working /\ UNCHANGED <<now, request, sub>>
    BY DEF AddAccess, RemoveAccess, ModifyExpiration, At, Working
  <1>2. \/ Return(p)
        \/ \E label \in {"remove", "readd", "modify", "commit"} : Goto(p, label)
    BY DEF AddAccess, RemoveAccess, ModifyExpiration, Synced, Exists
  <1> QED BY <1>1, <1>2, ReturnSound, GotoSound

\* The new end computed from a row reaches at least its end.
LEMMA ExpirationExtends ==
  ASSUME TypeOK, NEW i \in Subs, NEW d \in Expiry
  PROVE  Extends(i, calculateExpiration(d, Base(i)))
  <1>1. sub[i].exp \in Expiry /\ now \in Nat
    BY DEF TypeOK, SubRow
  <1>2. i # 0
    BY NatAssumption DEF Subs
  <1> QED BY <1>1, <1>2, AccessAssumption DEF Extends, calculateExpiration, Base, Expiry

-----------------------------------------------------------------------------
(* Every step keeps the goroutine sound.                                   *)

\* A request that arrives has checked what it will rely on.
LEMMA ArriveSound ==
  ASSUME Serial, TInv, Sound, NEW p \in Procs, Arrive(p)
  PROVE  Sound'
  <1> USE DEF TInv
  <1>1. CASE SubmitRequest(p)
    <2>1. PICK a \in Agents, k \in Keys, d \in Durations :
            /\ ~ PendingDuplicate(a, k)
            /\ Set(p, [Idle EXCEPT !.pc = "create", !.op = "submit",
                                   !.agent = a, !.key = k, !.dur = d])
      BY <1>1 DEF SubmitRequest
    <2> DEFINE t == [Idle EXCEPT !.pc = "create", !.op = "submit",
                                 !.agent = a, !.key = k, !.dur = d]
    <2>2. t \in TaskState
      BY DurationTyped DEF Idle, TaskState, Labels, OpNames, Access, Expiry
    <2>3. SoundTask(t)
      BY <2>1 DEF SoundTask, Idle, Working
    <2> HIDE DEF t
    <2> QED BY <1>1, <2>1, <2>2, <2>3, SetSound DEF SubmitRequest, t
  <1>2. ASSUME NEW op \in {"cancel", "reject"}, CloseRequest(p, op)
        PROVE  Sound'
    <2>1. PICK r \in Requests :
            /\ Pending(r)
            /\ Set(p, [Idle EXCEPT !.pc = "close", !.op = op, !.req = r])
      BY <1>2 DEF CloseRequest
    <2> DEFINE t == [Idle EXCEPT !.pc = "close", !.op = op, !.req = r]
    <2>2. t \in TaskState
      BY DEF Idle, TaskState, Labels, OpNames, Access, Expiry
    <2>3. SoundTask(t)
      BY <2>1 DEF SoundTask, Idle, Working
    <2> HIDE DEF t
    <2> QED BY <1>2, <2>1, <2>2, <2>3, SetSound DEF CloseRequest, t
  <1>3. CASE ApproveRequest(p)
    <2>1. PICK r \in Requests :
            /\ Pending(r)
            /\ Set(p, [Idle EXCEPT !.pc = "lookup", !.op = "approve", !.req = r,
                               !.key = request[r].key, !.dur = request[r].dur])
      BY <1>3 DEF ApproveRequest
    <2> DEFINE t == [Idle EXCEPT !.pc = "lookup", !.op = "approve", !.req = r,
                               !.key = request[r].key, !.dur = request[r].dur]
    <2>2. t \in TaskState
      BY DEF Idle, TaskState, Labels, OpNames, Access, Expiry, TypeOK, RequestRow
    <2>3. SoundTask(t)
      BY <2>1 DEF SoundTask, Idle, Working
    <2> HIDE DEF t
    <2> QED BY <1>3, <2>1, <2>2, <2>3, SetSound DEF ApproveRequest, t
  <1>4. CASE DirectGrant(p)
    <2>1. PICK k \in Keys, d \in Durations :
            /\ ActiveSubs(k) = {}
            /\ Set(p, [Idle EXCEPT !.pc = "snapshot", !.op = "grant", !.key = k,
                                   !.exp = calculateExpiration(d, now)])
      BY <1>4 DEF DirectGrant
    <2> DEFINE e == calculateExpiration(d, now)
               t == [Idle EXCEPT !.pc = "snapshot", !.op = "grant", !.key = k,
                                 !.exp = e]
    <2>2. e \in Expiry
      BY DurationTyped, ExpirationTyped
    <2> HIDE DEF e
    <2>3. t \in TaskState
      BY <2>2 DEF Idle, TaskState, Labels, OpNames, Access, Expiry
    <2>4. SoundTask(t)
      BY <2>1 DEF SoundTask, Idle, Working
    <2> HIDE DEF t
    <2> QED BY <1>4, <2>1, <2>3, <2>4, SetSound DEF DirectGrant, e, t
  <1>5. CASE DirectRenew(p)
    <2>1. PICK i \in Subs, d \in Durations :
            /\ sub[i].status = "active"
            /\ Set(p, [Idle EXCEPT
                        !.pc = IF calculateExpiration(d, Base(i)) = Lifetime
                               THEN "remove" ELSE "modify",
                        !.op = "renew", !.key = sub[i].key, !.sub = i,
                        !.exp = calculateExpiration(d, Base(i))])
      BY <1>5 DEF DirectRenew
    <2> DEFINE e == calculateExpiration(d, Base(i))
               t == [Idle EXCEPT !.pc = IF e = Lifetime THEN "remove" ELSE "modify",
                        !.op = "renew", !.key = sub[i].key, !.sub = i, !.exp = e]
    <2>2. e \in Expiry /\ Extends(i, e) /\ sub[i].key \in Keys \cup {NoKey}
      BY DurationTyped, ExpirationTyped, ExpirationExtends DEF TypeOK, SubRow
    <2> HIDE DEF e
    <2>3. t \in TaskState
      BY <2>2 DEF Idle, TaskState, Labels, OpNames, Access, Expiry
    <2>4. SoundTask(t)
      BY <2>1, <2>2 DEF SoundTask, Idle, Working
    <2> HIDE DEF t
    <2> QED BY <1>5, <2>1, <2>3, <2>4, SetSound DEF DirectRenew, e, t
  <1>6. CASE Revoke(p)
    <2>1. PICK i \in Subs :
            Set(p, [Idle EXCEPT !.pc = "remove", !.op = "revoke",
                                !.key = sub[i].key, !.sub = i])
      BY <1>6 DEF Revoke
    <2> DEFINE t == [Idle EXCEPT !.pc = "remove", !.op = "revoke",
                                 !.key = sub[i].key, !.sub = i]
    <2>2. t \in TaskState
      BY DEF Idle, TaskState, Labels, OpNames, Access, Expiry, TypeOK, SubRow
    <2>3. SoundTask(t)
      BY DEF SoundTask, Idle, Working
    <2> HIDE DEF t
    <2> QED BY <1>6, <2>1, <2>2, <2>3, SetSound DEF Revoke, t
  <1> QED BY <1>1, <1>2, <1>3, <1>4, <1>5, <1>6 DEF Arrive

\* The query of the expiry job returns overdue rows only.
LEMMA ScanSound ==
  ASSUME Serial, TInv, Sound, NEW p \in Procs, RevokeExpired(p)
  PROVE  Sound'
  <1> DEFINE expired == {i \in Subs : Overdue(i)}
             t == [Idle EXCEPT !.pc = "scan", !.op = "expire", !.todo = expired]
  <1>1. Set(p, Idle) \/ Set(p, t)
    BY DEF RevokeExpired
  <1>2. expired \in SUBSET Subs /\ \A i \in expired : Late(i)
    BY DEF Overdue, Late
  <1> HIDE DEF expired
  <1>3. t \in TaskState
    BY <1>2 DEF Idle, TaskState, Labels, OpNames, Access, Expiry
  <1>4. SoundTask(t)
    BY <1>2 DEF SoundTask, Idle, Working
  <1> HIDE DEF t
  <1> QED BY <1>1, <1>3, <1>4, IdleTyped, IdleSound, SetSound
          DEF RevokeExpired, TInv

\* Reads and moves within an operation.
LEMMA LocalSound ==
  ASSUME Serial, TInv, Sound, NEW p \in Procs,
         \/ FindActive(p) \/ Refuse(p) \/ RevokeNext(p)
         \/ snapshotTradingViewAccess(p)
  PROVE  Sound'
  <1> USE DEF TInv
  <1>0. task[p] \in TaskState /\ SoundTask(task[p])
    BY DEF TypeOK, Sound
  <1>1. CASE FindActive(p)
    <2>1. PICK i \in Subs \cup {0} :
            /\ IsFirstActive(i, task[p].key)
            /\ Set(p, [task[p] EXCEPT !.pc = "snapshot", !.sub = i,
                      !.exp = calculateExpiration(task[p].dur, Base(i))])
      BY <1>1 DEF FindActive
    <2> DEFINE e == calculateExpiration(task[p].dur, Base(i))
               t == [task[p] EXCEPT !.pc = "snapshot", !.sub = i, !.exp = e]
    <2>2. e \in Expiry /\ (i # 0 => Extends(i, e))
      BY <1>0, ExpirationTyped, ExpirationExtends DEF TaskState
    <2> HIDE DEF e
    <2>3. t \in TaskState
      BY <1>0, <2>2 DEF TaskState, Labels, Access
    <2>4. SoundTask(t)
      BY <1>0, <1>1, <2>1, <2>2 DEF SoundTask, FindActive, At, TaskState, Working
    <2> HIDE DEF t
    <2> QED BY <1>1, <2>1, <2>3, <2>4, SetSound DEF FindActive, e, t
  <1>2. CASE Refuse(p)
    BY <1>2, ReturnSound DEF Refuse
  <1>3. CASE RevokeNext(p)
    <2>1. PICK i \in task[p].todo :
            Set(p, [task[p] EXCEPT !.pc = "remove", !.key = sub[i].key,
                                   !.sub = i, !.todo = @ \ {i}])
      BY <1>3 DEF RevokeNext
    <2> DEFINE t == [task[p] EXCEPT !.pc = "remove", !.key = sub[i].key,
                                    !.sub = i, !.todo = @ \ {i}]
    <2>2. /\ i \in Subs /\ sub[i].key \in Keys \cup {NoKey} /\ Late(i)
          /\ task[p].todo \ {i} \in SUBSET Subs
          /\ task[p].op = "expire"
      BY <1>0, <1>3 DEF TypeOK, SubRow, TaskState, SoundTask, RevokeNext, At
    <2>3. t \in TaskState
      <3>1. [task[p] EXCEPT !.pc = "remove", !.key = sub[i].key, !.sub = i]
              \in TaskState
        BY <1>0, <2>2 DEF TaskState, Labels
      <3> QED BY <1>0, <2>2, <3>1 DEF TaskState
    <2>4. SoundTask(t)
      BY <1>0, <2>2 DEF SoundTask, TaskState, Working
    <2> HIDE DEF t
    <2> QED BY <1>3, <2>1, <2>3, <2>4, SetSound DEF RevokeNext, t
  <1>4. CASE snapshotTradingViewAccess(p)
    <2> DEFINE t == [task[p] EXCEPT !.pc = "add", !.snap = remote[task[p].key]]
    <2>1. remote[task[p].key] \in Access
      BY <1>4 DEF snapshotTradingViewAccess, At, TaskTyped, TypedTask, TypeOK
    <2>2. t \in TaskState
      BY <1>0, <2>1 DEF TaskState, Labels
    <2>3. SoundTask(t)
      BY <1>0, <1>4
         DEF SoundTask, snapshotTradingViewAccess, At, TaskState, Working
    <2>4. Set(p, t)
      BY <1>4 DEF snapshotTradingViewAccess
    <2> HIDE DEF t
    <2> QED BY <1>4, <2>2, <2>3, <2>4, SetSound DEF snapshotTradingViewAccess
  <1> QED BY <1>1, <1>2, <1>3, <1>4

-----------------------------------------------------------------------------
(* Writes.                                                                 *)

\* A goroutine that is sound against the tables it has just written.
LEMMA SetSoundAfter ==
  ASSUME Serial, TypeOK, NEW p \in Procs, NEW t \in TaskState, Set(p, t),
         SoundTask(t)'
  PROVE  Sound'
  <1>1. \A q \in Procs : task'[q] = t
    BY DEF Serial, Set, TypeOK
  <1> QED BY <1>1 DEF Sound, SoundTask

\* The same of the idle goroutine, after any write.
LEMMA IdleSoundAfter == SoundTask(Idle)'
  BY DEF SoundTask, Idle, Working

\* A compensation depends on no table.
LEMMA CompensateSound ==
  ASSUME Serial, TInv, Sound, NEW p \in Procs, Compensate(p),
         task[p].op \in {"approve", "grant"}
  PROVE  Sound'
  <1> DEFINE back == [task[p] EXCEPT !.exp = task[p].snap, !.undo = TRUE]
             t == [back EXCEPT !.pc = FirstCall(back)]
  <1>1. task[p] \in TaskState /\ task[p].todo = {}
    BY DEF TInv, TypeOK, Sound, SoundTask
  <1>2. t \in TaskState
    BY <1>1 DEF TaskState, FirstCall, Labels
  <1>3. t.op \in {"approve", "grant"} /\ t.undo /\ t.todo = {}
        /\ t.pc \in {"add", "remove"}
    BY <1>1 DEF TaskState, FirstCall
  <1>4. Set(p, t)
    BY DEF Compensate
  <1> HIDE DEF t
  <1>5. PICK u \in TaskState : u = t
    BY <1>2
  <1>6. SoundTask(u)'
    BY <1>3, <1>5 DEF SoundTask, Working
  <1> QED BY <1>4, <1>5, <1>6, SetSoundAfter DEF TInv

\* Outside an expiry scan, returning leaves nothing behind.
LEMMA ReturnIdle ==
  ASSUME Serial, TInv, Sound, NEW p \in Procs, Return(p), task[p].op # "expire"
  PROVE  Sound'
  <1>1. task[p].todo = {}
    BY DEF Sound, SoundTask
  <1>2. Set(p, Idle)
    BY <1>1 DEF Return
  <1> QED BY <1>2, IdleTyped, IdleSoundAfter, SetSoundAfter DEF TInv

\* After a commit the goroutine relies on nothing the commit changed.
LEMMA CommitSound ==
  ASSUME Serial, TInv, Sound, NEW p \in Procs, Commit(p)
  PROVE  Sound'
  <1>0. /\ task[p] \in TaskState /\ SoundTask(task[p]) /\ task[p].pc = "commit"
        /\ sub \in [Subs -> SubRow] /\ now' = now
    BY DEF TInv, TypeOK, Sound, Commit, At
  <1>1. CASE UNCHANGED <<now, request, sub>>
    <2>1. CASE Return(p)
      BY <1>1, <2>1, ReturnSound
    <2>2. CASE Compensate(p)
      BY <1>1, <2>2, CompensateSound, ReturnSound DEF Compensate
    <2> QED BY <2>1, <2>2 DEF Commit
  <1>2. CASE task[p].op # "expire"
    BY <1>2, CompensateSound, ReturnIdle DEF Commit, Compensate
  <1>3. CASE task[p].op = "expire" /\ MarkEnded(task[p], "expired")
    <2>1. PICK todo \in SUBSET Subs : todo = task[p].todo
      BY <1>0 DEF TaskState
    <2>2. \A i \in todo : Late(i) /\ i # task[p].sub
      BY <1>0, <1>3, <2>1 DEF TaskState, SoundTask
    <2>3. \A i \in todo : Late(i)'
      BY <1>0, <1>3, <2>2 DEF Late, MarkEnded
    <2> DEFINE rest == [Idle EXCEPT !.pc = "scan", !.op = "expire", !.todo = todo]
    <2>4. rest \in TaskState
      BY DEF Idle, TaskState, Labels, OpNames, Access, Expiry
    <2>5. SoundTask(rest)'
      BY <2>3 DEF SoundTask, Idle, Working
    <2>6. Set(p, Idle) \/ Set(p, rest)
      BY <1>3, <2>1 DEF Commit, Compensate, Return
    <2> HIDE DEF rest
    <2> QED BY <2>4, <2>5, <2>6, IdleTyped, IdleSoundAfter, SetSoundAfter DEF TInv
  <1> QED BY <1>1, <1>2, <1>3 DEF Commit, Write

\* Submission, cancellation and rejection return once they have written.
LEMMA RequestSound ==
  ASSUME Serial, TInv, Sound, NEW p \in Procs, CreateRequest(p) \/ CommitClose(p)
  PROVE  Sound'
  <1>1. task[p].op # "expire" /\ Return(p)
    BY DEF Sound, SoundTask, CreateRequest, CommitClose, At
  <1> QED BY <1>1, ReturnIdle

\* The steps of a busy goroutine together.
LEMMA StepSound ==
  ASSUME Serial, TInv, Sound, NEW p \in Procs, Step(p)
  PROVE  Sound'
  BY RequestSound, LocalSound, CallSound, CommitSound DEF Step

\* Late rows stay late while the clock runs.
LEMMA TickSound ==
  ASSUME TInv, Sound, Tick
  PROVE  Sound'
  <1>1. \A i \in Subs : Late(i) => Late(i)'
    BY AccessAssumption DEF Tick, Late, TInv, TypeOK, SubRow, Expiry
  <1>2. \A p \in Procs : task[p].todo \in SUBSET Subs
    BY DEF TInv, TypeOK, TaskState
  <1>3. SUFFICES ASSUME NEW p \in Procs PROVE SoundTask(task[p])'
    BY DEF Sound
  <1>4. SoundTask(task[p]) /\ task' = task /\ UNCHANGED <<request, sub>>
    BY DEF Sound, Tick
  <1> QED BY <1>1, <1>2, <1>4
          DEF SoundTask, Extends, PendingDuplicate, Pending, IsFirstActive,
              ActiveSubs

\* Soundness is inductive: no step but a goroutine's own changes a table.
LEMMA SoundStep == Serial /\ TInv /\ Sound /\ [Next]_vars => Sound'
  <1> SUFFICES ASSUME Serial, TInv, Sound, [Next]_vars PROVE Sound'
    OBVIOUS
  <1>1. CASE Crash
    <2>1. \A p \in Procs : task'[p] = Idle
      BY <1>1 DEF Crash
    <2> QED BY <2>1, IdleSoundAfter DEF Sound, SoundTask
  <1>2. CASE UNCHANGED vars
    BY <1>2 DEF vars, Sound, SoundTask, Extends, PendingDuplicate, Pending,
                IsFirstActive, ActiveSubs, Late
  <1> QED BY <1>1, <1>2, StepSound, ArriveSound, ScanSound, TickSound
          DEF Next, Procs

-----------------------------------------------------------------------------
(* The tables.                                                             *)

\* Which rows a commit may touch.
LEMMA SerialCommit ==
  ASSUME TInv, Sound, NEW p \in Procs, Commit(p), Write(task[p])
  PROVE  \/ /\ task[p].op = "approve"
            /\ task[p].req \in Requests /\ Pending(task[p].req)
            /\ IsFirstActive(task[p].sub, task[p].key)
            /\ task[p].sub # 0 => Extends(task[p].sub, task[p].exp)
            /\ SaveApproval(task[p])
         \/ /\ task[p].op = "grant"
            /\ ActiveSubs(task[p].key) = {}
            /\ CreateGrant(task[p])
         \/ /\ task[p].op = "renew"
            /\ task[p].sub \in Subs
            /\ Extends(task[p].sub, task[p].exp)
            /\ UpdateExpiration(task[p])
         \/ task[p].op = "revoke" /\ MarkEnded(task[p], "revoked")
         \/ /\ task[p].op = "expire"
            /\ Late(task[p].sub)
            /\ MarkEnded(task[p], "expired")
  <1>1. SoundTask(task[p]) /\ task[p].pc = "commit" /\ ~ task[p].undo
    BY DEF Sound, Commit, At, TInv, TaskTyped, TypedTask
  <1> QED BY <1>1 DEF SoundTask, Write, Working

\* Subscriptions change in a commit and nowhere else.
LEMMA CommitIsTheOnlyWrite ==
  ASSUME [Next]_vars
  PROVE  UNCHANGED sub \/ \E p \in Procs : Commit(p) /\ Write(task[p])
  BY DEF Next, vars, Step, Arrive, CreateRequest, CommitClose, FindActive,
         Refuse, RevokeNext, snapshotTradingViewAccess, AddAccess, RemoveAccess,
         ModifyExpiration, Commit, SubmitRequest, CloseRequest, ApproveRequest,
         DirectGrant, DirectRenew, Revoke, RevokeExpired, Tick, Crash

\* A commit leaves at most one active row for a pair: it writes over the
\* active row it found, or adds one where there was none.
LEMMA OneActiveStep == TInv /\ Sound /\ OneActive /\ [Next]_vars => OneActive'
  <1> SUFFICES ASSUME TInv, Sound, OneActive, [Next]_vars PROVE OneActive'
    OBVIOUS
  <1>0. sub \in [Subs -> SubRow]
    BY DEF TInv, TypeOK
  <1>1. CASE UNCHANGED sub
    BY <1>1 DEF OneActive
  <1>2. ASSUME NEW p \in Procs, Commit(p), Write(task[p]) PROVE OneActive'
    <2>1. CASE /\ IsFirstActive(task[p].sub, task[p].key)
               /\ SaveApproval(task[p])
      <3>1. PICK i \in Subs :
              /\ IF task[p].sub = 0 THEN IsNextRow(sub, i) ELSE i = task[p].sub
              /\ sub' = [sub EXCEPT ![i] = [status |-> "active",
                           key |-> task[p].key, exp |-> task[p].exp,
                           granted |-> TRUE, req |-> task[p].req]]
        BY <2>1 DEF SaveApproval
      <3>2. \A j \in ActiveSubs(task[p].key) : j = i
        BY <2>1, <3>1, NatAssumption DEF IsFirstActive, ActiveSubs, OneActive, Subs
      <3> QED BY <1>0, <3>1, <3>2 DEF OneActive, ActiveSubs
    <2>2. CASE ActiveSubs(task[p].key) = {} /\ CreateGrant(task[p])
      BY <1>0, <2>2 DEF CreateGrant, OneActive, ActiveSubs
    <2>3. CASE UpdateExpiration(task[p])
      BY <1>0, <2>3 DEF UpdateExpiration, OneActive, SubRow
    <2>4. ASSUME NEW status \in {"revoked", "expired"}, MarkEnded(task[p], status)
          PROVE  OneActive'
      BY <1>0, <2>4 DEF MarkEnded, OneActive, SubRow
    <2> QED BY <1>2, <2>1, <2>2, <2>3, <2>4, SerialCommit
  <1> QED BY <1>1, <1>2, CommitIsTheOnlyWrite

\* Requests change when they are filed, closed or approved.
LEMMA RequestWrites ==
  ASSUME [Next]_vars
  PROVE  \/ UNCHANGED request
         \/ \E p \in Procs : \/ CreateRequest(p)
                             \/ CommitClose(p)
                             \/ Commit(p) /\ Write(task[p])
  BY DEF Next, vars, Step, Arrive, FindActive, Refuse, RevokeNext,
         snapshotTradingViewAccess, AddAccess, RemoveAccess, ModifyExpiration,
         Commit, SubmitRequest, CloseRequest, ApproveRequest, DirectGrant,
         DirectRenew, Revoke, RevokeExpired, Tick, Crash

\* The row a step of the three touches: a free one for a new request that has
\* no pending duplicate, or a pending one, which stops being pending.
RequestStep ==
    \/ UNCHANGED request
    \/ \E r \in Requests, row \in RequestRow :
         /\ request[r].status = "none"
         /\ ~ PendingDuplicate(row.agent, row.key)
         /\ request' = [request EXCEPT ![r] = row]
    \/ \E r \in Requests, status \in {"approved", "rejected", "cancelled"} :
         /\ Pending(r)
         /\ request' = [request EXCEPT ![r].status = status]

\* Every step of the system is such a step.
LEMMA RequestStepHolds ==
  ASSUME TInv, Sound, [Next]_vars
  PROVE  RequestStep
  <1>1. ASSUME NEW p \in Procs, CreateRequest(p) PROVE RequestStep
    <2>1. /\ task[p] \in TaskState /\ SoundTask(task[p])
          /\ task[p].pc = "create" /\ TypedTask(task[p])
      BY <1>1 DEF TInv, TypeOK, TaskTyped, Sound, CreateRequest, At
    <2> DEFINE row == [status |-> "pending", agent |-> task[p].agent,
                       key |-> task[p].key, dur |-> task[p].dur]
    <2>2. row \in RequestRow
      BY <2>1 DEF TaskState, RequestRow
    <2>3. ~ PendingDuplicate(row.agent, row.key)
      BY <2>1 DEF SoundTask
    <2>4. \/ UNCHANGED request
          \/ \E r \in Requests : request[r].status = "none"
                                 /\ request' = [request EXCEPT ![r] = row]
      BY <1>1 DEF CreateRequest, IsNextRow
    <2> HIDE DEF row
    <2> QED BY <2>2, <2>3, <2>4 DEF RequestStep
  <1>2. ASSUME NEW p \in Procs, CommitClose(p) PROVE RequestStep
    <2>1. SoundTask(task[p]) /\ task[p].pc = "close"
      BY <1>2 DEF Sound, CommitClose, At
    <2> QED BY <1>2, <2>1 DEF CommitClose, SoundTask, RequestStep
  <1>3. ASSUME NEW p \in Procs, Commit(p), Write(task[p]) PROVE RequestStep
    <2>1. CASE task[p].req \in Requests /\ Pending(task[p].req)
               /\ SaveApproval(task[p])
      BY <2>1 DEF SaveApproval, RequestStep
    <2>2. CASE UNCHANGED request
      BY <2>2 DEF RequestStep
    <2> QED BY <1>3, <2>1, <2>2, SerialCommit
            DEF CreateGrant, UpdateExpiration, MarkEnded
  <1> QED BY <1>1, <1>2, <1>3, RequestWrites DEF RequestStep

\* A new request joins no pending one; a decision only removes one.
LEMMA NoPendingDuplicatesStep ==
  ASSUME TInv, Sound, NoPendingDuplicates, [Next]_vars
  PROVE  NoPendingDuplicates'
  <1>0. request \in [Requests -> RequestRow]
    BY DEF TInv, TypeOK
  <1>1. CASE UNCHANGED request
    BY <1>1 DEF NoPendingDuplicates
  <1>2. ASSUME NEW r \in Requests, NEW row \in RequestRow,
               ~ PendingDuplicate(row.agent, row.key),
               request' = [request EXCEPT ![r] = row]
        PROVE  NoPendingDuplicates'
    BY <1>0, <1>2 DEF NoPendingDuplicates, PendingDuplicate, Pending
  <1>3. ASSUME NEW r \in Requests,
               NEW status \in {"approved", "rejected", "cancelled"},
               request' = [request EXCEPT ![r].status = status]
        PROVE  NoPendingDuplicates'
    BY <1>0, <1>3 DEF NoPendingDuplicates, RequestRow
  <1> QED BY <1>1, <1>2, <1>3, RequestStepHolds DEF RequestStep

\* A request that is decided is neither free nor pending.
LEMMA FinalityStep ==
  ASSUME TInv, Sound, [Next]_vars
  PROVE  \A r \in Requests :
           request[r].status \in {"approved", "rejected", "cancelled"}
           => request'[r].status = request[r].status
  <1>1. request \in [Requests -> RequestRow]
    BY DEF TInv, TypeOK
  <1> QED BY <1>1, RequestStepHolds DEF RequestStep, Pending

\* What a commit does to the end of an active row.
KeepsPaidTime(i) ==
    sub[i].status = "active" /\ sub[i].exp # Lifetime =>
       /\ sub'[i].status = "active" =>
              sub'[i].exp = Lifetime \/ sub'[i].exp >= sub[i].exp
       /\ sub'[i].status = "expired" => sub[i].exp < now

\* Only extensions and the job's late rows are written.
LEMMA PaidTimeStep ==
  ASSUME TInv, Sound, [Next]_vars, NEW i \in Subs
  PROVE  KeepsPaidTime(i)
  <1>0. /\ sub \in [Subs -> SubRow] /\ now \in Nat
        /\ sub[i].exp # Lifetime => sub[i].exp >= sub[i].exp
    BY DEF TInv, TypeOK, SubRow, Expiry
  <1>1. CASE UNCHANGED sub
    BY <1>0, <1>1 DEF KeepsPaidTime
  <1>2. ASSUME NEW p \in Procs, Commit(p), Write(task[p])
        PROVE  KeepsPaidTime(i)
    <2>1. CASE /\ IsFirstActive(task[p].sub, task[p].key)
               /\ task[p].sub # 0 => Extends(task[p].sub, task[p].exp)
               /\ SaveApproval(task[p])
      BY <1>0, <2>1 DEF SaveApproval, Extends, KeepsPaidTime, IsNextRow
    <2>2. CASE CreateGrant(task[p])
      BY <1>0, <2>2 DEF CreateGrant, KeepsPaidTime, IsNextRow
    <2>3. CASE /\ task[p].sub \in Subs /\ Extends(task[p].sub, task[p].exp)
               /\ UpdateExpiration(task[p])
      BY <1>0, <2>3 DEF UpdateExpiration, Extends, KeepsPaidTime, SubRow
    <2>4. CASE MarkEnded(task[p], "revoked")
      BY <1>0, <2>4 DEF MarkEnded, KeepsPaidTime
    <2>5. CASE Late(task[p].sub) /\ MarkEnded(task[p], "expired")
      BY <1>0, <2>5 DEF MarkEnded, Late, KeepsPaidTime
    <2> QED BY <1>2, <2>1, <2>2, <2>3, <2>4, <2>5, SerialCommit
  <1> QED BY <1>1, <1>2, CommitIsTheOnlyWrite

-----------------------------------------------------------------------------
(* The theorems.                                                           *)

\* Initially nobody does anything and the tables are empty.
LEMMA InitSInv == Serial /\ Init => SInv
  <1> SUFFICES ASSUME Serial, Init PROVE SInv
    OBVIOUS
  <1>1. TInv
    BY InitTyped
  <1>2. Sound
    BY IdleSound DEF Init, Sound
  <1>3. OneActive /\ NoPendingDuplicates
    BY DEF Init, OneActive, NoPendingDuplicates, NoSubRow, NoRequestRow
  <1> QED BY <1>1, <1>2, <1>3 DEF SInv

\* The conjunction is inductive.
LEMMA StepSInv == SInv /\ [Next]_vars => SInv'
  <1> SUFFICES ASSUME SInv, [Next]_vars PROVE SInv'
    OBVIOUS
  <1>1. TInv' /\ Sound' /\ OneActive' /\ NoPendingDuplicates'
    BY NextTyped, SoundStep, OneActiveStep, NoPendingDuplicatesStep DEF SInv
  <1>2. Serial'
    BY DEF SInv, Serial
  <1> QED BY <1>1, <1>2 DEF SInv

\* ErrSubscriptionExists: operations that do not overlap never leave two
\* active subscriptions of one customer and script, whatever fails.
THEOREM SerialOneActive == Serial => (Spec => []OneActive)
  <1>1. SInv => OneActive
    BY DEF SInv
  <1> QED BY <1>1, InitSInv, StepSInv, PTL DEF Spec

\* ensureNoPendingDuplicate: nor two pending requests of one agent for one
\* customer and script.
THEOREM SerialNoDuplicates == Serial => (Spec => []NoPendingDuplicates)
  <1>1. SInv => NoPendingDuplicates
    BY DEF SInv
  <1> QED BY <1>1, InitSInv, StepSInv, PTL DEF Spec

\* ErrRequestStatus: a decision is final when operations do not overlap.
THEOREM SerialFinality == Serial => (Spec => RequestFinality)
  <1> DEFINE A == \A r \in Requests :
                    request[r].status \in {"approved", "rejected", "cancelled"}
                    => request'[r].status = request[r].status
  <1>1. SInv /\ [Next]_vars => [A]_vars
    BY FinalityStep DEF SInv
  <1> QED BY <1>1, InitSInv, StepSInv, PTL DEF Spec, RequestFinality

\* Paid time is never shortened, and expiry takes back only what is over.
THEOREM SerialPaidTime == Serial => (Spec => PaidTimeKept)
  <1> DEFINE A == \A i \in Subs :
         sub[i].status = "active" /\ sub[i].exp # Lifetime =>
            /\ sub'[i].status = "active" =>
                   sub'[i].exp = Lifetime \/ sub'[i].exp >= sub[i].exp
            /\ sub'[i].status = "expired" => sub[i].exp < now
  <1>1. SInv /\ [Next]_vars => [A]_vars
    BY PaidTimeStep DEF SInv, KeepsPaidTime
  <1> QED BY <1>1, InitSInv, StepSInv, PTL DEF Spec, PaidTimeKept
-----------------------------------------------------------------------------
(* TradingView and the goroutine that is calling it.                       *)

\* How far the calls of an operation have got: which of them an operation
\* makes, on whose row, and what TradingView holds when each of them is next.
\* At the commit it holds exactly what is about to be written down.
CallTask(t) ==
    /\ t.op \in {"revoke", "expire"} => t.exp = NoAccess
    /\ t.pc \in {"snapshot", "add", "readd", "modify"} =>
           t.op \in {"approve", "grant", "renew"}
    /\ t.pc \in {"remove", "commit"} =>
           t.op \in {"approve", "grant", "renew", "revoke", "expire"}
    /\ t.pc \in Working => t.key \in Keys
    /\ t.op \in {"renew", "revoke", "expire"} /\ t.pc # "scan" =>
           t.sub \in Subs /\ sub[t.sub].key = t.key
    /\ t.pc \in {"add", "modify"} => t.exp # NoAccess
    /\ t.pc = "remove" => t.exp \in {NoAccess, Lifetime}
    /\ t.pc = "readd" => ~ Holds(t.key) /\ t.exp = Lifetime
    /\ t.pc = "modify" /\ t.op # "renew" => Holds(t.key)
    /\ t.pc = "commit" => remote[t.key] = t.exp

Calling == \A p \in Procs : CallTask(task[p])

\* A row that was ever written is about a real pair.
RowKeys == \A i \in Subs : sub[i].status # "none" => sub[i].key \in Keys

CInv == SInv /\ Calling /\ RowKeys

\* A goroutine whose calls fit the state its step leaves.
LEMMA SetCalling ==
  ASSUME Serial, TypeOK, NEW p \in Procs, NEW t \in TaskState, Set(p, t),
         CallTask(t)'
  PROVE  Calling'
  <1>1. \A q \in Procs : task'[q] = t
    BY DEF Serial, Set, TypeOK
  <1> QED BY <1>1 DEF Calling, CallTask

\* The same where neither the rows nor the access change.
LEMMA SetCallingStill ==
  ASSUME Serial, TypeOK, NEW p \in Procs, NEW t \in TaskState, Set(p, t),
         CallTask(t), UNCHANGED <<sub, remote>>
  PROVE  Calling'
  <1>1. CallTask(t)'
    BY DEF CallTask, Holds
  <1> QED BY <1>1, SetCalling

\* Nothing is called by a goroutine that has returned.
LEMMA ReturnCalling ==
  ASSUME Serial, TInv, NEW p \in Procs, Return(p)
  PROVE  Calling'
  <1> DEFINE todo == task[p].todo
             rest == [Idle EXCEPT !.pc = "scan", !.op = "expire", !.todo = todo]
  <1>1. todo \in SUBSET Subs
    BY DEF TInv, TypeOK, TaskState
  <1>2. Set(p, Idle) \/ Set(p, rest)
    BY DEF Return
  <1> HIDE DEF todo
  <1>3. rest \in TaskState /\ Idle \in TaskState
    BY <1>1, IdleTyped DEF Idle, TaskState, Labels, OpNames, Access, Expiry
  <1>4. /\ rest.op = "expire" /\ rest.exp = NoAccess /\ rest.pc = "scan"
        /\ Idle.op = "none" /\ Idle.pc = "idle"
    BY DEF Idle
  <1> HIDE DEF rest
  <1>5. CASE Set(p, Idle)
    <2>1. CallTask(Idle)'
      BY DEF CallTask, Idle, Working
    <2> QED BY <1>5, <2>1, IdleTyped, SetCalling DEF TInv
  <1>6. CASE Set(p, rest)
    <2>1. PICK u \in TaskState : u = rest
      BY <1>3
    <2>2. CallTask(u)'
      BY <1>4, <2>1 DEF CallTask, Working
    <2> QED BY <1>6, <2>1, <2>2, SetCalling DEF TInv
  <1> QED BY <1>2, <1>5, <1>6

\* The next call of the same operation.
LEMMA GotoCalling ==
  ASSUME CInv, NEW p \in Procs, task[p].pc \in Working,
         NEW label \in {"remove", "readd", "modify", "commit"}, Goto(p, label),
         UNCHANGED sub,
         label # "remove" => (task[p].op \in {"approve", "grant", "renew"}
                              \/ label = "commit"),
         label = "remove" => task[p].exp \in {NoAccess, Lifetime},
         label = "readd" => remote'[task[p].key] = NoAccess
                            /\ task[p].exp = Lifetime,
         label = "modify" => remote'[task[p].key] # NoAccess
                             /\ task[p].exp # NoAccess,
         label = "commit" => remote'[task[p].key] = task[p].exp
  PROVE  Calling'
  <1> DEFINE t == [task[p] EXCEPT !.pc = label]
  <1>1. /\ task[p] \in TaskState /\ CallTask(task[p])
        /\ task[p].pc = "scan" => task[p].op = "expire"
    BY DEF CInv, SInv, TInv, TypeOK, Calling, TaskTyped, TypedTask
  <1>2. t \in TaskState
    BY <1>1 DEF TaskState, Labels
  <1>3. PICK u \in TaskState : u = t
    BY <1>2
  <1>4. /\ u.pc = label /\ u.op = task[p].op /\ u.key = task[p].key
        /\ u.sub = task[p].sub /\ u.exp = task[p].exp
    BY <1>1, <1>3 DEF TaskState
  <1>5. task[p].op \in {"approve", "grant", "renew", "revoke", "expire"}
    BY <1>1 DEF CallTask, Working
  <1>6. CallTask(u)'
    BY <1>1, <1>4, <1>5 DEF CallTask, Holds, Working
  <1> QED BY <1>3, <1>6, SetCalling DEF Goto, CInv, SInv, TInv

\* The calls.
LEMMA CallCalling ==
  ASSUME CInv, NEW p \in Procs,
         AddAccess(p) \/ RemoveAccess(p) \/ ModifyExpiration(p)
  PROVE  Calling'
  <1>0. /\ Serial /\ TInv /\ task[p] \in TaskState /\ CallTask(task[p])
        /\ remote \in [Keys -> Access]
    BY DEF CInv, SInv, TInv, TypeOK, Calling
  <1>1. CASE Return(p)
    BY <1>0, <1>1, ReturnCalling
  <1>2. CASE AddAccess(p) /\ ~ Return(p)
    <2>1. /\ task[p].pc \in Working /\ UNCHANGED sub
          /\ task[p].pc \in {"add", "readd"}
      BY <1>2 DEF AddAccess, Working
    <2>2. /\ task[p].key \in Keys /\ task[p].exp # NoAccess
          /\ task[p].op \in {"approve", "grant", "renew"}
      BY <1>0, <2>1, AccessAssumption DEF CallTask
    <2>3. CASE Hold(task[p].key, task[p].exp) /\ Synced(p)
      <3>1. Goto(p, "commit")
        BY <1>2, <2>3 DEF Synced
      <3>2. remote'[task[p].key] = task[p].exp
        BY <1>0, <2>2, <2>3 DEF Hold
      <3> QED BY <2>1, <3>1, <3>2, GotoCalling
    <2>4. CASE remote'[task[p].key] # NoAccess /\ Exists(p)
      <3>1. CASE task[p].exp = Lifetime
        BY <1>2, <2>1, <2>4, <3>1, GotoCalling DEF Exists
      <3>2. CASE task[p].exp # Lifetime
        BY <1>2, <2>1, <2>2, <2>4, <3>2, GotoCalling DEF Exists
      <3> QED BY <3>1, <3>2
    <2> QED BY <1>0, <1>2, <2>2, <2>3, <2>4 DEF AddAccess, Hold, Holds
  <1>3. CASE RemoveAccess(p) /\ ~ Return(p)
    <2>1. /\ task[p].pc \in Working /\ UNCHANGED sub /\ task[p].pc = "remove"
          /\ Hold(task[p].key, NoAccess)
          /\ IF task[p].exp = Lifetime THEN Goto(p, "readd") ELSE Synced(p)
      BY <1>3 DEF RemoveAccess, Working, At
    <2>2. remote'[task[p].key] = NoAccess
      BY <1>0, <2>1 DEF CallTask, Hold
    <2>3. CASE task[p].exp = Lifetime
      <3>1. task[p].op \in {"approve", "grant", "renew"}
        BY <1>0, <2>1, <2>3, AccessAssumption DEF CallTask
      <3> QED BY <2>1, <2>2, <2>3, <3>1, GotoCalling
    <2>4. CASE task[p].exp # Lifetime
      <3>1. task[p].exp = NoAccess
        BY <1>0, <2>1, <2>4 DEF CallTask
      <3> QED BY <1>3, <2>1, <2>2, <2>4, <3>1, GotoCalling DEF Synced
    <2> QED BY <2>3, <2>4
  <1>4. CASE ModifyExpiration(p) /\ ~ Return(p)
    <2>1. /\ task[p].pc \in Working /\ UNCHANGED sub /\ task[p].pc = "modify"
          /\ Hold(task[p].key, task[p].exp) /\ Goto(p, "commit")
      BY <1>4 DEF ModifyExpiration, Working, At, Synced
    <2>2. remote'[task[p].key] = task[p].exp
      BY <1>0, <2>1 DEF CallTask, Hold
    <2> QED BY <2>1, <2>2, GotoCalling
  <1> QED BY <1>1, <1>2, <1>3, <1>4

\* An operation that starts has nothing to call yet, or the row it works on.
LEMMA ArriveCalling ==
  ASSUME CInv, NEW p \in Procs, Arrive(p)
  PROVE  Calling'
  <1> USE DEF CInv, SInv, TInv
  <1>0. sub \in [Subs -> SubRow] /\ UNCHANGED <<sub, remote>>
    BY DEF TypeOK, Arrive, SubmitRequest, CloseRequest, ApproveRequest,
           DirectGrant, DirectRenew, Revoke
  <1>1. ASSUME NEW t \in TaskState, Set(p, t),
               t.pc \in {"create", "close", "lookup"},
               t.op \in {"submit", "cancel", "reject", "approve"}
        PROVE  Calling'
    <2>1. CallTask(t)
      BY <1>1 DEF CallTask, Working
    <2> QED BY <1>0, <1>1, <2>1, SetCallingStill
  <1>2. CASE SubmitRequest(p)
    <2>1. PICK a \in Agents, k \in Keys, d \in Durations :
            Set(p, [Idle EXCEPT !.pc = "create", !.op = "submit",
                                !.agent = a, !.key = k, !.dur = d])
      BY <1>2 DEF SubmitRequest
    <2> DEFINE t == [Idle EXCEPT !.pc = "create", !.op = "submit",
                                 !.agent = a, !.key = k, !.dur = d]
    <2>2. t \in TaskState /\ t.pc = "create" /\ t.op = "submit"
      BY DurationTyped DEF Idle, TaskState, Labels, OpNames, Access, Expiry
    <2> HIDE DEF t
    <2> QED BY <1>1, <2>1, <2>2 DEF t
  <1>3. ASSUME NEW op \in {"cancel", "reject"}, CloseRequest(p, op)
        PROVE  Calling'
    <2>1. PICK r \in Requests :
            Set(p, [Idle EXCEPT !.pc = "close", !.op = op, !.req = r])
      BY <1>3 DEF CloseRequest
    <2> DEFINE t == [Idle EXCEPT !.pc = "close", !.op = op, !.req = r]
    <2>2. t \in TaskState /\ t.pc = "close" /\ t.op = op
      BY DEF Idle, TaskState, Labels, OpNames, Access, Expiry
    <2> HIDE DEF t
    <2> QED BY <1>1, <2>1, <2>2 DEF t
  <1>4. CASE ApproveRequest(p)
    <2>1. PICK r \in Requests :
            Set(p, [Idle EXCEPT !.pc = "lookup", !.op = "approve", !.req = r,
                               !.key = request[r].key, !.dur = request[r].dur])
      BY <1>4 DEF ApproveRequest
    <2> DEFINE t == [Idle EXCEPT !.pc = "lookup", !.op = "approve", !.req = r,
                               !.key = request[r].key, !.dur = request[r].dur]
    <2>2. t \in TaskState /\ t.pc = "lookup" /\ t.op = "approve"
      BY DEF Idle, TaskState, Labels, OpNames, Access, Expiry, TypeOK, RequestRow
    <2> HIDE DEF t
    <2> QED BY <1>1, <2>1, <2>2 DEF t
  <1>5. CASE DirectGrant(p)
    <2>1. PICK k \in Keys, d \in Durations :
            Set(p, [Idle EXCEPT !.pc = "snapshot", !.op = "grant", !.key = k,
                                !.exp = calculateExpiration(d, now)])
      BY <1>5 DEF DirectGrant
    <2> DEFINE e == calculateExpiration(d, now)
               t == [Idle EXCEPT !.pc = "snapshot", !.op = "grant", !.key = k,
                                 !.exp = e]
    <2>2. e \in Expiry
      BY DurationTyped, ExpirationTyped
    <2> HIDE DEF e
    <2>3. t \in TaskState
      BY <2>2 DEF Idle, TaskState, Labels, OpNames, Access, Expiry
    <2>4. CallTask(t)
      BY DEF CallTask, Idle, Working
    <2> HIDE DEF t
    <2> QED BY <1>0, <2>1, <2>3, <2>4, SetCallingStill DEF e, t
  <1>6. CASE DirectRenew(p)
    <2>1. PICK i \in Subs, d \in Durations :
            /\ sub[i].status = "active"
            /\ Set(p, [Idle EXCEPT
                        !.pc = IF calculateExpiration(d, Base(i)) = Lifetime
                               THEN "remove" ELSE "modify",
                        !.op = "renew", !.key = sub[i].key, !.sub = i,
                        !.exp = calculateExpiration(d, Base(i))])
      BY <1>6 DEF DirectRenew
    <2> DEFINE e == calculateExpiration(d, Base(i))
               t == [Idle EXCEPT !.pc = IF e = Lifetime THEN "remove" ELSE "modify",
                        !.op = "renew", !.key = sub[i].key, !.sub = i, !.exp = e]
    <2>2. e \in Expiry /\ sub[i].key \in Keys
      BY <2>1, DurationTyped, ExpirationTyped DEF RowKeys
    <2> HIDE DEF e
    <2>3. t \in TaskState
      BY <2>2 DEF Idle, TaskState, Labels, OpNames, Access, Expiry
    <2>4. CallTask(t)
      BY <2>2, AccessAssumption DEF CallTask, Idle, Working, Expiry
    <2> HIDE DEF t
    <2> QED BY <1>0, <2>1, <2>3, <2>4, SetCallingStill DEF e, t
  <1>7. CASE Revoke(p)
    <2>1. PICK i \in Subs :
            /\ sub[i].status # "none"
            /\ Set(p, [Idle EXCEPT !.pc = "remove", !.op = "revoke",
                                   !.key = sub[i].key, !.sub = i])
      BY <1>7 DEF Revoke
    <2> DEFINE t == [Idle EXCEPT !.pc = "remove", !.op = "revoke",
                                 !.key = sub[i].key, !.sub = i]
    <2>2. sub[i].key \in Keys
      BY <2>1 DEF RowKeys
    <2>3. t \in TaskState
      BY <2>2 DEF Idle, TaskState, Labels, OpNames, Access, Expiry
    <2>4. CallTask(t)
      BY <2>2 DEF CallTask, Idle, Working
    <2> HIDE DEF t
    <2> QED BY <1>0, <2>1, <2>3, <2>4, SetCallingStill DEF t
  <1> QED BY <1>2, <1>3, <1>4, <1>5, <1>6, <1>7 DEF Arrive

\* The start of the expiry job, and the reads of an operation under way.
LEMMA LocalCalling ==
  ASSUME CInv, NEW p \in Procs,
         \/ RevokeExpired(p) \/ FindActive(p) \/ RevokeNext(p)
         \/ snapshotTradingViewAccess(p)
  PROVE  Calling'
  <1> USE DEF CInv, SInv, TInv
  <1>0. /\ sub \in [Subs -> SubRow] /\ UNCHANGED <<sub, remote>>
        /\ task[p] \in TaskState /\ SoundTask(task[p]) /\ CallTask(task[p])
        /\ TypedTask(task[p])
    BY DEF TypeOK, RevokeExpired, FindActive, RevokeNext, Sound, Calling,
           snapshotTradingViewAccess, TaskTyped
  <1>1. CASE RevokeExpired(p)
    <2> DEFINE expired == {i \in Subs : Overdue(i)}
               t == [Idle EXCEPT !.pc = "scan", !.op = "expire", !.todo = expired]
    <2>1. Set(p, Idle) \/ Set(p, t)
      BY <1>1 DEF RevokeExpired
    <2>2. expired \in SUBSET Subs
      OBVIOUS
    <2> HIDE DEF expired
    <2>3. t \in TaskState
      BY <2>2 DEF Idle, TaskState, Labels, OpNames, Access, Expiry
    <2>4. CallTask(t) /\ CallTask(Idle)
      BY DEF CallTask, Idle, Working
    <2> HIDE DEF t
    <2> QED BY <1>0, <2>1, <2>3, <2>4, IdleTyped, SetCallingStill
  <1>2. CASE FindActive(p)
    <2>1. PICK i \in Subs \cup {0} :
            Set(p, [task[p] EXCEPT !.pc = "snapshot", !.sub = i,
                      !.exp = calculateExpiration(task[p].dur, Base(i))])
      BY <1>2 DEF FindActive
    <2> DEFINE e == calculateExpiration(task[p].dur, Base(i))
               t == [task[p] EXCEPT !.pc = "snapshot", !.sub = i, !.exp = e]
    <2>2. e \in Expiry
      BY <1>0, ExpirationTyped DEF TaskState
    <2> HIDE DEF e
    <2>3. t \in TaskState
      BY <1>0, <2>2 DEF TaskState, Labels, Access
    <2>4. CallTask(t)
      BY <1>0, <1>2
         DEF CallTask, SoundTask, TypedTask, FindActive, At, TaskState, Working
    <2> HIDE DEF t
    <2> QED BY <1>0, <2>1, <2>3, <2>4, SetCallingStill DEF e, t
  <1>3. CASE RevokeNext(p)
    <2>1. PICK i \in task[p].todo :
            Set(p, [task[p] EXCEPT !.pc = "remove", !.key = sub[i].key,
                                   !.sub = i, !.todo = @ \ {i}])
      BY <1>3 DEF RevokeNext
    <2> DEFINE t == [task[p] EXCEPT !.pc = "remove", !.key = sub[i].key,
                                    !.sub = i, !.todo = @ \ {i}]
    <2>2. /\ i \in Subs /\ Late(i) /\ task[p].todo \ {i} \in SUBSET Subs
          /\ task[p].op = "expire"
      BY <1>0, <1>3 DEF TaskState, SoundTask, RevokeNext, At
    <2>3. sub[i].key \in Keys
      BY <2>2 DEF Late, RowKeys
    <2>4. t \in TaskState
      <3>1. [task[p] EXCEPT !.pc = "remove", !.key = sub[i].key, !.sub = i]
              \in TaskState
        BY <1>0, <2>2, <2>3 DEF TaskState, Labels
      <3> QED BY <1>0, <2>2, <3>1 DEF TaskState
    <2>5. CallTask(t)
      BY <1>0, <2>2, <2>3 DEF CallTask, TaskState, Working
    <2> HIDE DEF t
    <2> QED BY <1>0, <2>1, <2>4, <2>5, SetCallingStill DEF t
  <1>4. CASE snapshotTradingViewAccess(p)
    <2> DEFINE t == [task[p] EXCEPT !.pc = "add", !.snap = remote[task[p].key]]
    <2>1. /\ task[p].pc = "snapshot" /\ ~ task[p].undo /\ task[p].key \in Keys
          /\ task[p].op \in {"approve", "grant", "renew"}
      BY <1>0, <1>4
         DEF snapshotTradingViewAccess, At, SoundTask, CallTask, Working
    <2>2. remote[task[p].key] \in Access /\ task[p].exp # NoAccess
      BY <1>0, <2>1, AccessAssumption DEF TypeOK, TypedTask, Working, Expiry
    <2>3. t \in TaskState
      BY <1>0, <2>2 DEF TaskState, Labels
    <2>4. CallTask(t)
      BY <1>0, <2>1, <2>2 DEF CallTask, TaskState, Working
    <2>5. Set(p, t)
      BY <1>4 DEF snapshotTradingViewAccess
    <2> HIDE DEF t
    <2> QED BY <1>0, <2>3, <2>4, <2>5, SetCallingStill
  <1> QED BY <1>1, <1>2, <1>3, <1>4

\* A failed commit: the first call of the compensation.
LEMMA CommitCalling ==
  ASSUME CInv, NEW p \in Procs, Commit(p)
  PROVE  Calling'
  <1>0. /\ Serial /\ TInv /\ TypeOK /\ task[p] \in TaskState
        /\ CallTask(task[p]) /\ task[p].pc = "commit"
    BY DEF CInv, SInv, TInv, TypeOK, Calling, Commit, At
  <1>1. CASE Return(p)
    BY <1>0, <1>1, ReturnCalling
  <1>2. CASE Compensate(p) /\ ~ Return(p)
    <2> DEFINE back == [task[p] EXCEPT !.exp = task[p].snap, !.undo = TRUE]
               t == [back EXCEPT !.pc = FirstCall(back)]
    <2>1. task[p].op \in {"approve", "grant"} /\ Set(p, t)
      BY <1>2 DEF Compensate
    <2>2. t \in TaskState
      BY <1>0 DEF TaskState, FirstCall, Labels
    <2>3. /\ t.op = task[p].op /\ t.key = task[p].key
          /\ \/ t.pc = "add" /\ t.exp # NoAccess
             \/ t.pc = "remove" /\ t.exp = NoAccess
      BY <1>0 DEF TaskState, FirstCall
    <2> HIDE DEF t
    <2>4. PICK u \in TaskState : u = t
      BY <2>2
    <2>5. CallTask(u)'
      BY <1>0, <2>1, <2>3, <2>4 DEF CallTask, Working
    <2> QED BY <1>0, <2>1, <2>4, <2>5, SetCalling
  <1> QED BY <1>1, <1>2 DEF Commit

\* A commit writes about the pair of a request or of a row.
LEMMA RowKeysStep ==
  ASSUME CInv, [Next]_vars
  PROVE  RowKeys'
  <1>0. sub \in [Subs -> SubRow] /\ TInv /\ Sound /\ RowKeys
    BY DEF CInv, SInv, TInv, TypeOK
  <1>1. CASE UNCHANGED sub
    BY <1>0, <1>1 DEF RowKeys
  <1>2. ASSUME NEW p \in Procs, Commit(p), Write(task[p]) PROVE RowKeys'
    <2>1. CallTask(task[p]) /\ task[p].pc = "commit"
      BY <1>2 DEF CInv, Calling, Commit, At
    <2>2. task[p].key \in Keys
      BY <2>1 DEF CallTask, Working
    <2>3. task[p].op \in {"renew", "revoke", "expire"} =>
             task[p].sub \in Subs /\ sub[task[p].sub].key = task[p].key
      BY <2>1 DEF CallTask
    <2>4. CASE SaveApproval(task[p])
      BY <1>0, <2>2, <2>4 DEF SaveApproval, RowKeys
    <2>5. CASE CreateGrant(task[p])
      BY <1>0, <2>2, <2>5 DEF CreateGrant, RowKeys
    <2>6. CASE task[p].op = "renew" /\ UpdateExpiration(task[p])
      BY <1>0, <2>6 DEF UpdateExpiration, RowKeys, SubRow
    <2>7. ASSUME NEW status \in {"revoked", "expired"},
                 task[p].op \in {"revoke", "expire"}, MarkEnded(task[p], status)
          PROVE  RowKeys'
      BY <1>0, <2>2, <2>3, <2>7 DEF MarkEnded, RowKeys, SubRow
    <2> QED BY <1>2, <2>4, <2>5, <2>6, <2>7 DEF Write
  <1> QED BY <1>1, <1>2, CommitIsTheOnlyWrite

LEMMA InitCInv == Serial /\ Init => CInv
  <1> SUFFICES ASSUME Serial, Init PROVE CInv
    OBVIOUS
  <1>1. Calling /\ RowKeys
    BY DEF Init, Calling, CallTask, Idle, Working, RowKeys, NoSubRow
  <1> QED BY <1>1, InitSInv DEF CInv

LEMMA StepCInv == CInv /\ [Next]_vars => CInv'
  <1> SUFFICES ASSUME CInv, [Next]_vars PROVE CInv'
    OBVIOUS
  <1>0. Serial /\ TInv
    BY DEF CInv, SInv
  <1>1. ASSUME NEW p \in Procs, Step(p) PROVE Calling'
    BY <1>0, <1>1, ReturnCalling, LocalCalling, CallCalling, CommitCalling
       DEF Step, CreateRequest, CommitClose, Refuse
  <1>2. ASSUME NEW p \in Procs, Arrive(p) \/ RevokeExpired(p) PROVE Calling'
    BY <1>2, ArriveCalling, LocalCalling
  <1>3. ASSUME Crash PROVE Calling'
    <2>1. \A p \in Procs : task'[p] = Idle
      BY <1>3 DEF Crash
    <2>2. CallTask(Idle)'
      BY DEF CallTask, Idle, Working
    <2> QED BY <2>1, <2>2 DEF Calling, CallTask, Holds
  <1>4. ASSUME UNCHANGED <<sub, remote, task>> PROVE Calling'
    <2>1. ASSUME NEW p \in Procs PROVE CallTask(task[p])'
      <3>1. CallTask(task[p])
        BY DEF CInv, Calling
      <3> QED BY <1>4, <3>1 DEF CallTask, Holds
    <2> QED BY <2>1 DEF Calling, CallTask
  <1>5. Calling'
    BY <1>1, <1>2, <1>3, <1>4 DEF Next, Procs, Tick, vars
  <1> QED BY <1>5, RowKeysStep, StepSInv DEF CInv

-----------------------------------------------------------------------------
(* What a commit does to the active rows of each pair.                     *)

\* The other pairs keep their active rows.
LEMMA CommitOthers ==
  ASSUME CInv, NEW p \in Procs, Commit(p), Write(task[p]),
         NEW k, k # task[p].key
  PROVE  /\ ActiveSubs(k)' = ActiveSubs(k)
         /\ \A i \in ActiveSubs(k) : sub'[i].exp = sub[i].exp
  <1>0. /\ sub \in [Subs -> SubRow] /\ TInv /\ Sound
        /\ CallTask(task[p]) /\ task[p].pc = "commit"
    BY DEF CInv, SInv, TInv, TypeOK, Calling, Commit, At
  <1>1. ASSUME NEW i \in Subs, NEW row,
               sub[i].status = "none" \/ sub[i].key = task[p].key,
               row.key = task[p].key, sub' = [sub EXCEPT ![i] = row]
        PROVE  /\ ActiveSubs(k)' = ActiveSubs(k)
               /\ \A j \in ActiveSubs(k) : sub'[j].exp = sub[j].exp
    BY <1>0, <1>1 DEF ActiveSubs
  <1>2. CASE task[p].op = "approve" /\ SaveApproval(task[p])
    <2>1. IsFirstActive(task[p].sub, task[p].key)
      BY <1>0, <1>2, SerialCommit
         DEF Sound, SoundTask, Working, TInv, TaskTyped, TypedTask
    <2>2. PICK i \in Subs :
            /\ IF task[p].sub = 0 THEN IsNextRow(sub, i) ELSE i = task[p].sub
            /\ sub' = [sub EXCEPT ![i] = [status |-> "active",
                         key |-> task[p].key, exp |-> task[p].exp,
                         granted |-> TRUE, req |-> task[p].req]]
      BY <1>2 DEF SaveApproval
    <2>3. sub[i].status = "none" \/ sub[i].key = task[p].key
      BY <2>1, <2>2 DEF IsNextRow, IsFirstActive, ActiveSubs
    <2> QED BY <1>1, <2>2, <2>3
  <1>3. CASE CreateGrant(task[p])
    BY <1>1, <1>3 DEF CreateGrant, IsNextRow
  <1>4. CASE task[p].op \in {"renew", "revoke", "expire"}
    <2>1. task[p].sub \in Subs /\ sub[task[p].sub].key = task[p].key
      BY <1>0, <1>4 DEF CallTask
    <2>2. sub' = [sub EXCEPT ![task[p].sub] = sub'[task[p].sub]]
          /\ sub'[task[p].sub].key = task[p].key
      BY <1>0, <1>4, <2>1 DEF Write, UpdateExpiration, MarkEnded, SubRow
    <2> QED BY <1>1, <2>1, <2>2
  <1> QED BY <1>2, <1>3, <1>4 DEF Write

\* Approval, grant and renewal leave exactly one active row of the pair, with
\* the end TradingView holds.
LEMMA CommitExtends ==
  ASSUME CInv, NEW p \in Procs, Commit(p), Write(task[p]),
         task[p].op \in {"approve", "grant", "renew"}, NEW k, k = task[p].key
  PROVE  \E i \in Subs : ActiveSubs(k)' = {i} /\ sub'[i].exp = task[p].exp
  <1>0. /\ sub \in [Subs -> SubRow] /\ TInv /\ Sound /\ OneActive
        /\ CallTask(task[p]) /\ SoundTask(task[p]) /\ task[p].pc = "commit"
        /\ ~ task[p].undo
    BY DEF CInv, SInv, TInv, TypeOK, Calling, Sound, Commit, At, TaskTyped,
           TypedTask
  <1>1. CASE task[p].op = "approve" /\ SaveApproval(task[p])
    <2>1. IsFirstActive(task[p].sub, task[p].key)
      BY <1>0, <1>1 DEF SoundTask, Working
    <2>2. PICK i \in Subs :
            /\ IF task[p].sub = 0 THEN IsNextRow(sub, i) ELSE i = task[p].sub
            /\ sub' = [sub EXCEPT ![i] = [status |-> "active",
                         key |-> task[p].key, exp |-> task[p].exp,
                         granted |-> TRUE, req |-> task[p].req]]
      BY <1>1 DEF SaveApproval
    <2>3. \A j \in ActiveSubs(task[p].key) : j = i
      BY <1>0, <2>1, <2>2, NatAssumption DEF IsFirstActive, ActiveSubs, OneActive, Subs
    <2> QED BY <1>0, <2>2, <2>3 DEF ActiveSubs
  <1>2. CASE task[p].op = "grant" /\ CreateGrant(task[p])
    <2>1. ActiveSubs(task[p].key) = {}
      BY <1>0, <1>2 DEF SoundTask, Working
    <2> QED BY <1>0, <1>2, <2>1 DEF CreateGrant, ActiveSubs
  <1>3. CASE task[p].op = "renew" /\ UpdateExpiration(task[p])
    <2>1. /\ task[p].sub \in Subs /\ sub[task[p].sub].key = task[p].key
          /\ sub[task[p].sub].status = "active"
      BY <1>0, <1>3 DEF CallTask, SoundTask
    <2>2. \A j \in ActiveSubs(task[p].key) : j = task[p].sub
      BY <1>0, <2>1 DEF ActiveSubs, OneActive
    <2> QED BY <1>0, <1>3, <2>1, <2>2 DEF UpdateExpiration, ActiveSubs, SubRow
  <1> QED BY <1>1, <1>2, <1>3 DEF Write

\* Revocation and expiry end one row of the pair, if it was still active.
LEMMA CommitEnds ==
  ASSUME CInv, NEW p \in Procs, Commit(p), Write(task[p]),
         task[p].op \in {"revoke", "expire"}, NEW k, k = task[p].key
  PROVE  /\ ActiveSubs(k)' = ActiveSubs(k) \ {task[p].sub}
         /\ \A i \in ActiveSubs(k) : sub'[i].exp = sub[i].exp
         /\ UNCHANGED request
  <1>0. /\ sub \in [Subs -> SubRow] /\ CallTask(task[p])
        /\ task[p].pc = "commit"
    BY DEF CInv, SInv, TInv, TypeOK, Calling, Commit, At
  <1>1. task[p].sub \in Subs /\ sub[task[p].sub].key = task[p].key
    BY <1>0 DEF CallTask
  <1> QED BY <1>0, <1>1 DEF Write, MarkEnded, ActiveSubs, SubRow

-----------------------------------------------------------------------------
(* No access without a subscription, as long as nothing fails.             *)

Accounted(k) == Holds(k) => \E i \in ActiveSubs(k) : sub[i].exp = remote[k]

Writing(k) == \E p \in Procs : task[p].pc = "commit" /\ task[p].key = k

\* Every access is accounted for by a row, or by the commit that comes next.
Accounting ==
    faults = 0 => /\ \A p \in Procs : ~ task[p].undo
                  /\ \A k \in Keys : Accounted(k) \/ Writing(k)

\* A step in which nothing fails starts no compensation.
LEMMA QuietClean ==
  ASSUME CInv, \A p \in Procs : ~ task[p].undo, [Next]_vars,
         \A f \in Faults : ~ Fault(f)
  PROVE  \A p \in Procs : ~ task'[p].undo
  <1>0. task \in [Procs -> TaskState] /\ Serial
    BY DEF CInv, SInv, TInv, TypeOK
  <1>1. ASSUME NEW p \in Procs, NEW t, ~ t.undo, Set(p, t)
        PROVE  \A q \in Procs : ~ task'[q].undo
    BY <1>0, <1>1 DEF Serial, Set
  <1>2. ASSUME NEW p \in Procs, Return(p)
        PROVE  \A q \in Procs : ~ task'[q].undo
    BY <1>0, <1>2 DEF Return, Set, Idle
  <1>3. ASSUME NEW p \in Procs, NEW label, Goto(p, label)
        PROVE  \A q \in Procs : ~ task'[q].undo
    BY <1>0, <1>3 DEF Goto, Set, TaskState
  <1>4. ASSUME NEW p \in Procs, AddAccess(p) \/ RemoveAccess(p) \/ ModifyExpiration(p)
        PROVE  \A q \in Procs : ~ task'[q].undo
    <2>1. Return(p) \/ \E label \in Labels : Goto(p, label)
      BY <1>4 DEF AddAccess, RemoveAccess, ModifyExpiration, Synced, Exists, Labels
    <2> QED BY <1>2, <1>3, <2>1
  <1>5. ASSUME NEW p \in Procs, Commit(p)
        PROVE  \A q \in Procs : ~ task'[q].undo
    <2>1. Return(p)
      BY <1>5, OpsAssumption DEF Commit, Fault
    <2> QED BY <1>2, <2>1
  <1>6. ASSUME NEW p \in Procs,
               FindActive(p) \/ RevokeNext(p) \/ snapshotTradingViewAccess(p)
        PROVE  \A q \in Procs : ~ task'[q].undo
    BY <1>0, <1>6
       DEF FindActive, RevokeNext, snapshotTradingViewAccess, Set, TaskState
  <1>7. ASSUME NEW p \in Procs, Step(p)
        PROVE  \A q \in Procs : ~ task'[q].undo
    BY <1>2, <1>4, <1>5, <1>6, <1>7 DEF Step, CreateRequest, CommitClose, Refuse
  <1>8. ASSUME NEW p \in Procs, Arrive(p) \/ RevokeExpired(p)
        PROVE  \A q \in Procs : ~ task'[q].undo
    <2>1. PICK t : ~ t.undo /\ Set(p, t)
      BY <1>8, StartsClean
    <2> QED BY <1>1, <2>1
  <1>9. CASE Tick \/ UNCHANGED vars
    BY <1>9 DEF Tick, vars
  <1>10. CASE Crash
    BY <1>10 DEF Crash, Idle
  <1> QED BY <1>7, <1>8, <1>9, <1>10 DEF Next, Procs

LEMMA AccountingStep ==
  ASSUME CInv, Accounting, [Next]_vars
  PROVE  Accounting'
  <1>0. /\ Serial /\ TypeOK /\ task \in [Procs -> TaskState] /\ faults \in Nat
        /\ remote \in [Keys -> Access] /\ sub \in [Subs -> SubRow]
    BY DEF CInv, SInv, TInv, TypeOK
  <1>1. SUFFICES ASSUME faults' = 0
                 PROVE  /\ \A p \in Procs : ~ task'[p].undo
                        /\ \A k \in Keys : Accounted(k)' \/ Writing(k)'
    BY DEF Accounting
  <1>2. faults = 0 /\ \A f : ~ Fault(f)
    <2>1. \A f : ~ Fault(f)
      BY <1>0, <1>1 DEF Fault
    <2>2. faults' = faults \/ \E f : Fault(f)
      BY DEF Next, vars, Step, Arrive, CreateRequest, CommitClose, FindActive,
             Refuse, RevokeNext, snapshotTradingViewAccess, AddAccess,
             RemoveAccess, ModifyExpiration, Commit, SubmitRequest,
             CloseRequest, ApproveRequest, DirectGrant, DirectRenew, Revoke,
             RevokeExpired, Tick, Crash, Quiet
    <2> QED BY <1>1, <2>1, <2>2
  <1>3. \A p \in Procs : ~ task'[p].undo
    BY <1>2, QuietClean DEF Accounting
  <1>4. \A k \in Keys : Accounted(k) \/ Writing(k)
    BY <1>2 DEF Accounting
  <1> DEFINE Goal == \A k \in Keys : Accounted(k)' \/ Writing(k)'
  <1>5. ASSUME \A k \in Keys : ~ Writing(k), UNCHANGED <<sub, remote>>
        PROVE  Goal
    BY <1>4, <1>5 DEF Accounted, Holds, ActiveSubs
  <1>6. ASSUME NEW p \in Procs, task[p].pc # "commit"
        PROVE  \A k \in Keys : ~ Writing(k)
    BY <1>0, <1>6 DEF Serial, Writing
  <1>7. ASSUME NEW p \in Procs, Step(p), ~ Commit(p), UNCHANGED remote
        PROVE  Goal
    <2>1. task[p].pc # "commit" /\ UNCHANGED sub
      BY <1>7 DEF Step, CreateRequest, CommitClose, FindActive, Refuse, RevokeNext,
                  snapshotTradingViewAccess, AddAccess, RemoveAccess,
                  ModifyExpiration, At
    <2> QED BY <1>5, <1>6, <1>7, <2>1
  <1>8. ASSUME NEW p \in Procs, NEW e, Hold(task[p].key, e), UNCHANGED sub,
               task[p].pc # "commit",
               e = NoAccess \/ Goto(p, "commit")
        PROVE  Goal
    <2>1. ASSUME NEW k \in Keys, k # task[p].key PROVE Accounted(k)'
      BY <1>0, <1>4, <1>6, <1>8, <2>1 DEF Hold, Accounted, Holds, ActiveSubs
    <2>2. CASE e = NoAccess
      BY <1>0, <1>8, <2>1, <2>2 DEF Hold, Accounted, Holds
    <2>3. CASE Goto(p, "commit")
      <3>1. ASSUME NEW k, k = task[p].key PROVE Writing(k)'
        BY <1>0, <2>3, <3>1 DEF Goto, Set, Writing, TaskState
      <3> QED BY <2>1, <3>1
    <2> QED BY <1>8, <2>2, <2>3
  <1>9. ASSUME NEW p \in Procs,
               AddAccess(p) \/ RemoveAccess(p) \/ ModifyExpiration(p)
        PROVE  Goal
    <2>1. /\ task[p].pc # "commit" /\ UNCHANGED sub
          /\ Synced(p) => Goto(p, "commit")
      BY <1>2, <1>9 DEF AddAccess, RemoveAccess, ModifyExpiration, At, Synced,
                        Accounting
    <2>2. \/ UNCHANGED remote
          \/ Hold(task[p].key, NoAccess)
          \/ Hold(task[p].key, task[p].exp) /\ Synced(p)
      BY <1>2, <1>9 DEF AddAccess, RemoveAccess, ModifyExpiration
    <2>3. CASE UNCHANGED remote
      BY <1>5, <1>6, <2>1, <2>3
    <2> QED BY <1>8, <2>1, <2>2, <2>3
  <1>10. ASSUME NEW p \in Procs, Commit(p) PROVE Goal
    <2>1. Write(task[p]) /\ UNCHANGED remote
      BY <1>2, <1>10 DEF Commit
    <2>2. CallTask(task[p]) /\ task[p].pc = "commit"
      BY <1>10 DEF CInv, Calling, Commit, At
    <2>3. remote[task[p].key] = task[p].exp /\ task[p].key \in Keys
      BY <2>2 DEF CallTask, Working
    <2>4. ASSUME NEW k \in Keys, k # task[p].key PROVE Accounted(k)'
      <3>1. Accounted(k)
        BY <1>0, <1>4, <2>2, <2>4 DEF Serial, Writing
      <3>2. /\ ActiveSubs(k)' = ActiveSubs(k)
            /\ \A i \in ActiveSubs(k) : sub'[i].exp = sub[i].exp
        BY <1>10, <2>1, <2>4, CommitOthers
      <3> QED BY <2>1, <3>1, <3>2 DEF Accounted, Holds
    <2>5. ASSUME NEW k, k = task[p].key PROVE Accounted(k)'
      <3>1. CASE task[p].op \in {"revoke", "expire"}
        BY <2>1, <2>2, <2>3, <2>5, <3>1 DEF CallTask, Accounted, Holds
      <3>2. CASE task[p].op \in {"approve", "grant", "renew"}
        BY <1>10, <2>1, <2>3, <2>5, <3>2, CommitExtends DEF Accounted, Holds
      <3> QED BY <2>2, <3>1, <3>2 DEF CallTask
    <2> QED BY <2>4, <2>5
  <1>11. ASSUME NEW p \in Procs, Arrive(p) \/ RevokeExpired(p) PROVE Goal
    <2>1. task[p].pc # "commit" /\ UNCHANGED <<sub, remote>>
      BY <1>11 DEF Arrive, SubmitRequest, CloseRequest, ApproveRequest,
                   DirectGrant, DirectRenew, Revoke, RevokeExpired, Start, At
    <2> QED BY <1>5, <1>6, <2>1
  <1>12. ASSUME UNCHANGED <<sub, remote, task>> PROVE Goal
    BY <1>4, <1>12 DEF Accounted, Holds, ActiveSubs, Writing
  <1>13. Goal
    <2>1. ~ Crash
      BY <1>2 DEF Crash
    <2>2. ASSUME NEW p \in Procs, Step(p) PROVE Goal
      <3>1. \/ AddAccess(p) \/ RemoveAccess(p) \/ ModifyExpiration(p)
            \/ Commit(p) \/ UNCHANGED remote
        BY <2>2 DEF Step, CreateRequest, CommitClose, FindActive, Refuse,
                    RevokeNext, snapshotTradingViewAccess
      <3> QED BY <1>7, <1>9, <1>10, <2>2, <3>1
    <2> HIDE DEF Goal
    <2> QED BY <1>11, <1>12, <2>1, <2>2 DEF Next, Procs, Tick, vars
  <1> QED BY <1>3, <1>13

\* Between operations, and as long as nothing failed, TradingView holds no
\* access that no active subscription with the same end accounts for.
THEOREM SerialNoOrphans == Serial => (Spec => []NoOrphanAccess)
  <1>1. Serial /\ Init => CInv /\ Accounting
    BY InitCInv DEF Init, Accounting, Accounted, Holds, Idle
  <1>2. CInv /\ Accounting /\ [Next]_vars => (CInv /\ Accounting)'
    BY StepCInv, AccountingStep
  <1>3. CInv /\ Accounting => NoOrphanAccess
    BY DEF Accounting, NoOrphanAccess, Quiescent, Writing, Accounted, Idle
  <1> QED BY <1>1, <1>2, <1>3, PTL DEF Spec

-----------------------------------------------------------------------------
(* The tables and TradingView agree, failed commits included, where the    *)
(* operations are those the code compensates.                              *)

\* The operations that put back what they have changed when their commit
\* fails, and the fault they put it back after.
Compensated == /\ Ops \subseteq {"submit", "cancel", "reject", "approve", "grant",
                                 "expire"}
               /\ Faults \subseteq {"db_error"}

\* Access e is the right one for pair k, by the table.
Right(k, e) ==
    /\ e # NoAccess => \E i \in ActiveSubs(k) : sub[i].exp = e
    /\ \A i \in ActiveSubs(k) : ~ Late(i) => e = sub[i].exp

\* Between its snapshot and its commit, or the end of its compensation, an
\* approval or a grant answers for the access of its pair.
Changing(t, k) == /\ t.op \in {"approve", "grant"}
                  /\ t.pc \in {"add", "remove", "readd", "modify", "commit"}
                  /\ t.key = k

\* The right access is the one TradingView holds, or the snapshot to which
\* the operation under way would go back.
Matching ==
    /\ \A p \in Procs : task[p].op \in Ops \cup {"none"}
    /\ \A k \in Keys : (\A p \in Procs : ~ Changing(task[p], k)) => Right(k, remote[k])
    /\ \A p \in Procs, k \in Keys : Changing(task[p], k) => Right(k, task[p].snap)

\* What a goroutine does next is one of the operations in use.
LEMMA OpGoesOn ==
  ASSUME CInv, \A p \in Procs : task[p].op \in Ops \cup {"none"}, [Next]_vars
  PROVE  \A p \in Procs : task'[p].op \in Ops \cup {"none"}
  <1>0. task \in [Procs -> TaskState] /\ Serial
    BY DEF CInv, SInv, TInv, TypeOK
  <1> DEFINE Goal == \A p \in Procs : task'[p].op \in Ops \cup {"none"}
  <1>1. ASSUME NEW p \in Procs, NEW t, t.op \in Ops \cup {"none"}, Set(p, t)
        PROVE  Goal
    BY <1>0, <1>1 DEF Serial, Set
  <1>2. ASSUME NEW p \in Procs, Return(p) PROVE Goal
    <2>1. task[p].todo # {} => task[p].op = "expire"
      BY DEF CInv, SInv, Sound, SoundTask
    <2>2. task[p].op \in Ops \cup {"none"}
      OBVIOUS
    <2> QED BY <1>0, <1>2, <2>1, <2>2 DEF Return, Set, Idle
  <1>3. ASSUME NEW p \in Procs, NEW label, Goto(p, label) PROVE Goal
    BY <1>0, <1>3 DEF Goto, Set, TaskState
  <1>4. ASSUME NEW p \in Procs, Compensate(p) PROVE Goal
    <2> DEFINE back == [task[p] EXCEPT !.exp = task[p].snap, !.undo = TRUE]
               t == [back EXCEPT !.pc = FirstCall(back)]
    <2>1. t.op = task[p].op
      BY <1>0 DEF TaskState
    <2>2. Return(p) \/ Set(p, t)
      BY <1>4 DEF Compensate
    <2> HIDE DEF t
    <2> QED BY <1>1, <1>2, <2>1, <2>2
  <1>5. ASSUME NEW p \in Procs,
               FindActive(p) \/ RevokeNext(p) \/ snapshotTradingViewAccess(p)
        PROVE  Goal
    <2>1. task[p] \in TaskState
      BY <1>0
    <2>2. ASSUME NEW t, Set(p, t), t.op = task[p].op PROVE Goal
      BY <1>1, <2>2
    <2> HIDE DEF Goal
    <2>3. CASE FindActive(p)
      <3>1. PICK i, e :
              Set(p, [task[p] EXCEPT !.pc = "snapshot", !.sub = i, !.exp = e])
        BY <2>3 DEF FindActive
      <3>2. [task[p] EXCEPT !.pc = "snapshot", !.sub = i, !.exp = e].op = task[p].op
        BY <2>1 DEF TaskState
      <3> QED BY <2>2, <3>1, <3>2
    <2>4. CASE RevokeNext(p)
      <3>1. PICK i \in task[p].todo :
              Set(p, [task[p] EXCEPT !.pc = "remove", !.key = sub[i].key,
                                     !.sub = i, !.todo = @ \ {i}])
        BY <2>4 DEF RevokeNext
      <3>2. [task[p] EXCEPT !.pc = "remove", !.key = sub[i].key,
                            !.sub = i, !.todo = @ \ {i}].op = task[p].op
        BY <2>1 DEF TaskState
      <3> QED BY <2>2, <3>1, <3>2
    <2>5. CASE snapshotTradingViewAccess(p)
      <3>1. Set(p, [task[p] EXCEPT !.pc = "add", !.snap = remote[task[p].key]])
        BY <2>5 DEF snapshotTradingViewAccess
      <3>2. [task[p] EXCEPT !.pc = "add", !.snap = remote[task[p].key]].op = task[p].op
        BY <2>1 DEF TaskState
      <3> QED BY <2>2, <3>1, <3>2
    <2> QED BY <1>5, <2>3, <2>4, <2>5
  <1>6. ASSUME NEW p \in Procs, Step(p) PROVE Goal
    BY <1>2, <1>3, <1>4, <1>5, <1>6
       DEF Step, CreateRequest, CommitClose, Refuse, AddAccess, RemoveAccess,
           ModifyExpiration, Commit, Synced, Exists
  <1>7. ASSUME NEW p \in Procs, Arrive(p) \/ RevokeExpired(p) PROVE Goal
    <2>1. CASE SubmitRequest(p)
      BY <1>0, <2>1 DEF SubmitRequest, Start, Set, Idle
    <2>2. CASE \E op \in {"cancel", "reject"} : CloseRequest(p, op)
      BY <1>0, <2>2 DEF CloseRequest, Start, Set, Idle
    <2>3. CASE ApproveRequest(p)
      BY <1>0, <2>3 DEF ApproveRequest, Start, Set, Idle
    <2>4. CASE DirectGrant(p)
      BY <1>0, <2>4 DEF DirectGrant, Start, Set, Idle
    <2>5. CASE DirectRenew(p)
      BY <1>0, <2>5 DEF DirectRenew, Start, Set, Idle
    <2>6. CASE Revoke(p)
      BY <1>0, <2>6 DEF Revoke, Start, Set, Idle
    <2>7. CASE RevokeExpired(p)
      BY <1>0, <2>7 DEF RevokeExpired, Start, Set, Idle
    <2> QED BY <1>7, <2>1, <2>2, <2>3, <2>4, <2>5, <2>6, <2>7 DEF Arrive
  <1>8. ASSUME Tick \/ Crash \/ UNCHANGED vars PROVE Goal
    BY <1>8 DEF Tick, Crash, Idle, vars
  <1> QED BY <1>6, <1>7, <1>8 DEF Next, Procs

\* What is right stays right while the table stays, and the clock only makes
\* more rows late.
LEMMA RightStays ==
  ASSUME TypeOK, UNCHANGED sub, UNCHANGED now \/ Tick, NEW k, NEW e, Right(k, e)
  PROVE  Right(k, e)'
  <1>1. \A i \in Subs : Late(i) => Late(i)'
    BY AccessAssumption DEF Tick, Late, TypeOK, SubRow, Expiry
  <1>2. ActiveSubs(k)' = ActiveSubs(k) /\ ActiveSubs(k) \subseteq Subs
    BY DEF ActiveSubs
  <1> QED BY <1>1, <1>2 DEF Right

\* No access is right for a pair whose only active row is late.
LEMMA LateIsOver ==
  ASSUME OneActive, NEW i \in Subs, Late(i)
  PROVE  Right(sub[i].key, NoAccess)
  BY DEF OneActive, Late, Right, ActiveSubs

\* The only fault that happens is a transaction that rolled back.
LEMMA OnlyRollback ==
  ASSUME Compensated, NEW f, Fault(f)
  PROVE  f = "db_error"
  BY DEF Compensated, Fault

\* A call that goes on keeps the snapshot; one that ends the operation has put
\* it back, or has taken from TradingView what is over.
LEMMA CallMatching ==
  ASSUME Compensated, CInv, Restoring, Matching, NEW p \in Procs,
         AddAccess(p) \/ RemoveAccess(p) \/ ModifyExpiration(p)
  PROVE  \A k \in Keys :
            /\ (\A q \in Procs : ~ Changing(task[q], k)') => Right(k, remote[k])'
            /\ \A q \in Procs : Changing(task[q], k)' => Right(k, task[q].snap)'
  <1>0. /\ Serial /\ TypeOK /\ task \in [Procs -> TaskState] /\ OneActive
        /\ remote \in [Keys -> Access] /\ UNCHANGED <<now, sub>>
        /\ CallTask(task[p]) /\ RestoringTask(task[p]) /\ SoundTask(task[p])
        /\ task[p].op \in Ops \cup {"none"}
    BY DEF CInv, SInv, TInv, TypeOK, Calling, Restoring, Sound, Matching,
           AddAccess, RemoveAccess, ModifyExpiration
  <1>1. /\ task[p].pc \in {"add", "remove", "readd", "modify"}
        /\ task[p].op \in {"approve", "grant", "expire"}
    BY <1>0 DEF AddAccess, RemoveAccess, ModifyExpiration, At, CallTask,
                Compensated
  <1>2. ~ Fault("tv_error") /\ ~ Fault("tv_lost") /\ ~ Fault("tv_retry")
    BY OnlyRollback
  <1>3. \A k \in Keys : k # task[p].key => remote'[k] = remote[k]
    BY <1>0 DEF AddAccess, RemoveAccess, ModifyExpiration, Hold
  <1>4. Return(p) \/ \E label \in {"remove", "readd", "modify", "commit"} : Goto(p, label)
    BY DEF AddAccess, RemoveAccess, ModifyExpiration, Synced, Exists
  <1>5. ASSUME Return(p), task[p].op \in {"approve", "grant"}
        PROVE  remote'[task[p].key] = task[p].snap
    <2>1. task[p].key \in Keys
      BY <1>0, <1>1 DEF CallTask, Working
    <2>2. ASSUME NEW label, Goto(p, label) PROVE label \in {"idle", "scan"}
      <3>1. task'[p].pc \in {"idle", "scan"}
        BY <1>0, <1>5 DEF Return, Set, Idle
      <3>2. task'[p].pc = label
        BY <1>0, <2>2 DEF Goto, Set, TaskState
      <3> QED BY <3>1, <3>2
    <2>3. ~ Synced(p) \/ task[p].undo
      BY <2>2 DEF Synced
    <2>4. CASE AddAccess(p)
      <3>1. ~ Exists(p) \/ At(p, "readd")
        BY <2>2 DEF Exists
      <3> QED BY <1>0, <1>2, <2>1, <2>3, <2>4, <3>1
              DEF AddAccess, Hold, RestoringTask, CallTask, At
    <2>5. CASE RemoveAccess(p)
      <3>1. task[p].pc = "remove" /\ Hold(task[p].key, NoAccess)
            /\ task[p].exp # Lifetime /\ task[p].undo
        BY <1>2, <2>2, <2>3, <2>5 DEF RemoveAccess, At
      <3> QED BY <1>0, <2>1, <3>1 DEF Hold, RestoringTask
    <2>6. CASE ModifyExpiration(p)
      <3>1. Hold(task[p].key, task[p].exp) /\ task[p].undo
        BY <1>0, <1>2, <1>5, <2>3, <2>6 DEF ModifyExpiration, CallTask, At
      <3> QED BY <1>0, <2>1, <3>1 DEF Hold, RestoringTask
    <2> QED BY <2>4, <2>5, <2>6
  <1>6. ASSUME task[p].op = "expire"
        PROVE  /\ remote'[task[p].key] = NoAccess
               /\ Right(task[p].key, NoAccess)
    <2>1. /\ task[p].pc = "remove" /\ task[p].key \in Keys
          /\ Late(task[p].sub) /\ task[p].sub \in Subs
          /\ sub[task[p].sub].key = task[p].key
      BY <1>0, <1>1, <1>6 DEF CallTask, SoundTask, Working
    <2>2. Hold(task[p].key, NoAccess)
      BY <1>2, <2>1 DEF AddAccess, RemoveAccess, ModifyExpiration, At
    <2>3. Right(task[p].key, NoAccess)
      BY <1>0, <2>1, LateIsOver
    <2> QED BY <1>0, <2>1, <2>2, <2>3 DEF Hold
  <1> SUFFICES ASSUME NEW k \in Keys
               PROVE  /\ (\A q \in Procs : ~ Changing(task[q], k)')
                            => Right(k, remote[k])'
                      /\ \A q \in Procs : Changing(task[q], k)'
                            => Right(k, task[q].snap)'
    OBVIOUS
  <1>7. ASSUME NEW e, Right(k, e) PROVE Right(k, e)'
    BY <1>0, <1>7, RightStays
  <1> DEFINE Old == IF Changing(task[p], k) THEN task[p].snap ELSE remote[k]
  <1>8. Right(k, Old)
    BY <1>0 DEF Matching, Serial
  <1>9. /\ \A q \in Procs : q = p
        /\ Changing(task[p], k)' =>
             /\ task'[p].snap = task[p].snap /\ Changing(task[p], k)
    <2>1. Return(p) => ~ Changing(task[p], k)'
      BY <1>0 DEF Return, Set, Idle, Changing
    <2>2. ASSUME NEW label, Goto(p, label)
          PROVE  /\ task'[p].snap = task[p].snap /\ task'[p].op = task[p].op
                 /\ task'[p].key = task[p].key
      BY <1>0, <2>2 DEF Goto, Set, TaskState
    <2> QED BY <1>0, <1>1, <1>4, <2>1, <2>2 DEF Serial, Changing
  <1>10. ASSUME Changing(task[p], k)' PROVE Right(k, task[p].snap)'
    <2>1. PICK e : e = task[p].snap
      OBVIOUS
    <2>2. Right(k, e)'
      BY <1>7, <1>8, <1>9, <1>10, <2>1
    <2> QED BY <1>9, <1>10, <2>1, <2>2 DEF Right
  <1>11. ASSUME ~ Changing(task[p], k)' PROVE Right(k, remote[k])'
    <2>1. CASE k # task[p].key
      <3>1. Right(k, remote[k])
        BY <1>8, <2>1 DEF Changing
      <3>2. PICK e : e = remote[k]
        OBVIOUS
      <3>3. Right(k, e)'
        BY <1>7, <3>1, <3>2
      <3> QED BY <1>3, <2>1, <3>2, <3>3 DEF Right
    <2>2. CASE k = task[p].key /\ task[p].op \in {"approve", "grant"}
      <3>1. Changing(task[p], k)
        BY <1>1, <2>2 DEF Changing
      <3>2. Return(p)
        BY <1>0, <1>4, <1>11, <2>2 DEF Goto, Set, TaskState, Changing
      <3>3. PICK e : e = task[p].snap
        OBVIOUS
      <3>4. Right(k, e)'
        BY <1>7, <1>8, <3>1, <3>3
      <3> QED BY <1>5, <2>2, <3>2, <3>3, <3>4 DEF Right
    <2>3. CASE k = task[p].key /\ task[p].op = "expire"
      <3>1. Right(k, NoAccess)'
        BY <1>6, <1>7, <2>3
      <3> QED BY <1>6, <2>3, <3>1 DEF Right
    <2> QED BY <1>1, <2>1, <2>2, <2>3
  <1> QED BY <1>9, <1>10, <1>11

\* A commit that succeeds makes the new access the right one; one that fails
\* leaves the snapshot right.
LEMMA CommitMatching ==
  ASSUME Compensated, CInv, Matching, NEW p \in Procs, Commit(p), NEW k \in Keys
  PROVE  /\ (\A q \in Procs : ~ Changing(task[q], k)') => Right(k, remote[k])'
         /\ \A q \in Procs : Changing(task[q], k)' => Right(k, task[q].snap)'
  <1>0. /\ Serial /\ TypeOK /\ task \in [Procs -> TaskState] /\ OneActive
        /\ UNCHANGED <<now, remote>> /\ task[p].pc = "commit"
        /\ CallTask(task[p]) /\ SoundTask(task[p])
        /\ task[p].op \in {"approve", "grant", "expire"}
    <2>1. task[p].op \in Ops \cup {"none"} /\ CallTask(task[p]) /\ task[p].pc = "commit"
      BY DEF Matching, CInv, Calling, Commit, At
    <2> QED BY <2>1 DEF CInv, SInv, TInv, TypeOK, Sound, Commit, CallTask, Compensated
  <1>1. \A q \in Procs : q = p
    BY <1>0 DEF Serial
  <1>2. /\ Changing(task[p], k) => Right(k, task[p].snap)
        /\ ~ Changing(task[p], k) => Right(k, remote[k])
        /\ Changing(task[p], k) <=> task[p].op # "expire" /\ k = task[p].key
    BY <1>0, <1>1 DEF Matching, Changing
  <1>3. CASE Write(task[p]) /\ Return(p)
    <2>1. ~ Changing(task[p], k)'
      BY <1>0, <1>3 DEF Return, Set, Idle, Changing
    <2>2. CASE k # task[p].key
      <3>1. /\ ActiveSubs(k)' = ActiveSubs(k)
            /\ \A i \in ActiveSubs(k) : sub'[i].exp = sub[i].exp
        BY <1>3, <2>2, CommitOthers
      <3>2. Right(k, remote[k])
        BY <1>2, <2>2
      <3>3. \A i \in ActiveSubs(k) : Late(i) => Late(i)'
        BY <1>0, <3>1 DEF Late, ActiveSubs
      <3> QED BY <1>0, <1>1, <2>1, <3>1, <3>2, <3>3 DEF Right
    <2>3. CASE k = task[p].key /\ task[p].op # "expire"
      <3>1. PICK i \in Subs : ActiveSubs(k)' = {i} /\ sub'[i].exp = task[p].exp
        BY <1>0, <1>3, <2>3, CommitExtends
      <3>2. remote'[k] = task[p].exp
        BY <1>0, <2>3 DEF CallTask
      <3> QED BY <1>1, <2>1, <3>1, <3>2 DEF Right
    <2>4. CASE k = task[p].key /\ task[p].op = "expire"
      <3>1. ActiveSubs(k)' = ActiveSubs(k) \ {task[p].sub}
        BY <1>3, <2>4, CommitEnds
      <3>2. Late(task[p].sub) /\ task[p].sub \in Subs /\ sub[task[p].sub].key = k
        BY <1>0, <2>4 DEF SoundTask, CallTask
      <3>3. ActiveSubs(k)' = {}
        BY <1>0, <3>1, <3>2 DEF ActiveSubs, OneActive, Late
      <3>4. remote'[k] = NoAccess
        BY <1>0, <2>4 DEF CallTask
      <3> QED BY <1>1, <2>1, <3>3, <3>4 DEF Right
    <2> QED BY <2>2, <2>3, <2>4
  <1>4. CASE UNCHANGED sub /\ Compensate(p)
    <2>1. PICK e : e = IF Changing(task[p], k) THEN task[p].snap ELSE remote[k]
      OBVIOUS
    <2>2. Right(k, e)
      BY <1>2, <2>1
    <2>3. Right(k, e)'
      BY <1>0, <1>4, <2>2, RightStays
    <2>4. CASE task[p].op # "expire"
      <3> DEFINE back == [task[p] EXCEPT !.exp = task[p].snap, !.undo = TRUE]
                 t == [back EXCEPT !.pc = FirstCall(back)]
      <3>1. /\ t.op = task[p].op /\ t.key = task[p].key /\ t.snap = task[p].snap
            /\ t.pc \in {"add", "remove"}
        BY <1>0 DEF TaskState, FirstCall
      <3>2. Set(p, t)
        BY <1>0, <1>4, <2>4 DEF Compensate
      <3> HIDE DEF t
      <3>3. task'[p] = t
        BY <1>0, <3>2 DEF Set
      <3>4. /\ Changing(task[p], k)' <=> Changing(task[p], k)
            /\ task'[p].snap = task[p].snap
        BY <1>0, <3>1, <3>3 DEF Changing
      <3> QED BY <1>0, <1>1, <2>1, <2>3, <3>4 DEF Right
    <2>5. CASE task[p].op = "expire"
      <3>1. ~ Changing(task[p], k)'
        <4>1. Return(p)
          BY <1>4, <2>5 DEF Compensate
        <4> QED BY <1>0, <4>1 DEF Return, Set, Idle, Changing
      <3>2. e = remote'[k]
        BY <1>0, <1>2, <2>1, <2>5
      <3> QED BY <1>1, <2>3, <3>1, <3>2 DEF Right, Changing
    <2> QED BY <2>4, <2>5
  <1>5. ~ Fault("db_lost")
    BY OnlyRollback
  <1> QED BY <1>3, <1>4, <1>5 DEF Commit

\* A step that neither writes a row nor calls TradingView: a new operation has
\* changed nothing, and a snapshot is the access that was right.
LEMMA StillMatching ==
  ASSUME CInv, Matching, NEW p \in Procs, UNCHANGED <<now, sub, remote>>,
         \A k \in Keys : ~ Changing(task[p], k),
         \A k \in Keys : Changing(task[p], k)' => task'[p].snap = remote[k],
         NEW k \in Keys
  PROVE  /\ (\A q \in Procs : ~ Changing(task[q], k)') => Right(k, remote[k])'
         /\ \A q \in Procs : Changing(task[q], k)' => Right(k, task[q].snap)'
  <1>1. Serial /\ TypeOK
    BY DEF CInv, SInv, TInv
  <1>2. \A q \in Procs : q = p
    BY <1>1 DEF Serial
  <1>3. PICK e : e = remote[k]
    OBVIOUS
  <1>4. Right(k, e)
    BY <1>2, <1>3 DEF Matching
  <1>5. Right(k, e)'
    BY <1>1, <1>4, RightStays
  <1> QED BY <1>2, <1>3, <1>5 DEF Right

LEMMA MatchingStep ==
  ASSUME Compensated, CInv, Restoring, Matching, [Next]_vars
  PROVE  Matching'
  <1>0. Serial /\ TypeOK /\ task \in [Procs -> TaskState]
    BY DEF CInv, SInv, TInv, TypeOK
  <1>1. \A p \in Procs : task'[p].op \in Ops \cup {"none"}
    BY OpGoesOn DEF Matching
  <1> SUFFICES ASSUME NEW k \in Keys
               PROVE  /\ (\A q \in Procs : ~ Changing(task[q], k)')
                            => Right(k, remote[k])'
                      /\ \A q \in Procs : Changing(task[q], k)'
                            => Right(k, task[q].snap)'
    BY <1>1 DEF Matching, Changing, Right
  <1> DEFINE Goal == /\ (\A q \in Procs : ~ Changing(task[q], k)')
                            => Right(k, remote[k])'
                     /\ \A q \in Procs : Changing(task[q], k)'
                            => Right(k, task[q].snap)'
  <1>2. ASSUME NEW p \in Procs,
               \/ CreateRequest(p) \/ CommitClose(p) \/ Refuse(p)
               \/ FindActive(p) \/ RevokeNext(p) \/ snapshotTradingViewAccess(p)
        PROVE  Goal
    <2>1. /\ UNCHANGED <<now, sub, remote>>
          /\ task[p].pc \in {"create", "close", "lookup", "snapshot", "scan"}
      BY <1>2 DEF CreateRequest, CommitClose, Refuse, FindActive, RevokeNext,
                  snapshotTradingViewAccess, At
    <2>2. \A j \in Keys : ~ Changing(task[p], j)
      BY <2>1 DEF Changing
    <2>3. task[p].pc = "scan" => task[p].op = "expire"
      BY DEF CInv, SInv, TInv, TaskTyped, TypedTask
    <2>4. CASE Return(p)
      <3>1. \A j \in Keys : ~ Changing(task[p], j)'
        BY <1>0, <2>4 DEF Return, Set, Idle, Changing
      <3> QED BY <2>1, <2>2, <3>1, StillMatching
    <2>5. CASE FindActive(p) \/ RevokeNext(p)
      <3>1. \A j \in Keys : ~ Changing(task[p], j)'
        <4>1. CASE FindActive(p)
          BY <1>0, <4>1 DEF FindActive, Set, TaskState, Changing
        <4>2. CASE RevokeNext(p)
          BY <1>0, <2>3, <4>2 DEF RevokeNext, At, Set, TaskState, Changing
        <4> QED BY <2>5, <4>1, <4>2
      <3> QED BY <2>1, <2>2, <3>1, StillMatching
    <2>6. CASE snapshotTradingViewAccess(p)
      <3>1. \A j \in Keys : Changing(task[p], j)' => task'[p].snap = remote[j]
        BY <1>0, <2>6 DEF snapshotTradingViewAccess, Set, TaskState, Changing
      <3> QED BY <2>1, <2>2, <3>1, StillMatching
    <2> QED BY <1>2, <2>4, <2>5, <2>6 DEF CreateRequest, CommitClose, Refuse
  <1>3. ASSUME NEW p \in Procs, Step(p) PROVE Goal
    BY <1>2, <1>3, CallMatching, CommitMatching DEF Step
  <1>4. ASSUME NEW p \in Procs, Arrive(p) \/ RevokeExpired(p) PROVE Goal
    <2>1. task[p].pc = "idle" /\ UNCHANGED <<now, sub, remote>>
      BY <1>4 DEF Arrive, SubmitRequest, CloseRequest, ApproveRequest, DirectGrant,
                  DirectRenew, Revoke, RevokeExpired, Start, At
    <2>2. \A j \in Keys : ~ Changing(task[p], j)
      BY <2>1 DEF Changing
    <2>3. \A j \in Keys : ~ Changing(task[p], j)'
      <3>1. CASE SubmitRequest(p)
        BY <1>0, <3>1 DEF SubmitRequest, Set, Idle, Changing
      <3>2. CASE \E op \in {"cancel", "reject"} : CloseRequest(p, op)
        BY <1>0, <3>2 DEF CloseRequest, Set, Idle, Changing
      <3>3. CASE ApproveRequest(p)
        BY <1>0, <3>3 DEF ApproveRequest, Set, Idle, Changing
      <3>4. CASE DirectGrant(p)
        BY <1>0, <3>4 DEF DirectGrant, Set, Idle, Changing
      <3>5. CASE DirectRenew(p)
        BY <1>0, <3>5 DEF DirectRenew, Set, Idle, Changing
      <3>6. CASE Revoke(p)
        BY <1>0, <3>6 DEF Revoke, Set, Idle, Changing
      <3>7. CASE RevokeExpired(p)
        BY <1>0, <3>7 DEF RevokeExpired, Set, Idle, Changing
      <3> QED BY <1>4, <3>1, <3>2, <3>3, <3>4, <3>5, <3>6, <3>7 DEF Arrive
    <2> QED BY <2>1, <2>2, <2>3, StillMatching
  <1>5. ASSUME Tick \/ UNCHANGED vars PROVE Goal
    <2>1. /\ UNCHANGED <<sub, remote, task>> /\ (UNCHANGED now \/ Tick)
          /\ \A q \in Procs : Changing(task[q], k)' <=> Changing(task[q], k)
      BY <1>5 DEF Tick, vars, Changing
    <2>2. \A e : Right(k, e) => Right(k, e)'
      BY <1>0, <2>1, RightStays
    <2>3. Right(k, remote[k]) => Right(k, remote[k])'
      <3>1. PICK e : e = remote[k]
        OBVIOUS
      <3> QED BY <2>1, <2>2, <3>1 DEF Right
    <2>4. ASSUME NEW q \in Procs, Right(k, task[q].snap)
          PROVE  Right(k, task[q].snap)'
      <3>1. PICK e : e = task[q].snap
        OBVIOUS
      <3>2. Right(k, e)'
        BY <2>2, <2>4, <3>1
      <3> QED BY <2>1, <3>1, <3>2 DEF Right
    <2> QED BY <2>1, <2>3, <2>4 DEF Matching
  <1>6. ~ Crash
    BY OnlyRollback DEF Crash
  <1> HIDE DEF Goal
  <1>7. Goal
    BY <1>3, <1>4, <1>5, <1>6 DEF Next, Procs
  <1> QED BY <1>7 DEF Goal

\* Between operations an active subscription that is not over is held at
\* TradingView with the same end, and TradingView holds nothing else: where
\* operations do not overlap, the compensation makes good a failed commit.
THEOREM CompensationMatches ==
  Serial /\ Compensated => (Spec => []TablesMatchTradingView)
  <1> DEFINE Inv == Compensated /\ CInv /\ TInv /\ Restoring /\ Matching
  <1>1. Serial /\ Compensated /\ Init => Inv
    <2> SUFFICES ASSUME Serial, Compensated, Init PROVE Inv
      OBVIOUS
    <2>1. Restoring /\ Matching
      BY DEF Init, Restoring, RestoringTask, Matching, Idle, Changing, Right,
             ActiveSubs, NoSubRow
    <2> QED BY <2>1, InitCInv, InitTyped
  <1>2. Inv /\ [Next]_vars => Inv'
    <2> SUFFICES ASSUME Inv, [Next]_vars PROVE Inv'
      OBVIOUS
    <2>1. Compensated'
      BY DEF Compensated
    <2> QED BY <2>1, StepCInv, NextTyped, RestoringStep, MatchingStep
  <1>3. Inv => TablesMatchTradingView
    <2> SUFFICES ASSUME Matching, CInv, Quiescent PROVE TablesMatchTradingView
      BY DEF TablesMatchTradingView, ActiveIsGranted
    <2>1. \A k \in Keys : Right(k, remote[k])
      BY DEF Matching, Quiescent, Changing, Idle
    <2>2. \A i \in Subs : sub[i].status = "active" => sub[i].key \in Keys
      BY DEF CInv, RowKeys
    <2> QED BY <2>1, <2>2
            DEF TablesMatchTradingView, ActiveIsGranted, Right, Holds, ActiveSubs
  <1> QED BY <1>1, <1>2, <1>3, PTL DEF Spec

-----------------------------------------------------------------------------
(* The ledger: each commit is one step of AccessLedger.                    *)

\* The end an operation is going to write is what the ledger would extend the
\* entitlement to, at some instant that has been.
Granted(t, e, d) == \E s \in 0..now : t.exp = Ledger!Extend(e, d, s)

LedgerTask(t) ==
    /\ t.pc = "create" => /\ t.agent \in Agents /\ t.key \in Keys
                          /\ t.dur \in Durations
    /\ t.pc = "lookup" => t.dur = request[t.req].dur
    /\ t.pc \in Working /\ ~ t.undo =>
         /\ t.op = "approve" => Granted(t, Entitled(t.key), request[t.req].dur)
         /\ t.op = "grant" => \E d \in Durations : Granted(t, NoAccess, d)
         /\ t.op = "renew" => \E d \in Durations : Granted(t, Entitled(t.key), d)

Promised == \A p \in Procs : LedgerTask(task[p])

LInv == CInv /\ ApprovesOwnKey /\ Promised

\* The entitlement of a pair is the end of its active row.
EntitledExact == \A k : /\ ActiveSubs(k) = {} => Entitled(k) = NoAccess
                        /\ \A i \in ActiveSubs(k) : Entitled(k) = sub[i].exp

LEMMA EntitledIs == OneActive => EntitledExact
  <1> SUFFICES ASSUME OneActive, NEW k
               PROVE  /\ ActiveSubs(k) = {} => Entitled(k) = NoAccess
                      /\ \A i \in ActiveSubs(k) : Entitled(k) = sub[i].exp
    BY DEF EntitledExact
  <1>1. ASSUME NEW i \in ActiveSubs(k) PROVE Entitled(k) = sub[i].exp
    <2>1. i \in Subs /\ \A j \in ActiveSubs(k) : j = i
      BY DEF ActiveSubs, OneActive
    <2>2. IsFirstActive(i, k)
      BY <2>1 DEF IsFirstActive, Subs
    <2>3. \A j : IsFirstActive(j, k) => j = i
      BY <2>1 DEF IsFirstActive
    <2>4. (CHOOSE j \in Subs : IsFirstActive(j, k)) = i
      BY <2>1, <2>2, <2>3
    <2> QED BY <2>4 DEF Entitled
  <1> QED BY <1>1 DEF Entitled

\* The code's computation is the ledger's, at the instant of the read.
LEMMA ExtendIs ==
  ASSUME TypeOK, OneActive, NEW i \in Subs \cup {0}, NEW k, NEW d \in Expiry,
         (i = 0 /\ ActiveSubs(k) = {}) \/ i \in ActiveSubs(k)
  PROVE  /\ now \in 0..now
         /\ calculateExpiration(d, Base(i)) = Ledger!Extend(Entitled(k), d, now)
  <1>1. now \in Nat /\ (i # 0 => sub[i].exp \in Expiry)
    BY DEF TypeOK, SubRow
  <1>2. CASE i = 0 /\ ActiveSubs(k) = {}
    <2>1. Entitled(k) = NoAccess
      BY <1>2, EntitledIs DEF EntitledExact
    <2> QED BY <1>1, <1>2, <2>1
            DEF calculateExpiration, Base, Ledger!Extend, Expiry
  <1>3. CASE i \in ActiveSubs(k)
    <2>1. Entitled(k) = sub[i].exp /\ i # 0
      BY <1>3, EntitledIs, NatAssumption DEF EntitledExact, ActiveSubs, Subs
    <2> QED BY <1>1, <2>1, AccessAssumption
            DEF calculateExpiration, Base, Ledger!Extend, Expiry
  <1> QED BY <1>2, <1>3

\* Nothing is promised by a goroutine that rests, scans or compensates.
LEMMA NoPromise ==
  ASSUME NEW t, t.pc \in {"idle", "scan"} \/ (t.undo /\ t.pc \in {"add", "remove"})
  PROVE  LedgerTask(t)'
  BY DEF LedgerTask, Working

\* A promise holds while the tables stay and the clock runs on.
LEMMA PromiseStays ==
  ASSUME TypeOK, UNCHANGED <<request, sub>>, UNCHANGED now \/ Tick, NEW t,
         LedgerTask(t)
  PROVE  LedgerTask(t)'
  <1>1. \A k : Entitled(k)' = Entitled(k)
    BY DEF Entitled, ActiveSubs, IsFirstActive
  <1>2. \A s \in 0..now : s \in 0..now'
    BY DEF Tick, TypeOK
  <1>3. \A e, d : Granted(t, e, d) => Granted(t, e, d)'
    BY <1>2 DEF Granted, Ledger!Extend
  <1> QED BY <1>1, <1>3 DEF LedgerTask

\* One goroutine moved.
LEMMA SetPromised ==
  ASSUME Serial, TypeOK, NEW p \in Procs, NEW t, Set(p, t), LedgerTask(t)'
  PROVE  Promised'
  <1>1. \A q \in Procs : q = p /\ task'[q] = t
    BY DEF Serial, Set, TypeOK
  <1> QED BY <1>1 DEF Promised, LedgerTask

LEMMA ReturnPromised ==
  ASSUME Serial, TypeOK, NEW p \in Procs, Return(p)
  PROVE  Promised'
  <1> DEFINE rest == [Idle EXCEPT !.pc = "scan", !.op = "expire",
                                  !.todo = task[p].todo]
  <1>1. PICK t : Set(p, t) /\ t.pc \in {"idle", "scan"}
    <2>1. Set(p, Idle) \/ Set(p, rest)
      BY DEF Return
    <2>2. Idle.pc = "idle" /\ rest.pc = "scan"
      BY DEF Idle
    <2> HIDE DEF rest
    <2> QED BY <2>1, <2>2
  <1>2. LedgerTask(t)'
    BY <1>1, NoPromise
  <1> QED BY <1>1, <1>2, SetPromised

LEMMA CompensatePromised ==
  ASSUME Serial, TypeOK, NEW p \in Procs, Compensate(p)
  PROVE  Promised'
  <1>1. CASE Return(p)
    BY <1>1, ReturnPromised
  <1>2. CASE ~ Return(p)
    <2> DEFINE back == [task[p] EXCEPT !.exp = task[p].snap, !.undo = TRUE]
               u == [back EXCEPT !.pc = FirstCall(back)]
    <2>1. u.undo /\ u.pc \in {"add", "remove"} /\ Set(p, u)
      BY <1>2 DEF Compensate, TypeOK, TaskState, FirstCall
    <2>2. PICK t : t = u
      OBVIOUS
    <2> QED BY <2>1, <2>2, NoPromise, SetPromised
  <1> QED BY <1>1, <1>2

\* The task an operation moves on with, where it leaves the tables alone.
LEMMA StillPromised ==
  ASSUME Serial, TypeOK, NEW p \in Procs, NEW t, Set(p, t), LedgerTask(t),
         UNCHANGED <<now, request, sub>>
  PROVE  Promised'
  BY PromiseStays, SetPromised

\* Each operation reads what it will promise.
LEMMA ArrivePromised ==
  ASSUME LInv, NEW p \in Procs, Arrive(p) \/ RevokeExpired(p)
  PROVE  Promised'
  <1>0. /\ Serial /\ TInv /\ TypeOK /\ OneActive
        /\ UNCHANGED <<now, request, sub>>
    BY DEF LInv, CInv, SInv, TInv, Arrive, SubmitRequest, CloseRequest,
           ApproveRequest, DirectGrant, DirectRenew, Revoke, RevokeExpired
  <1>1. CASE SubmitRequest(p)
    <2>1. PICK a \in Agents, k \in Keys, d \in Durations :
            Set(p, [Idle EXCEPT !.pc = "create", !.op = "submit",
                                !.agent = a, !.key = k, !.dur = d])
      BY <1>1 DEF SubmitRequest
    <2>2. LedgerTask([Idle EXCEPT !.pc = "create", !.op = "submit",
                                  !.agent = a, !.key = k, !.dur = d])
      BY DEF LedgerTask, Idle, Working
    <2> QED BY <1>0, <2>1, <2>2, StillPromised
  <1>2. ASSUME NEW op \in {"cancel", "reject"}, CloseRequest(p, op)
        PROVE  Promised'
    <2>1. PICK r \in Requests :
            Set(p, [Idle EXCEPT !.pc = "close", !.op = op, !.req = r])
      BY <1>2 DEF CloseRequest
    <2>2. LedgerTask([Idle EXCEPT !.pc = "close", !.op = op, !.req = r])
      BY DEF LedgerTask, Idle, Working
    <2> QED BY <1>0, <2>1, <2>2, StillPromised
  <1>3. CASE ApproveRequest(p)
    <2>1. PICK r \in Requests :
            Set(p, [Idle EXCEPT !.pc = "lookup", !.op = "approve", !.req = r,
                               !.key = request[r].key, !.dur = request[r].dur])
      BY <1>3 DEF ApproveRequest
    <2>2. LedgerTask([Idle EXCEPT !.pc = "lookup", !.op = "approve", !.req = r,
                               !.key = request[r].key, !.dur = request[r].dur])
      BY DEF LedgerTask, Idle, Working
    <2> QED BY <1>0, <2>1, <2>2, StillPromised
  <1>4. CASE DirectGrant(p)
    <2>1. PICK k \in Keys, d \in Durations :
            /\ ActiveSubs(k) = {}
            /\ Set(p, [Idle EXCEPT !.pc = "snapshot", !.op = "grant", !.key = k,
                                   !.exp = calculateExpiration(d, now)])
      BY <1>4 DEF DirectGrant
    <2> DEFINE t == [Idle EXCEPT !.pc = "snapshot", !.op = "grant", !.key = k,
                                 !.exp = calculateExpiration(d, now)]
    <2>2. /\ now \in 0..now /\ Entitled(k) = NoAccess /\ Base(0) = now
          /\ calculateExpiration(d, Base(0)) = Ledger!Extend(Entitled(k), d, now)
      BY <1>0, <2>1, DurationTyped, ExtendIs, EntitledIs DEF Base, EntitledExact
    <2>3. t.op = "grant" /\ t.pc = "snapshot"
          /\ t.exp = Ledger!Extend(NoAccess, d, now)
      BY <2>2 DEF Idle
    <2> HIDE DEF t
    <2>4. LedgerTask(t)
      BY <2>2, <2>3 DEF LedgerTask, Granted
    <2> QED BY <1>0, <2>1, <2>4, StillPromised DEF t
  <1>5. CASE DirectRenew(p)
    <2>1. PICK i \in Subs, d \in Durations :
            /\ sub[i].status = "active"
            /\ Set(p, [Idle EXCEPT
                        !.pc = IF calculateExpiration(d, Base(i)) = Lifetime
                               THEN "remove" ELSE "modify",
                        !.op = "renew", !.key = sub[i].key, !.sub = i,
                        !.exp = calculateExpiration(d, Base(i))])
      BY <1>5 DEF DirectRenew
    <2> DEFINE t == [Idle EXCEPT
                        !.pc = IF calculateExpiration(d, Base(i)) = Lifetime
                               THEN "remove" ELSE "modify",
                        !.op = "renew", !.key = sub[i].key, !.sub = i,
                        !.exp = calculateExpiration(d, Base(i))]
    <2>2. i \in ActiveSubs(sub[i].key)
      BY <2>1 DEF ActiveSubs
    <2>3. /\ now \in 0..now
          /\ calculateExpiration(d, Base(i))
               = Ledger!Extend(Entitled(sub[i].key), d, now)
      BY <1>0, <2>2, DurationTyped, ExtendIs
    <2>4. /\ t.op = "renew" /\ t.pc \in {"remove", "modify"} /\ t.key = sub[i].key
          /\ t.exp = Ledger!Extend(Entitled(sub[i].key), d, now)
      BY <2>3 DEF Idle
    <2> HIDE DEF t
    <2>5. LedgerTask(t)
      BY <2>3, <2>4 DEF LedgerTask, Granted
    <2> QED BY <1>0, <2>1, <2>5, StillPromised DEF t
  <1>6. CASE Revoke(p)
    <2>1. PICK i \in Subs :
            Set(p, [Idle EXCEPT !.pc = "remove", !.op = "revoke",
                                !.key = sub[i].key, !.sub = i])
      BY <1>6 DEF Revoke
    <2>2. LedgerTask([Idle EXCEPT !.pc = "remove", !.op = "revoke",
                                  !.key = sub[i].key, !.sub = i])
      BY DEF LedgerTask, Idle
    <2> QED BY <1>0, <2>1, <2>2, StillPromised
  <1>7. CASE RevokeExpired(p)
    <2>1. PICK t : Set(p, t) /\ t.pc \in {"idle", "scan"}
      <3> DEFINE u == [Idle EXCEPT !.pc = "scan", !.op = "expire",
                                   !.todo = {i \in Subs : Overdue(i)}]
      <3>1. Set(p, Idle) \/ Set(p, u)
        BY <1>7 DEF RevokeExpired
      <3>2. Idle.pc = "idle" /\ u.pc = "scan"
        BY DEF Idle
      <3> HIDE DEF u
      <3> QED BY <3>1, <3>2
    <2>2. LedgerTask(t)'
      BY <2>1, NoPromise
    <2> QED BY <1>0, <2>1, <2>2, SetPromised
  <1> QED BY <1>1, <1>2, <1>3, <1>4, <1>5, <1>6, <1>7 DEF Arrive

\* Busy goroutines keep their promise until the commit.
LEMMA StepPromised ==
  ASSUME LInv, NEW p \in Procs, Step(p)
  PROVE  Promised'
  <1>0. /\ Serial /\ TypeOK /\ OneActive /\ task \in [Procs -> TaskState]
        /\ LedgerTask(task[p]) /\ SoundTask(task[p]) /\ CallTask(task[p])
        /\ task[p].op = "approve" => /\ task[p].req \in Requests
                                     /\ task[p].key = request[task[p].req].key
        /\ request \in [Requests -> RequestRow]
    BY DEF LInv, CInv, SInv, TInv, TypeOK, Promised, Sound, Calling, ApprovesOwnKey
  <1>1. CASE Return(p) \/ Compensate(p)
    BY <1>0, <1>1, ReturnPromised, CompensatePromised
  <1>2. ASSUME NEW label \in {"remove", "readd", "modify", "commit"}, Goto(p, label),
               task[p].pc \in Working, UNCHANGED <<now, request, sub>>
        PROVE  Promised'
    <2> DEFINE t == [task[p] EXCEPT !.pc = label]
    <2>1. /\ t.pc = label /\ t.op = task[p].op /\ t.key = task[p].key
          /\ t.req = task[p].req /\ t.exp = task[p].exp /\ t.undo = task[p].undo
      BY <1>0 DEF TaskState
    <2>2. Set(p, t)
      BY <1>2 DEF Goto
    <2> HIDE DEF t
    <2>3. LedgerTask(t)
      BY <1>0, <1>2, <2>1 DEF LedgerTask, Granted, Working
    <2> QED BY <1>0, <1>2, <2>2, <2>3, StillPromised
  <1>3. CASE AddAccess(p) \/ RemoveAccess(p) \/ ModifyExpiration(p)
    <2>1. task[p].pc \in Working /\ UNCHANGED <<now, request, sub>>
      BY <1>3 DEF AddAccess, RemoveAccess, ModifyExpiration, At, Working
    <2>2. Return(p) \/ \E label \in {"remove", "readd", "modify", "commit"} : Goto(p, label)
      BY <1>3 DEF AddAccess, RemoveAccess, ModifyExpiration, Synced, Exists
    <2> QED BY <1>1, <1>2, <2>1, <2>2
  <1>4. CASE FindActive(p)
    <2>1. PICK i \in Subs \cup {0} :
            /\ IsFirstActive(i, task[p].key)
            /\ Set(p, [task[p] EXCEPT !.pc = "snapshot", !.sub = i,
                      !.exp = calculateExpiration(task[p].dur, Base(i))])
      BY <1>4 DEF FindActive
    <2> DEFINE t == [task[p] EXCEPT !.pc = "snapshot", !.sub = i,
                       !.exp = calculateExpiration(task[p].dur, Base(i))]
    <2>2. /\ task[p].op = "approve" /\ task[p].dur = request[task[p].req].dur
          /\ UNCHANGED <<now, request, sub>> /\ task[p].dur \in Expiry
      BY <1>0, <1>4 DEF FindActive, At, SoundTask, LedgerTask, TaskState
    <2>3. /\ now \in 0..now
          /\ calculateExpiration(task[p].dur, Base(i))
               = Ledger!Extend(Entitled(task[p].key), task[p].dur, now)
      BY <1>0, <2>1, <2>2, ExtendIs DEF IsFirstActive
    <2>4. /\ t.pc = "snapshot" /\ t.op = "approve" /\ t.key = task[p].key
          /\ t.req = task[p].req
          /\ t.exp = Ledger!Extend(Entitled(task[p].key), task[p].dur, now)
      BY <1>0, <2>2, <2>3 DEF TaskState
    <2> HIDE DEF t
    <2>5. LedgerTask(t)
      BY <2>2, <2>3, <2>4 DEF LedgerTask, Granted
    <2> QED BY <1>0, <2>1, <2>2, <2>5, StillPromised DEF t
  <1>5. CASE RevokeNext(p)
    <2>1. PICK i \in task[p].todo :
            Set(p, [task[p] EXCEPT !.pc = "remove", !.key = sub[i].key,
                                   !.sub = i, !.todo = @ \ {i}])
      BY <1>5 DEF RevokeNext
    <2> DEFINE t == [task[p] EXCEPT !.pc = "remove", !.key = sub[i].key,
                                    !.sub = i, !.todo = @ \ {i}]
    <2>2. t.pc = "remove" /\ t.op = "expire" /\ UNCHANGED <<now, request, sub>>
      BY <1>0, <1>5 DEF RevokeNext, At, SoundTask, TaskState
    <2> HIDE DEF t
    <2>3. LedgerTask(t)
      BY <2>2 DEF LedgerTask
    <2> QED BY <1>0, <2>1, <2>2, <2>3, StillPromised DEF t
  <1>6. CASE snapshotTradingViewAccess(p)
    <2> DEFINE t == [task[p] EXCEPT !.pc = "add", !.snap = remote[task[p].key]]
    <2>1. /\ t.pc = "add" /\ t.op = task[p].op /\ t.key = task[p].key
          /\ t.req = task[p].req /\ t.exp = task[p].exp /\ t.undo = task[p].undo
          /\ task[p].pc = "snapshot" /\ Set(p, t) /\ UNCHANGED <<now, request, sub>>
      BY <1>0, <1>6 DEF snapshotTradingViewAccess, At, TaskState
    <2> HIDE DEF t
    <2>2. LedgerTask(t)
      BY <1>0, <2>1 DEF LedgerTask, Granted, Working
    <2> QED BY <1>0, <2>1, <2>2, StillPromised
  <1> QED BY <1>1, <1>3, <1>4, <1>5, <1>6
          DEF Step, CreateRequest, CommitClose, Refuse, Commit

LEMMA InitLInv == Serial /\ Init => LInv
  <1> SUFFICES ASSUME Serial, Init PROVE LInv
    OBVIOUS
  <1>1. ApprovesOwnKey /\ Promised
    BY DEF Init, ApprovesOwnKey, Promised, LedgerTask, Idle, Working
  <1> QED BY <1>1, InitCInv DEF LInv

LEMMA StepLInv == LInv /\ [Next]_vars => LInv'
  <1> SUFFICES ASSUME LInv, [Next]_vars PROVE LInv'
    OBVIOUS
  <1>0. CInv /\ TInv /\ Serial /\ TypeOK
    BY DEF LInv, CInv, SInv, TInv
  <1>1. ASSUME Crash PROVE Promised'
    <2>1. LedgerTask(Idle)'
      BY DEF LedgerTask, Idle, Working
    <2>2. \A p \in Procs : task'[p] = Idle
      BY <1>1 DEF Crash
    <2> QED BY <2>1, <2>2 DEF Promised, LedgerTask
  <1>2. ASSUME Tick \/ UNCHANGED vars PROVE Promised'
    <2>1. UNCHANGED <<request, sub, task>> /\ (UNCHANGED now \/ Tick)
      BY <1>2 DEF Tick, vars
    <2>2. ASSUME NEW p \in Procs PROVE LedgerTask(task[p])'
      <3>1. PICK t : t = task[p]
        OBVIOUS
      <3>2. LedgerTask(t)'
        BY <1>0, <2>1, <3>1, PromiseStays DEF LInv, Promised
      <3> QED BY <2>1, <3>1, <3>2 DEF LedgerTask
    <2> QED BY <2>2 DEF Promised, LedgerTask
  <1>3. Promised'
    BY <1>1, <1>2, ArrivePromised, StepPromised DEF Next, Procs
  <1> QED BY <1>0, <1>3, StepCInv, ApprovesOwnKeyStep DEF LInv

\* A pair whose active rows stay keeps its entitlement.
LEMMA SameEntitlement ==
  ASSUME OneActive, OneActive', NEW k, ActiveSubs(k)' = ActiveSubs(k),
         \A i \in ActiveSubs(k) : sub'[i].exp = sub[i].exp
  PROVE  Entitled(k)' = Entitled(k)
  <1>1. EntitledExact /\ EntitledExact'
    BY EntitledIs, PTL
  <1> QED BY <1>1 DEF EntitledExact

\* The ledger as a function, where one entitlement changes.
LEMMA OneEntitlement ==
  ASSUME NEW k \in Keys, NEW e, Entitled(k)' = e,
         \A j \in Keys \ {k} : Entitled(j)' = Entitled(j)
  PROVE  [j \in Keys |-> Entitled(j)]'
           = [[j \in Keys |-> Entitled(j)] EXCEPT ![k] = e]
  OBVIOUS

\* A commit that writes is one decision, one extension or one end.
LEMMA WriteLedger ==
  ASSUME LInv, OneActive', NEW p \in Procs, Commit(p), Write(task[p])
  PROVE  [Ledger!Next]_(Ledger!vars)
  <1>0. /\ CInv /\ Serial /\ TInv /\ TypeOK /\ Sound /\ OneActive /\ UNCHANGED now
        /\ request \in [Requests -> RequestRow] /\ sub \in [Subs -> SubRow]
        /\ CallTask(task[p]) /\ SoundTask(task[p]) /\ LedgerTask(task[p])
        /\ task[p].pc = "commit" /\ ~ task[p].undo
        /\ task[p].op = "approve" => /\ task[p].req \in Requests
                                     /\ task[p].key = request[task[p].req].key
    BY DEF LInv, CInv, SInv, TInv, TypeOK, Calling, Sound, Promised, ApprovesOwnKey,
           Commit, At, TaskTyped, TypedTask
  <1>1. EntitledExact /\ EntitledExact'
    BY <1>0, EntitledIs, PTL
  <1>2. PICK k \in Keys : k = task[p].key
    BY <1>0 DEF CallTask, Working
  <1>3. \A j \in Keys \ {k} : Entitled(j)' = Entitled(j)
    BY <1>0, <1>2, CommitOthers, SameEntitlement
  <1>4. ASSUME task[p].op \in {"approve", "grant", "renew"}
        PROVE  Entitled(k)' = task[p].exp
    <2>1. PICK i \in Subs : ActiveSubs(k)' = {i} /\ sub'[i].exp = task[p].exp
      BY <1>0, <1>2, <1>4, CommitExtends
    <2> QED BY <1>1, <2>1 DEF EntitledExact
  <1>5. CASE task[p].op = "approve"
    <2>1. PICK r \in Requests : r = task[p].req
      BY <1>0, <1>5
    <2>2. PICK s \in 0..now :
            task[p].exp = Ledger!Extend(Entitled(k), request[r].dur, s)
      BY <1>0, <1>2, <1>5, <2>1 DEF LedgerTask, Granted, Working
    <2>3. request[r].status = "pending" /\ request[r].key = k
          /\ request' = [request EXCEPT ![r].status = "approved"]
      BY <1>0, <1>2, <1>5, <2>1 DEF SoundTask, Pending, Write, SaveApproval
    <2>4. [j \in Keys |-> Entitled(j)]'
            = [[j \in Keys |-> Entitled(j)] EXCEPT ![request[r].key] =
                  Ledger!Extend(@, request[r].dur, s)]
      BY <1>3, <1>4, <1>5, <2>2, <2>3, OneEntitlement
    <2>5. Ledger!Approve(r)
      BY <1>0, <2>3, <2>4 DEF Ledger!Approve, Ledger!Decide
    <2> QED BY <2>5 DEF Ledger!Next
  <1>6. CASE task[p].op = "grant"
    <2>1. PICK d \in Durations, s \in 0..now :
            task[p].exp = Ledger!Extend(NoAccess, d, s)
      BY <1>0, <1>6 DEF LedgerTask, Granted, Working
    <2>2. Entitled(k) = NoAccess
      BY <1>0, <1>1, <1>2, <1>6 DEF SoundTask, Working, EntitledExact
    <2>3. [j \in Keys |-> Entitled(j)]'
            = [[j \in Keys |-> Entitled(j)] EXCEPT ![k] =
                  Ledger!Extend(NoAccess, d, s)]
      BY <1>3, <1>4, <1>6, <2>1, OneEntitlement
    <2>4. Ledger!Grant(k)
      BY <1>0, <1>6, <2>2, <2>3 DEF Ledger!Grant, Write, CreateGrant
    <2> QED BY <2>4 DEF Ledger!Next
  <1>7. CASE task[p].op = "renew"
    <2>1. PICK d \in Durations, s \in 0..now :
            task[p].exp = Ledger!Extend(Entitled(k), d, s)
      BY <1>0, <1>2, <1>7 DEF LedgerTask, Granted, Working
    <2>2. Entitled(k) # NoAccess
      <3>1. task[p].sub \in ActiveSubs(k)
        BY <1>0, <1>2, <1>7 DEF SoundTask, CallTask, ActiveSubs
      <3> QED BY <1>0, <1>1, <3>1, AccessAssumption
              DEF EntitledExact, ActiveSubs, SubRow, Expiry
    <2>3. [j \in Keys |-> Entitled(j)]'
            = [[j \in Keys |-> Entitled(j)] EXCEPT ![k] = Ledger!Extend(@, d, s)]
      BY <1>3, <1>4, <1>7, <2>1, OneEntitlement
    <2>4. Ledger!Renew(k)
      BY <1>0, <1>7, <2>2, <2>3 DEF Ledger!Renew, Write, UpdateExpiration
    <2> QED BY <2>4 DEF Ledger!Next
  <1>8. CASE task[p].op \in {"revoke", "expire"}
    <2>1. /\ ActiveSubs(k)' = ActiveSubs(k) \ {task[p].sub}
          /\ \A i \in ActiveSubs(k) : sub'[i].exp = sub[i].exp
          /\ UNCHANGED request
      BY <1>0, <1>2, <1>8, CommitEnds
    <2>2. CASE task[p].sub \in ActiveSubs(k)
      <3>1. ActiveSubs(k)' = {}
        BY <1>0, <2>1, <2>2 DEF OneActive, ActiveSubs
      <3>2. Entitled(k)' = NoAccess
        BY <1>1, <3>1 DEF EntitledExact
      <3>3. [j \in Keys |-> Entitled(j)]'
              = [[j \in Keys |-> Entitled(j)] EXCEPT ![k] = NoAccess]
        BY <1>3, <3>2, OneEntitlement
      <3>4. Ledger!End(k)
        BY <1>0, <2>1, <3>3 DEF Ledger!End
      <3> QED BY <3>4 DEF Ledger!Next
    <2>3. CASE task[p].sub \notin ActiveSubs(k)
      <3>1. Entitled(k)' = Entitled(k)
        BY <1>0, <2>1, <2>3, SameEntitlement
      <3> QED BY <1>0, <1>3, <2>1, <3>1 DEF Ledger!vars
    <2> QED BY <2>2, <2>3
  <1> QED BY <1>0, <1>5, <1>6, <1>7, <1>8 DEF CallTask

\* Requests that come in, and requests that are closed without an approval.
LEMMA RequestLedger ==
  ASSUME LInv, NEW p \in Procs, CreateRequest(p) \/ CommitClose(p)
  PROVE  [Ledger!Next]_(Ledger!vars)
  <1>0. /\ UNCHANGED <<now, sub>> /\ request \in [Requests -> RequestRow]
        /\ SoundTask(task[p]) /\ LedgerTask(task[p])
    BY DEF LInv, CInv, SInv, TInv, TypeOK, Sound, Promised, CreateRequest, CommitClose
  <1>1. [j \in Keys |-> Entitled(j)]' = [j \in Keys |-> Entitled(j)]
    BY <1>0 DEF Entitled, ActiveSubs, IsFirstActive
  <1>2. CASE UNCHANGED request
    BY <1>0, <1>1, <1>2 DEF Ledger!vars
  <1>3. CASE CreateRequest(p) /\ ~ UNCHANGED request
    <2>1. PICK r \in Requests :
            /\ request[r].status = "none"
            /\ request' = [request EXCEPT ![r] =
                    [status |-> "pending", agent |-> task[p].agent,
                     key |-> task[p].key, dur |-> task[p].dur]]
      BY <1>3 DEF CreateRequest, IsNextRow
    <2>2. /\ task[p].agent \in Agents /\ task[p].key \in Keys
          /\ task[p].dur \in Durations
          /\ ~ PendingDuplicate(task[p].agent, task[p].key)
      BY <1>0, <1>3 DEF CreateRequest, At, LedgerTask, SoundTask
    <2>3. ~ Ledger!Duplicate(r)
      BY <1>0, <2>1, <2>2 DEF Ledger!Duplicate, PendingDuplicate, Pending
    <2>4. Ledger!Submit(r)
      BY <1>0, <1>1, <2>1, <2>2, <2>3 DEF Ledger!Submit
    <2> QED BY <2>4 DEF Ledger!Next
  <1>4. CASE CommitClose(p) /\ ~ UNCHANGED request
    <2>1. PICK r \in Requests : r = task[p].req /\ Pending(r)
      BY <1>0, <1>4 DEF CommitClose, At, SoundTask
    <2>2. Ledger!Decide(r, "rejected") \/ Ledger!Decide(r, "cancelled")
      BY <1>4, <2>1 DEF CommitClose, Pending, Ledger!Decide
    <2>3. Ledger!Close(r)
      BY <1>0, <1>1, <2>2 DEF Ledger!Close
    <2> QED BY <2>3 DEF Ledger!Next
  <1> QED BY <1>2, <1>3, <1>4

\* Every other step leaves the ledger alone.
LEMMA LedgerStep ==
  ASSUME LInv, LInv', [Next]_vars
  PROVE  [Ledger!Next]_(Ledger!vars)
  <1>0. OneActive'
    BY DEF LInv, CInv, SInv
  <1>1. ASSUME UNCHANGED <<request, sub>>, UNCHANGED now \/ Tick
        PROVE  [Ledger!Next]_(Ledger!vars)
    <2>1. [j \in Keys |-> Entitled(j)]' = [j \in Keys |-> Entitled(j)]
      BY <1>1 DEF Entitled, ActiveSubs, IsFirstActive
    <2>2. CASE UNCHANGED now
      BY <1>1, <2>1, <2>2 DEF Ledger!vars
    <2>3. CASE Tick
      <3>1. Ledger!Tick
        BY <1>1, <2>1, <2>3 DEF Tick, Ledger!Tick
      <3> QED BY <3>1 DEF Ledger!Next
    <2> QED BY <1>1, <2>2, <2>3
  <1>2. ASSUME NEW p \in Procs, Commit(p) PROVE [Ledger!Next]_(Ledger!vars)
    <2>1. UNCHANGED now /\ (Write(task[p]) \/ UNCHANGED <<request, sub>>)
      BY <1>2 DEF Commit
    <2> QED BY <1>0, <1>1, <1>2, <2>1, WriteLedger
  <1>3. \/ \E p \in Procs : Commit(p) \/ CreateRequest(p) \/ CommitClose(p)
        \/ UNCHANGED <<request, sub>> /\ (UNCHANGED now \/ Tick)
    BY DEF Next, vars, Step, Arrive, FindActive, Refuse, RevokeNext,
           snapshotTradingViewAccess, AddAccess, RemoveAccess, ModifyExpiration,
           SubmitRequest, CloseRequest, ApproveRequest, DirectGrant, DirectRenew,
           Revoke, RevokeExpired, Tick, Crash
  <1> QED BY <1>1, <1>2, <1>3, RequestLedger

LEMMA LedgerInit == Init => Ledger!Init
  <1> SUFFICES ASSUME Init PROVE Ledger!Init
    OBVIOUS
  <1>1. \A k \in Keys : ActiveSubs(k) = {}
    BY DEF Init, ActiveSubs, NoSubRow
  <1>2. \A k \in Keys : Entitled(k) = NoAccess
    BY <1>1 DEF Entitled
  <1> QED BY <1>2 DEF Init, Ledger!Init, NoRequestRow

\* Operations that do not overlap implement the ledger: every commit is one
\* decision, one extension or one end of an entitlement, and no other step
\* changes one, whatever TradingView answers and whatever fails.
THEOREM LedgerImplemented == Serial => (Spec => ImplementsLedger)
  <1>1. LInv /\ LInv' /\ [Next]_vars => [Ledger!Next]_(Ledger!vars)
    BY LedgerStep
  <1> QED BY <1>1, InitLInv, StepLInv, LedgerInit, PTL
          DEF Spec, ImplementsLedger, Ledger!Spec
=============================================================================
