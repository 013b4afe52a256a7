----------------------------- MODULE AccessGrant -----------------------------
(***************************************************************************)
(* The authorization core of license-tv: the access requests an agent      *)
(* submits, the subscriptions the back office keeps, and the access that   *)
(* TradingView itself holds for each (customer, script) pair.              *)
(*                                                                         *)
(* ReviewService, SubscriptionService and the expiry job of the scheduler  *)
(* all change a subscription and the remote access together, with plain    *)
(* reads first, HTTP calls to TradingView next and one database write      *)
(* last.  A goroutine serving one of these operations is a process here,   *)
(* and each read, each HTTP call and each commit is one step, so that the  *)
(* steps of different requests interleave as they do in the server.        *)
(*                                                                         *)
(* A commit stands for the whole transaction: its row updates and the      *)
(* operation log become visible together or not at all.                    *)
(***************************************************************************)
EXTENDS Integers, FiniteSets

CONSTANTS
    Handlers,     \* goroutines that serve HTTP requests
    Jobs,         \* goroutines that run the cron job RevokeExpired
    Keys,         \* (customer, script) pairs; one TradingView user and script
    Agents,       \* agents that may submit requests
    Durations,    \* what a plan adds: a number of time units, or Lifetime
    Lifetime,     \* an access with no expiration (expires_at NULL)
    NoAccess,     \* TradingView holds no access
    NoKey,        \* filler of the key field of an idle process
    NoAgent,      \* filler of the agent field of an idle process
    Ops,          \* the operations in use
    Faults,       \* the kinds of fault that may happen
    MaxFaults,    \* bound: faults of a behaviour
    MaxRequests,  \* bound: rows of access_requests
    MaxSubs,      \* bound: rows of subscriptions
    MaxTime,      \* bound: the clock
    MaxExpiry     \* bound: expirations computed from the clock

OpNames == {"submit", "cancel", "reject", "approve", "grant", "renew",
            "revoke", "expire"}

(* tv_error: TradingView did not apply the call and the proxy reports an   *)
(* error.  tv_lost: applied, yet every attempt of doRequest failed, so an  *)
(* error is reported.  tv_retry: applied, the answer was lost, and the     *)
(* retry of doRequest was answered "exists".  db_error: the transaction    *)
(* rolled back.  db_lost: it committed and the acknowledgement was lost.   *)
FaultNames == {"tv_error", "tv_lost", "tv_retry", "db_error", "db_lost",
               "crash"}

ASSUME NatAssumption == /\ MaxFaults \in Nat /\ MaxRequests \in Nat
                        /\ MaxSubs \in Nat /\ MaxTime \in Nat
                        /\ MaxExpiry \in Nat
ASSUME AccessAssumption == /\ Lifetime \notin Nat /\ NoAccess \notin Nat
                           /\ Lifetime # NoAccess
ASSUME DurationsAssumption == Durations \subseteq (Nat \ {0}) \cup {Lifetime}
ASSUME FillerAssumption == NoKey \notin Keys /\ NoAgent \notin Agents
ASSUME OpsAssumption == Ops \subseteq OpNames /\ Faults \subseteq FaultNames

VARIABLES
    now,      \* the clock
    request,  \* table access_requests
    sub,      \* table subscriptions
    remote,   \* TradingView: the expiration of each access, or NoAccess
    task,     \* what each goroutine is doing
    faults    \* faults so far

vars == <<now, request, sub, remote, task, faults>>

Procs    == Handlers \cup Jobs
Requests == 1..MaxRequests
Subs     == 1..MaxSubs
Expiry   == Nat \cup {Lifetime}
Access   == Expiry \cup {NoAccess}

RequestRow == [status : {"none", "pending", "approved", "rejected", "cancelled"},
               agent : Agents \cup {NoAgent},
               key : Keys \cup {NoKey},
               dur : Expiry]

SubRow == [status : {"none", "active", "expired", "revoked"},
           key : Keys \cup {NoKey},
           exp : Expiry,
           granted : BOOLEAN,
           req : Requests \cup {0}]

Labels == {"idle", "create", "close", "lookup", "snapshot", "add", "remove",
           "readd", "modify", "commit", "scan"}

TaskState == [pc : Labels,
              op : OpNames \cup {"none"},
              req : Requests \cup {0},
              agent : Agents \cup {NoAgent},
              key : Keys \cup {NoKey},
              dur : Expiry,
              sub : Subs \cup {0},         \* 0: no subscription found
              exp : Access,                \* what TradingView should hold
              snap : Access,               \* what it held before
              undo : BOOLEAN,              \* restoring the snapshot
              todo : SUBSET Subs]          \* rest of an expiry scan

Idle == [pc |-> "idle", op |-> "none", req |-> 0, agent |-> NoAgent,
         key |-> NoKey, dur |-> 0, sub |-> 0, exp |-> NoAccess,
         snap |-> NoAccess, undo |-> FALSE, todo |-> {}]

NoRequestRow == [status |-> "none", agent |-> NoAgent, key |-> NoKey, dur |-> 0]

NoSubRow == [status |-> "none", key |-> NoKey, exp |-> 0, granted |-> FALSE,
             req |-> 0]

TypeOK ==
    /\ now \in Nat
    /\ request \in [Requests -> RequestRow]
    /\ sub \in [Subs -> SubRow]
    /\ remote \in [Keys -> Access]
    /\ task \in [Procs -> TaskState]
    /\ faults \in Nat

Init ==
    /\ now = 0
    /\ request = [r \in Requests |-> NoRequestRow]
    /\ sub = [i \in Subs |-> NoSubRow]
    /\ remote = [k \in Keys |-> NoAccess]
    /\ task = [p \in Procs |-> Idle]
    /\ faults = 0

-----------------------------------------------------------------------------
(* Reading the tables.                                                     *)

ActiveSubs(k) == {i \in Subs : sub[i].key = k /\ sub[i].status = "active"}

\* Mutant: approval does not look for an active row.
IsFirstActiveSkipped(i, k) == i = 0

\* First() orders by primary key: the oldest active row, or 0.
IsFirstActive(i, k) ==
    IF ActiveSubs(k) = {} THEN i = 0
    ELSE i \in ActiveSubs(k) /\ \A j \in ActiveSubs(k) : i <= j

\* The status check of approval, rejection and cancellation.
PendingUnchecked(r) == request[r].status # "none" \* mutant: no check
Pending(r) == request[r].status = "pending"

\* Mutant: only decided requests count as duplicates.
PendingDuplicateDecided(a, k) ==
    \E r \in Requests : /\ request[r].status = "approved"
                        /\ request[r].agent = a
                        /\ request[r].key = k

PendingDuplicate(a, k) ==
    \E r \in Requests : /\ Pending(r)
                        /\ request[r].agent = a
                        /\ request[r].key = k

\* Auto-increment: rows are allotted in order.
IsNextRow(table, i) == /\ table[i].status = "none"
                       /\ \A j \in DOMAIN table : j < i => table[j].status # "none"

\* Bound: an operation that will insert a row starts only if one is left.
RowLeft(table) == \E i \in DOMAIN table : table[i].status = "none"

\* Mutant: a renewal starts at the clock and loses what is left.
BaseNow(i) == now

\* An active subscription is extended from its end, not from the clock.
Base(i) == IF i # 0 /\ sub[i].exp # Lifetime /\ sub[i].exp > now
           THEN sub[i].exp ELSE now

calculateExpiration(d, base) == IF d = Lifetime THEN Lifetime ELSE base + d

InBound(e) == e # Lifetime => e <= MaxExpiry

-----------------------------------------------------------------------------
(* Control of one goroutine.                                               *)

At(p, label) == task[p].pc = label

Start(p, op) == op \in Ops /\ At(p, "idle")

Set(p, t) == task' = [task EXCEPT ![p] = t]

Goto(p, label) == Set(p, [task[p] EXCEPT !.pc = label])

\* The operation returns; an expiry scan goes on with its next row.
Return(p) ==
    Set(p, IF task[p].todo = {} THEN Idle
           ELSE [Idle EXCEPT !.pc = "scan", !.op = "expire",
                             !.todo = task[p].todo])

Fault(f) == f \in Faults /\ faults < MaxFaults /\ faults' = faults + 1

Quiet == UNCHANGED faults

\* The next TradingView call needed to make an access what t.exp asks for.
FirstCall(t) == IF t.exp = NoAccess THEN "remove" ELSE "add"

-----------------------------------------------------------------------------
(* Requests: submit, cancel, reject.                                       *)

\* Reads that find no pending request of this agent for this pair.
SubmitRequest(p) ==
    /\ Start(p, "submit")
    /\ RowLeft(request)
    /\ \E a \in Agents, k \in Keys, d \in Durations :
         /\ ~ PendingDuplicate(a, k)
         /\ Set(p, [Idle EXCEPT !.pc = "create", !.op = "submit",
                                !.agent = a, !.key = k, !.dur = d])
    /\ UNCHANGED <<now, request, sub, remote, faults>>

CreateRequest(p) ==
    /\ At(p, "create")
    /\ \/ /\ \E r \in Requests :
               /\ IsNextRow(request, r)
               /\ request' = [request EXCEPT ![r] =
                    [status |-> "pending", agent |-> task[p].agent,
                     key |-> task[p].key, dur |-> task[p].dur]]
          /\ Quiet
       \/ Fault("db_error") /\ UNCHANGED request
    /\ Return(p)
    /\ UNCHANGED <<now, sub, remote>>

\* CancelRequest and RejectRequest read the status here ...
CloseRequest(p, op) ==
    /\ op \in {"cancel", "reject"}
    /\ Start(p, op)
    /\ \E r \in Requests :
         /\ Pending(r)
         /\ Set(p, [Idle EXCEPT !.pc = "close", !.op = op, !.req = r])
    /\ UNCHANGED <<now, request, sub, remote, faults>>

\* ... and update the row by its id alone here.
CommitClose(p) ==
    /\ At(p, "close")
    /\ \/ /\ request' = [request EXCEPT ![task[p].req].status =
                IF task[p].op = "cancel" THEN "cancelled" ELSE "rejected"]
          /\ Quiet
       \/ Fault("db_error") /\ UNCHANGED request
    /\ Return(p)
    /\ UNCHANGED <<now, sub, remote>>

-----------------------------------------------------------------------------
(* Starting an operation that changes access.                              *)

\* The first reads of ApproveRequest: the request must be pending.
ApproveRequest(p) ==
    /\ Start(p, "approve")
    /\ \E r \in Requests :
         /\ Pending(r)
         /\ Set(p, [Idle EXCEPT !.pc = "lookup", !.op = "approve", !.req = r,
                                !.key = request[r].key, !.dur = request[r].dur])
    /\ UNCHANGED <<now, request, sub, remote, faults>>

\* Its later read of the active subscription, and the new expiration.
FindActive(p) ==
    /\ At(p, "lookup")
    /\ \E i \in Subs \cup {0} :
         LET e == calculateExpiration(task[p].dur, Base(i))
         IN  /\ IsFirstActive(i, task[p].key)
             /\ i = 0 => RowLeft(sub)
             /\ InBound(e)
             /\ Set(p, [task[p] EXCEPT !.pc = "snapshot", !.sub = i, !.exp = e])
    /\ UNCHANGED <<now, request, sub, remote, faults>>

\* The transaction of DirectGrant counts active subscriptions and finds none.
DirectGrant(p) ==
    /\ Start(p, "grant")
    /\ RowLeft(sub)
    /\ \E k \in Keys, d \in Durations :
         LET e == calculateExpiration(d, now)
         IN  /\ ActiveSubs(k) = {}
             /\ InBound(e)
             /\ Set(p, [Idle EXCEPT !.pc = "snapshot", !.op = "grant",
                                    !.key = k, !.exp = e])
    /\ UNCHANGED <<now, request, sub, remote, faults>>

\* A lifetime renewal removes the access before it adds it again.
DirectRenew(p) ==
    /\ Start(p, "renew")
    /\ \E i \in Subs, d \in Durations :
         LET e == calculateExpiration(d, Base(i))
         IN  /\ sub[i].status = "active"
             /\ InBound(e)
             /\ Set(p, [Idle EXCEPT
                          !.pc = IF e = Lifetime THEN "remove" ELSE "modify",
                          !.op = "renew", !.key = sub[i].key, !.sub = i,
                          !.exp = e])
    /\ UNCHANGED <<now, request, sub, remote, faults>>

\* Revoke looks the subscription up and does not look at its status.
Revoke(p) ==
    /\ Start(p, "revoke")
    /\ \E i \in Subs :
         /\ sub[i].status # "none"
         /\ Set(p, [Idle EXCEPT !.pc = "remove", !.op = "revoke",
                                !.key = sub[i].key, !.sub = i])
    /\ UNCHANGED <<now, request, sub, remote, faults>>

\* Mutants: takes back on the last day; misses what ended earlier.
OverdueEarly(i) == /\ sub[i].status = "active"
                   /\ sub[i].exp # Lifetime
                   /\ sub[i].exp <= now
OverdueJustNow(i) == /\ sub[i].status = "active"
                     /\ sub[i].exp # Lifetime
                     /\ sub[i].exp + 1 = now

Overdue(i) == /\ sub[i].status = "active"
              /\ sub[i].exp # Lifetime
              /\ sub[i].exp < now

\* The query of RevokeExpired; the loop below works from its result.
RevokeExpired(p) ==
    /\ Start(p, "expire")
    /\ LET expired == {i \in Subs : Overdue(i)}
       IN  Set(p, IF expired = {} THEN Idle
                  ELSE [Idle EXCEPT !.pc = "scan", !.op = "expire",
                                    !.todo = expired])
    /\ UNCHANGED <<now, request, sub, remote, faults>>

\* Mutant: the loop does not advance.
RevokeNextStuck(p) ==
    /\ At(p, "scan")
    /\ \E i \in task[p].todo :
         Set(p, [task[p] EXCEPT !.pc = "remove", !.key = sub[i].key, !.sub = i])
    /\ UNCHANGED <<now, request, sub, remote, faults>>

RevokeNext(p) ==
    /\ At(p, "scan")
    /\ \E i \in task[p].todo :
         Set(p, [task[p] EXCEPT !.pc = "remove", !.key = sub[i].key,
                                !.sub = i, !.todo = @ \ {i}])
    /\ UNCHANGED <<now, request, sub, remote, faults>>

\* A disabled script, a customer TradingView does not know or a failed read
\* ends an approval or a grant before anything has changed.
Refuse(p) ==
    /\ task[p].pc \in {"lookup", "snapshot"}
    /\ Return(p)
    /\ UNCHANGED <<now, request, sub, remote, faults>>

-----------------------------------------------------------------------------
(* Calls to TradingView.                                                   *)

Holds(k) == remote[k] # NoAccess

Hold(k, e) == remote' = [remote EXCEPT ![k] = e]

\* The access is as wanted: write it down, or the compensation is complete.
Synced(p) == IF task[p].undo THEN Return(p) ELSE Goto(p, "commit")

snapshotTradingViewAccess(p) ==
    /\ At(p, "snapshot")
    /\ Set(p, [task[p] EXCEPT !.pc = "add", !.snap = remote[task[p].key]])
    /\ UNCHANGED <<now, request, sub, remote, faults>>

\* Mutant: "exists" counts as granted.
ExistsIsEnough(p) == Synced(p)

\* TradingView answers "exists" and leaves the access as it was.  Only the
\* first AddAccess of syncTradingViewAccess has an answer to that.
Exists(p) ==
    IF At(p, "readd") THEN Return(p)
    ELSE Goto(p, IF task[p].exp = Lifetime THEN "remove" ELSE "modify")

AddAccess(p) ==
    LET k == task[p].key
    IN  /\ task[p].pc \in {"add", "readd"}
        /\ \/ /\ ~ Holds(k) /\ Hold(k, task[p].exp)
              /\ Synced(p) /\ Quiet
           \/ /\ Holds(k) /\ UNCHANGED remote
              /\ Exists(p) /\ Quiet
           \/ /\ ~ Holds(k) /\ Hold(k, task[p].exp)
              /\ Exists(p) /\ Fault("tv_retry")
           \/ /\ ~ Holds(k) /\ Hold(k, task[p].exp)
              /\ Return(p) /\ Fault("tv_lost")
           \/ UNCHANGED remote /\ Return(p) /\ Fault("tv_error")
        /\ UNCHANGED <<now, request, sub>>

RemoveAccess(p) ==
    LET k == task[p].key
    IN  /\ At(p, "remove")
        /\ \/ /\ Hold(k, NoAccess) /\ Quiet
              /\ IF task[p].exp = Lifetime THEN Goto(p, "readd") ELSE Synced(p)
           \/ Hold(k, NoAccess) /\ Return(p) /\ Fault("tv_lost")
           \/ UNCHANGED remote /\ Return(p) /\ Fault("tv_error")
        /\ UNCHANGED <<now, request, sub>>

\* There is nothing to modify once the access is gone: TradingView refuses.
ModifyExpiration(p) ==
    LET k == task[p].key
    IN  /\ At(p, "modify")
        /\ \/ /\ Holds(k) /\ Hold(k, task[p].exp)
              /\ Synced(p) /\ Quiet
           \/ /\ ~ Holds(k) /\ UNCHANGED remote
              /\ Return(p) /\ Quiet
           \/ /\ Holds(k) /\ Hold(k, task[p].exp)
              /\ Return(p) /\ Fault("tv_lost")
           \/ UNCHANGED remote /\ Return(p) /\ Fault("tv_error")
        /\ UNCHANGED <<now, request, sub>>

-----------------------------------------------------------------------------
(* Writing the result down.                                                *)

\* Mutant: an update of the changed columns, without the status.
SaveApprovalColumns(t) ==
    \E i \in Subs :
        /\ IF t.sub = 0 THEN IsNextRow(sub, i) ELSE i = t.sub
        /\ sub' = IF t.sub = 0
                  THEN [sub EXCEPT ![i] = [status |-> "active", key |-> t.key,
                           exp |-> t.exp, granted |-> TRUE, req |-> t.req]]
                  ELSE [sub EXCEPT ![i].exp = t.exp, ![i].req = t.req]
        /\ request' = [request EXCEPT ![t.req].status = "approved"]

\* Save() of the row read before the calls, or a new row.
SaveApproval(t) ==
    \E i \in Subs :
        /\ IF t.sub = 0 THEN IsNextRow(sub, i) ELSE i = t.sub
        /\ sub' = [sub EXCEPT ![i] = [status |-> "active", key |-> t.key,
                        exp |-> t.exp, granted |-> TRUE, req |-> t.req]]
        /\ request' = [request EXCEPT ![t.req].status = "approved"]

CreateGrant(t) ==
    \E i \in Subs :
        /\ IsNextRow(sub, i)
        /\ sub' = [sub EXCEPT ![i] = [status |-> "active", key |-> t.key,
                        exp |-> t.exp, granted |-> TRUE, req |-> 0]]
        /\ UNCHANGED request

UpdateExpiration(t) ==
    /\ sub' = [sub EXCEPT ![t.sub].exp = t.exp]
    /\ UNCHANGED request

\* Mutant: clears the end.
MarkEndedCleared(t, status) ==
    /\ sub' = [sub EXCEPT ![t.sub].status = status, ![t.sub].granted = FALSE,
                          ![t.sub].exp = NoAccess]
    /\ UNCHANGED request

MarkEnded(t, status) ==
    /\ sub' = [sub EXCEPT ![t.sub].status = status, ![t.sub].granted = FALSE]
    /\ UNCHANGED request

Write(t) ==
    \/ t.op = "approve" /\ SaveApproval(t)
    \/ t.op = "grant"   /\ CreateGrant(t)
    \/ t.op = "renew"   /\ UpdateExpiration(t)
    \/ t.op = "revoke"  /\ MarkEnded(t, "revoked")
    \/ t.op = "expire"  /\ MarkEnded(t, "expired")

\* Mutants: no compensation; compensation towards the new end.
CompensateNever(p) == Return(p)
CompensateForward(p) ==
    IF task[p].op \in {"approve", "grant"}
    THEN Set(p, [task[p] EXCEPT !.undo = TRUE, !.pc = FirstCall(task[p])])
    ELSE Return(p)

\* compensateApproveFailure and compensateDirectGrantFailure put the snapshot
\* back; renewal, revocation and the expiry job just report the error.
Compensate(p) ==
    IF task[p].op \in {"approve", "grant"}
    THEN LET back == [task[p] EXCEPT !.exp = task[p].snap, !.undo = TRUE]
         IN  Set(p, [back EXCEPT !.pc = FirstCall(back)])
    ELSE Return(p)

Commit(p) ==
    /\ At(p, "commit")
    /\ \/ Write(task[p]) /\ Return(p) /\ Quiet
       \/ UNCHANGED <<request, sub>> /\ Compensate(p) /\ Fault("db_error")
       \/ Write(task[p]) /\ Compensate(p) /\ Fault("db_lost")
    /\ UNCHANGED <<now, remote>>

-----------------------------------------------------------------------------
\* The server dies: open transactions roll back, every goroutine is gone.
Crash ==
    /\ Fault("crash")
    /\ task' = [p \in Procs |-> Idle]
    /\ UNCHANGED <<now, request, sub, remote>>

Tick ==
    /\ now < MaxTime
    /\ now' = now + 1
    /\ UNCHANGED <<request, sub, remote, task, faults>>

\* The next step of a goroutine that is busy.
Step(p) ==
    \/ CreateRequest(p)
    \/ CommitClose(p)
    \/ FindActive(p)
    \/ Refuse(p)
    \/ RevokeNext(p)
    \/ snapshotTradingViewAccess(p)
    \/ AddAccess(p)
    \/ RemoveAccess(p)
    \/ ModifyExpiration(p)
    \/ Commit(p)

\* A request arrives.
Arrive(p) ==
    \/ SubmitRequest(p)
    \/ \E op \in {"cancel", "reject"} : CloseRequest(p, op)
    \/ ApproveRequest(p)
    \/ DirectGrant(p)
    \/ DirectRenew(p)
    \/ Revoke(p)

Next ==
    \/ \E p \in Procs : Step(p)
    \/ \E p \in Handlers : Arrive(p)
    \/ \E p \in Jobs : RevokeExpired(p)
    \/ Tick
    \/ Crash

Spec == Init /\ [][Next]_vars

\* A goroutine that was started runs on, and cron starts the job again and
\* again; nobody has to send a request, and no fault has to happen.
Fairness ==
    /\ WF_vars(Tick)
    /\ \A p \in Procs : WF_vars(Step(p))
    /\ \A p \in Jobs : WF_vars(RevokeExpired(p))

FairSpec == Spec /\ Fairness

-----------------------------------------------------------------------------
(* Properties.                                                             *)

\* The end of an active subscription has passed.
Late(i) == sub[i].status = "active" /\ sub[i].exp # Lifetime /\ sub[i].exp < now

Quiescent == \A p \in Procs : task[p] = Idle

\* One goroutine at a time: what the sequential code promises, crashes and
\* faults included.
Serial == \A p, q \in Procs : p = q

\* The tv_granted column is written together with the status by approval,
\* grant, revocation and expiry, and by no other statement; whatever
\* interleaves, a row says "granted" exactly while it says "active".  The
\* access overview reads a disagreement of the two as corruption.
GrantFlagFollowsStatus ==
    \A i \in Subs : sub[i].granted <=> sub[i].status = "active"

\* ApproveRequest marks the request only in the transaction that leaves an
\* active, granted subscription of the same customer and script naming it.
ApprovalIsAtomic ==
    [][\A r \in Requests :
         request[r].status # "approved" /\ request'[r].status = "approved"
         => \E i \in Subs : /\ sub'[i].req = r
                            /\ sub'[i].status = "active"
                            /\ sub'[i].key = request[r].key]_vars

\* A compensation that ends without an error leaves TradingView with exactly
\* the access the operation had found there, lifetime accesses included.
CompensationRestores ==
    [][\A p \in Procs :
         /\ task[p].undo
         /\ task'[p].pc = "idle"
         /\ faults' = faults
         /\ remote' # remote
         => remote'[task[p].key] = task[p].snap]_vars

\* ErrSubscriptionExists and the lookup of an active row before approval keep
\* at most one active subscription per customer and script.
OneActive ==
    \A i, j \in Subs :
        /\ sub[i].status = "active" /\ sub[j].status = "active"
        /\ sub[i].key = sub[j].key
        => i = j

\* ErrRequestStatus: a request that was approved, rejected or cancelled
\* keeps that status.
RequestFinality ==
    [][\A r \in Requests :
         request[r].status \in {"approved", "rejected", "cancelled"}
         => request'[r].status = request[r].status]_vars

\* ensureNoPendingDuplicate: an agent has one pending request per customer
\* and script.
NoPendingDuplicates ==
    \A r, s \in Requests :
        /\ request[r].status = "pending" /\ request[s].status = "pending"
        /\ request[r].agent = request[s].agent
        /\ request[r].key = request[s].key
        => r = s

\* Approval and renewal only extend what a customer has paid for: the end of
\* an active subscription never moves to an earlier time, and the expiry job
\* takes back only what is over.  (A lifetime may be replaced by an end.)
PaidTimeKept ==
    [][\A i \in Subs :
         sub[i].status = "active" /\ sub[i].exp # Lifetime =>
            /\ sub'[i].status = "active" =>
                   sub'[i].exp = Lifetime \/ sub'[i].exp >= sub[i].exp
            /\ sub'[i].status = "expired" => sub[i].exp < now]_vars

\* Between operations, and as long as nothing failed, TradingView holds no
\* access that an active subscription with the same end does not account for.
NoOrphanAccess ==
    Quiescent /\ faults = 0 =>
        \A k \in Keys : Holds(k) =>
            \E i \in ActiveSubs(k) : sub[i].exp = remote[k]

\* Between operations an active subscription that is not overdue is held at
\* TradingView, with the same end.
ActiveIsGranted ==
    Quiescent => \A i \in Subs :
        sub[i].status = "active" /\ ~ Late(i) => remote[sub[i].key] = sub[i].exp

\* The same both ways, failed commits included: the compensation takes no
\* access away that an active subscription stands for, and leaves none behind.
TablesMatchTradingView ==
    /\ ActiveIsGranted
    /\ Quiescent => \A k \in Keys : Holds(k) =>
           \E i \in ActiveSubs(k) : sub[i].exp = remote[k]

\* The expiry job gets to every overdue subscription in the end, although a
\* call fails, the server dies or a renewal comes in between.
OverdueReclaimed == \A i \in Subs : Late(i) ~> ~ Late(i)

\* Every operation returns: neither the detours of an "exists" answer nor the
\* loop over the expired rows go on for ever.
OperationEnds == \A p \in Procs : task[p].pc # "idle" ~> task[p].pc = "idle"
=============================================================================
