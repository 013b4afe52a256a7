----------------------------- MODULE AccessSync -----------------------------
(***************************************************************************)
(* The snapshot tv_accesses of the accesses TradingView holds, one row per *)
(* script and TradingView user, which the audit and the access overview    *)
(* compare with the subscriptions.                                         *)
(*                                                                         *)
(* SyncAll, from cron or from the console, goes through the scripts; for   *)
(* each it reads TradingView's list page by page and then, in one          *)
(* transaction, reads the rows it has and writes the difference.           *)
(* TradingView's list changes meanwhile, and runs overlap.                 *)
(***************************************************************************)
EXTENDS Integers, FiniteSets, Sequences

CONSTANTS
    Handlers,    \* goroutines that serve a request for a run
    Jobs,        \* goroutines of the cron job
    Scripts,
    Broken,      \* scripts whose list TradingView refuses
    Users,       \* TradingView users
    Ends,        \* expirations (a user's name is data of the same kind)
    NoScript,    \* filler of an idle goroutine
    NoEnd,       \* filler of a row that does not exist yet
    PageSize,    \* limit of ListUsers
    MaxPages,    \* maxPages of ListAllUsers
    MaxChanges,  \* bound: changes of TradingView's lists
    MaxFaults    \* bound: failed pages and transactions

ASSUME SizeAssumption == /\ PageSize \in Nat \ {0} /\ MaxPages \in Nat \ {0}
                         /\ MaxChanges \in Nat /\ MaxFaults \in Nat
ASSUME UsersAssumption == /\ IsFiniteSet(Users)
                          /\ Cardinality(Users) <= PageSize * (MaxPages + 1)
ASSUME ScriptsAssumption == Broken \subseteq Scripts /\ NoScript \notin Scripts
ASSUME EndsAssumption == NoEnd \notin Ends

VARIABLES
    remote,   \* TradingView: the accesses of each script
    row,      \* table tv_accesses
    task,     \* what each goroutine is doing; calm: nothing has interfered with its script yet
    changes,  \* changes of remote so far; also the time of creation
    faults    \* faults so far

vars == <<remote, row, task, changes, faults>>

Syncers == Handlers \cup Jobs

NoRow == [status |-> "none", end |-> NoEnd]

\* What a cursor may stand for: the last entry delivered, or how many were.
FirstPage == [last |-> MaxChanges + 1, count |-> 0]

NoRows == [u \in Users |-> NoRow]

Idle == [pc |-> "idle", todo |-> {}, script |-> NoScript, cursor |-> FirstPage,
         seen |-> {}, listed |-> <<>>, local |-> NoRows, calm |-> TRUE]

Init ==
    /\ remote = [s \in Scripts |-> {}]
    /\ row = [s \in Scripts |-> NoRows]
    /\ task = [p \in Syncers |-> Idle]
    /\ changes = 0
    /\ faults = 0

At(p, label) == task[p].pc = label

Set(p, t) == task' = [task EXCEPT ![p] = t]

Fault == faults < MaxFaults /\ faults' = faults + 1

-----------------------------------------------------------------------------
(* TradingView.  Grants, renewals and revocations, and the owner of the    *)
(* scripts on TradingView's own pages, change the lists at any time.       *)

HeldBy(s, u) == {x \in remote[s] : x.user = u}

Change(s, entries) ==
    /\ changes < MaxChanges
    /\ changes' = changes + 1
    /\ remote' = [remote EXCEPT ![s] = entries]
    /\ task' = [p \in Syncers |->
                  IF task[p].script = s THEN [task[p] EXCEPT !.calm = FALSE]
                  ELSE task[p]]
    /\ UNCHANGED <<row, faults>>

\* Added, or removed and added again: the newest entry of the list.
AddAccess(s, u, e) ==
    Change(s, (remote[s] \ HeldBy(s, u))
                \cup {[user |-> u, end |-> e, created |-> changes + 1]})

RemoveAccess(s, u) ==
    HeldBy(s, u) # {} /\ Change(s, remote[s] \ HeldBy(s, u))

ModifyExpiration(s, u, e) ==
    \E x \in HeldBy(s, u) :
        x.end # e /\ Change(s, (remote[s] \ {x}) \cup {[x EXCEPT !.end = e]})

TradingView ==
    \E s \in Scripts \ Broken, u \in Users :
        \/ \E e \in Ends : AddAccess(s, u, e) \/ ModifyExpiration(s, u, e)
        \/ RemoveAccess(s, u)

\* The list is ordered by "-created".
Newer(entries, x) == Cardinality({y \in entries : y.created > x.created})

\* What follows a cursor, by the last entry delivered or by their number.
RestByLast(s, c) == {x \in remote[s] : x.created < c.last}
RestByCount(s, c) == {x \in remote[s] : Newer(remote[s], x) >= c.count}

\* The entries of a page in the order of the list.
IsPage(page, rest) ==
    LET onPage == {x \in rest : Newer(rest, x) < PageSize}
    IN  /\ Len(page) = Cardinality(onPage)
        /\ \A i \in DOMAIN page : page[i] \in onPage /\ Newer(rest, page[i]) = i - 1

Pages(rest) ==
    {page \in UNION {[1..n -> rest] : n \in 0..PageSize} : IsPage(page, rest)}

CursorAfter(c, page) ==
    IF page = <<>> THEN c
    ELSE [last |-> page[Len(page)].created, count |-> c.count + Len(page)]

-----------------------------------------------------------------------------
(* The run over the scripts.                                               *)

SyncAll(p) ==
    /\ At(p, "idle")
    /\ Set(p, [Idle EXCEPT !.pc = "next", !.todo = Scripts])
    /\ UNCHANGED <<remote, row, changes, faults>>

SyncByScriptID(p) ==
    /\ At(p, "idle")
    /\ \E s \in Scripts : Set(p, [Idle EXCEPT !.pc = "next", !.todo = {s}])
    /\ UNCHANGED <<remote, row, changes, faults>>

\* The next script, or the operation log and the end of the run.
NextScript(p) ==
    /\ At(p, "next")
    /\ IF task[p].todo = {} THEN Set(p, Idle)
       ELSE \E s \in task[p].todo :
              Set(p, [Idle EXCEPT !.pc = "page", !.script = s,
                                  !.todo = task[p].todo \ {s}])
    /\ UNCHANGED <<remote, row, changes, faults>>

\* Mutant: an error ends the run.
NextItemAborts(p) == Set(p, Idle)

\* The script is done, or its error is noted and the run goes on.
NextItem(p) == Set(p, [Idle EXCEPT !.pc = "next", !.todo = task[p].todo])

Listed(p, page, next) ==
    Set(p, [task[p] EXCEPT !.listed = @ \o page, !.cursor = next,
                           !.seen = @ \cup {next}])

\* Mutant: a repeated cursor is followed.
LoopsUnchecked(t, next) == FALSE

\* The three guards of ListAllUsers against a list that does not end.
Loops(t, next) == next = t.cursor \/ next \in t.seen

TooLong(t) == Cardinality(t.seen) >= MaxPages

TurnPage(p, page, next) ==
    IF Loops(task[p], next) \/ TooLong(task[p]) THEN NextItem(p)
    ELSE Listed(p, page, next)

\* One page of ListAllUsers: the last one, or one with a cursor to the next.
ListPage(p) ==
    LET t == task[p]
        s == t.script
    IN  /\ At(p, "page")
        /\ s \notin Broken
        /\ \E rest \in {RestByLast(s, t.cursor), RestByCount(s, t.cursor)} :
             \E page \in Pages(rest) :
               \/ /\ Cardinality(rest) <= PageSize
                  /\ Set(p, [t EXCEPT !.listed = @ \o page, !.pc = "read"])
                  /\ UNCHANGED faults
               \/ /\ Cardinality(rest) > PageSize
                  /\ TurnPage(p, page, CursorAfter(t.cursor, page))
                  /\ UNCHANGED faults
               \/ \E next \in t.seen \cup {t.cursor} :
                    TurnPage(p, page, next) /\ Fault
        /\ UNCHANGED <<remote, row, changes>>

\* The page cannot be had: TradingView refuses the script, or the call fails.
ListFails(p) ==
    /\ At(p, "page")
    /\ IF task[p].script \in Broken THEN UNCHANGED faults ELSE Fault
    /\ NextItem(p)
    /\ UNCHANGED <<remote, row, changes>>

\* The first statement of the transaction.
ReadRows(p) ==
    /\ At(p, "read")
    /\ Set(p, [task[p] EXCEPT !.pc = "write", !.local = row[task[p].script]])
    /\ UNCHANGED <<remote, row, changes, faults>>

-----------------------------------------------------------------------------
(* The transaction of syncScript.                                          *)

Listings(t, u) == {i \in DOMAIN t.listed : t.listed[i].user = u}

\* Mutant: a user that comes back stays removed.
StatusAfterKept(t, u, now) ==
    IF t.local[u].status = "none" /\ Listings(t, u) # {} THEN "active"
    ELSE IF t.local[u].status = "active" /\ Listings(t, u) = {} THEN "removed"
    ELSE now

\* Inserted, reactivated, removed, or left as the row is now.
StatusAfter(t, u, now) ==
    IF t.local[u].status # "active" /\ Listings(t, u) # {} THEN "active"
    ELSE IF t.local[u].status = "active" /\ Listings(t, u) = {} THEN "removed"
    ELSE now

\* The end is written if it differs from the one that was read.
Differs(t, u) ==
    {i \in Listings(t, u) : \/ t.local[u].status = "none"
                       \/ t.listed[i].end # t.local[u].end}

EndAfter(t, u, now) ==
    IF Differs(t, u) = {} THEN now
    ELSE LET last == CHOOSE i \in Differs(t, u) : \A j \in Differs(t, u) : j <= i
         IN  t.listed[last].end

\* idx_script_tv_user: a row read as absent is there by now, or is inserted
\* twice.
Conflict(t) ==
    \E u \in Users :
        /\ t.local[u].status = "none"
        /\ \/ Cardinality(Listings(t, u)) > 1
           \/ Listings(t, u) # {} /\ row[t.script][u].status # "none"

\* Another run that has read the rows is going to write from what it read.
Interfere(p, q) ==
    /\ q # p
    /\ At(q, "write")
    /\ task[q].script = task[p].script

WriteRows(p) ==
    LET t == task[p]
        now == row[t.script]
    IN  /\ At(p, "write")
        /\ ~ Conflict(t)
        /\ row' = [row EXCEPT ![t.script] =
               [u \in Users |-> [status |-> StatusAfter(t, u, now[u].status),
                                 end |-> EndAfter(t, u, now[u].end)]]]
        /\ task' = [q \in Syncers |->
               IF q = p THEN [Idle EXCEPT !.pc = "next", !.todo = t.todo]
               ELSE IF Interfere(p, q) THEN [task[q] EXCEPT !.calm = FALSE]
               ELSE task[q]]
        /\ UNCHANGED <<remote, changes, faults>>

\* The transaction fails and rolls back.
WriteFails(p) ==
    /\ At(p, "write")
    /\ IF Conflict(task[p]) THEN UNCHANGED faults ELSE Fault
    /\ NextItem(p)
    /\ UNCHANGED <<remote, row, changes>>

RemovedCount(t) ==
    Cardinality({u \in Users : t.local[u].status = "active" /\ Listings(t, u) = {}})

Count(t, status) ==
    Cardinality({i \in DOMAIN t.listed :
                   t.local[t.listed[i].user].status = status})

\* The result that is logged and shown.
Result(t) ==
    [remote |-> Len(t.listed),
     active |-> Cardinality({u \in Users : t.local[u].status = "active"}),
     inserted |-> Count(t, "none"),
     reactivated |-> Count(t, "removed"),
     removed |-> RemovedCount(t)]

-----------------------------------------------------------------------------
\* The server dies: transactions roll back and every run is gone.
Crash ==
    /\ Fault
    /\ task' = [p \in Syncers |-> Idle]
    /\ UNCHANGED <<remote, row, changes>>

Step(p) ==
    \/ NextScript(p)
    \/ ListPage(p)
    \/ ListFails(p)
    \/ ReadRows(p)
    \/ WriteRows(p)
    \/ WriteFails(p)

Next ==
    \/ \E p \in Syncers : SyncAll(p) \/ Step(p)
    \/ \E p \in Handlers : SyncByScriptID(p)
    \/ TradingView
    \/ Crash

Spec == Init /\ [][Next]_vars

\* A run goes on once it has started, and cron starts one again and again.
Fairness ==
    /\ \A p \in Syncers : WF_vars(Step(p))
    /\ \A p \in Jobs : WF_vars(SyncAll(p))

FairSpec == Spec /\ Fairness

-----------------------------------------------------------------------------
(* Properties.                                                             *)

\* The accesses of a script, as TradingView has them and as the rows say.
Accesses(s) == {[user |-> x.user, end |-> x.end] : x \in remote[s]}
Snapshot(table, s) ==
    {[user |-> u, end |-> table[s][u].end] :
        u \in {v \in Users : table[s][v].status = "active"}}

\* A run that nothing interfered with - no change of the list while it was
\* read, no other run between its read and its write of the rows - leaves
\* exactly TradingView's list, whatever rows earlier runs left.
ExactSnapshot ==
    [][\A p \in Syncers :
         WriteRows(p) /\ task[p].calm =>
             Snapshot(row', task[p].script) = Accesses(task[p].script)]_vars

\* The counts of such a run account for every access: what was active, plus
\* the inserted and the reactivated, less the removed, is TradingView's list.
ResultAddsUp ==
    [][\A p \in Syncers :
         WriteRows(p) /\ task[p].calm =>
             LET r == Result(task[p])
             IN  /\ r.active + r.inserted + r.reactivated - r.removed = r.remote
                 /\ r.remote = Cardinality(remote[task[p].script])]_vars

\* Once TradingView's list no longer changes, the snapshot becomes that list
\* and stays it, although runs overlap, write what they read long before, and
\* fail, and although another script cannot be listed at all.
Converges ==
    \A s \in Scripts \ Broken : <>[](Snapshot(row, s) = Accesses(s))
=============================================================================
