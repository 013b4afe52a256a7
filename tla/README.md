# license-tv: specifications, model checks and proofs

license-tv sells access to TradingView scripts.  Agents submit access requests,
the back office approves them or grants access directly, and a scheduler takes
access back when it has run out.  The server (Go, Gin, GORM, MySQL, under
`src/internal`) keeps customers, requests and subscriptions in its tables and
drives TradingView's web API with the cookies of one account; the console
(React, under `src/qianduan/src`) is a single-page application for both roles.

The truth is therefore kept twice, in tables the server owns and at TradingView,
and no transaction spans the two.  Most of what can go wrong follows from that.

1. [Inventory](#1-inventory)
2. [Modules and how they correspond to the code](#2-modules)
3. [Runs: what is checked, with which bounds and fairness](#3-runs)
4. [Proofs](#4-proofs)
5. [What the code does not promise, and findings](#5-limits-and-findings)
6. [Plan](#6-plan)

`PROJECT.json` maps every definition to the lines it models and lists runs,
mutants, hazards and theorems.

## 1. Inventory

Service files are under `src/internal/service`.

### Authorization core
*Files* `review_service.go`, `subscription_service.go`, `common.go`.
*State* tables `access_requests` and `subscriptions`, and the access each
(customer, script) pair has at TradingView.
*Operations* SubmitRequest, CancelRequest, RejectRequest, ApproveRequest
(BatchApprove is a loop of it), DirectGrant, DirectRenew, Revoke, and
RevokeExpired from cron.
*Interaction* each operation reads with plain SELECTs, then calls the proxy one
to four times, then writes in one transaction.  Only approval and direct grant
compensate a failed commit: they put the access back as a snapshot recorded it.
*Hard* checks and writes are separate statements with network calls between
them, and no row is locked; a call may have worked although an error was
reported; a commit may have happened although it was reported as failed; runs of
the job overlap; the server may die anywhere.
*Correct if* a pair has one active subscription, a request is decided once, paid
time only grows, tables and TradingView agree between operations, overdue access
is taken back.

### TradingView proxy and session cookies
*Files* `tv_proxy.go`, `tv_session_service.go`, `system_setting_service.go`.
*State* the cookie pair in memory under a read-write mutex and, encrypted, in
`system_settings`.
*Operations* AddAccess, RemoveAccess, ModifyExpiration, ListAllUsers and other
reads, all through `doRequest` (attempts with pauses); UpdateCookies,
LoadPersistedCookies at the start.
*Hard* a call is retried although the lost attempt may have worked; cookies are
replaced while requests are put together; database and memory are changed one
after the other.
*Correct if* a call has at most one effect and its answer claims no more than
was done; a request carries the cookies of one session; a change of the cookies
survives a restart.

### Access snapshot synchronisation
*File* `tv_access_sync_service.go`.
*State* table `tv_accesses`, one row per (script, TradingView user).
*Operations* SyncAll (cron and button), SyncByScriptID.
*Hard* the list arrives in pages and changes while it is read; runs overlap and
write from what they read earlier; scripts fail one by one; a cursor may loop.
*Correct if* an undisturbed run leaves exactly TradingView's list, and the
snapshot converges to that list.

### Access audit and overview
*Files* `access_audit_service.go`, `tv_access_overview_service.go`.
*State* none of their own; they compare `tv_accesses` with `subscriptions`.
*Hard* several reads outside a transaction; a pair may have many subscription
rows, of which one must be chosen.
*Correct if* they are right about every pair that did not change meanwhile and
do not contradict each other.

### Accounts, tokens and the console's session
*Files* `auth_service.go`, `internal/handler/auth.go`, `middleware/jwt.go`;
`qianduan/src/api/http.ts`, `store/auth-store.ts`, the login page and the logout
button.
*State* `system_users.token_version` and `status`; the browser's two cookies,
the persisted store, one refresh lock per role.
*Operations* Login, Refresh, Logout, ChangePassword, the check of each request;
in the client an interceptor that refreshes the session and repeats the call.
*Hard* several calls refused at once; answers that arrive after a logout, a login
or a password change; a repeated call must not repeat its effect.
*Correct if* refused calls share one refresh, take effect once, settle, and fail
only if the session ended or the network failed.

### Customers and database connections
*Files* `customer_service.go`, the customer's part of `review_service.go` and
`subscription_service.go`, the pool set up in `cmd/server/main.go`.
*State* one row per TradingView name with its agent and, once validated,
TradingView's id; a bounded pool of connections; InnoDB's row locks.
*Operations* create, create pending, update; find-or-create, claim and validate
inside submission, grant and approval.
*Hard* transactions stay open during calls to TradingView; DirectGrant reads its
customer over a second connection; a row is claimed after a read without a lock;
there are two dozen error returns, each of which must roll back.
*Correct if* every operation returns its connection and its lock, and a customer
keeps the agent who claimed it.

### Payment proofs and an agent's requests
*Files* `payment_proof_service.go`, `handler/agent/request.go`;
`pages/agent/AgentRequest*.tsx`, `PaymentProofUploader.tsx`.
*State* files on disk, the paths requests refer to; in the tab the form, the
route and the cached lists.
*Operations* upload, submit, cancel, cleanup (directory, references, clock, then
file by file).
*Hard* the cleanup works from what it read at three moments; answers arrive after
the route has changed, and run the closure of the page's last rendering.
*Correct if* a request keeps a proof that was fresh when it was made, and an agent
sees the effect of what was done.

### Console pages
*Files* `qianduan/src/pages`, `components`, `lib/query-client.ts`.
*State* per page the selection, the dialogs and forms, the key of the list;
shared, the cache of queries with its loads under way.
*Operations* filter, page, tick, open, type, cancel, save; load, arrive, fail,
expire, invalidate; other actors' writes.
*Hard* one dialog serves all rows and outlives them; a late success closes what
has been opened since; effects copy every new object into a form; an
invalidation meets a load under way; a list shrinks under its page number.
*Correct if* what is sent belongs to the record it is sent for, what was typed
gives way to news only, an operator sees the effect of what was done, and a list
in pages shows every match once.

### Scripts, sub-admin scopes, rate limit
`script_service.go` copies the script list row by row, each in one statement that
leaves the status alone.  `script_scope.go` reads a sub-admin's scripts once per
request.  `ratelimit.go` counts per window under a mutex.  Not modelled, see
[what is left](#6-plan).

### Left out
Handlers and routing bind a request, call one service method and render what it
returns.  Configuration, error codes, responses, CORS and recovery have no state
that a run could get wrong.  Layout, charts and wording are not modelled.

## 2. Modules

| module | models | composed with |
|---|---|---|
| `AccessLedger` | abstract: entitlements and requests, decided once | |
| `AccessGrant` | authorization core, TradingView as atomic calls | |
| `AccessGrantOverlap` | what operations that overlap still keep, with a history of who wrote a pair | extends `AccessGrant` |
| `AccessGrantLedger` | refinement mapping AccessGrant -> AccessLedger | both |
| `RemoteAccess` | abstract: one call with at most one effect and its answer | |
| `TVProxy` | `doRequest` over a lossy network, cookies, restarts | instance of `RemoteAccess` |
| `AccessSync` | snapshot synchronisation, paged listing | |
| `AccessReport` | audit and overview over changing tables | |
| `ConsoleSession` | HTTP client, store, cookies, token version | |
| `Customers` | customer rows, row locks, the pool of connections | |
| `QueryCache` | one entry of the query cache, as the pages use it | |
| `ReviewPages` | review list and detail, reject dialog | extends `QueryCache` |
| `ListPages` | list pages with their dialogs | extends `QueryCache` |
| `ScriptAssignment` | the dialog that assigns scripts to a sub-admin | extends `QueryCache` |
| `DetailPages` | pages with a form or dialogs for one record, profile, settings | extends `QueryCache` |
| `AgentRequests` | an agent's requests, the uploads and their cleanup | extends `QueryCache` |
| `ClientPages` | lists the browser filters, sorts and divides | extends `QueryCache` |
| `Dashboards` | figures and grid of the two dashboards | extends `QueryCache` |
| `ConsoleTab` | a browser tab that shows one of these groups of pages | all of them |
| `AccessGrant_proofs`, `AccessGrantSerial_proofs` | proofs about `AccessGrant`, `AccessGrantOverlap` and the refinement | |
| `TVProxy_proofs` | proofs about `TVProxy` | |
| `AccessSync_proofs` | proofs about `AccessSync` | |
| `AccessReport_proofs` | proofs about `AccessReport` | |
| `ConsoleSession_proofs` | proofs about `ConsoleSession` | |
| `Console_proofs` | proofs about `ConsoleTab` and the groups of pages | |
| `Customers_proofs` | proofs about `Customers` | |
| `MC*` | small instances for TLC | |

**AccessGrant.**  A goroutine is a record in `task`; its `pc` names the next
statement that touches shared state.  `SubmitRequest`, `ApproveRequest`,
`DirectGrant` and so on are the reads at the start of the method of that name;
`FindActive` is the later read of an approval; `snapshotTradingViewAccess`,
`AddAccess`, `RemoveAccess`, `ModifyExpiration` are the calls, in the order
`syncTradingViewAccess` makes them (add; if answered "exists", modify, or remove
and add again for a lifetime); `Commit` is the whole transaction with its
operation log, and after an error of it the compensation re-enters the calls
with `undo` set.  A failure of TradingView is an outcome of a call, a failure of
the database an outcome of the commit, and `Crash` drops all goroutines.  A key
stands for a customer and a script; the clock counts units of a plan.
Operations that would exceed the tables or the bound of expirations do not
start, so no operation is stuck half-way by a bound.

**AccessGrantOverlap.**  The same behaviours with a history variable: `foreign[p]`
is the set of pairs that others have written since the operation of `p` began.
It guards nothing; it says for whom the code's unlocked checks have gone stale.

**TVProxy.**  One call at a time about one access: `Send` an attempt with the
header built under the read lock, `Serve` by TradingView, then `Receive`, or
`Lost` (the attempt failed, served or not) or `BodyLost`.  The JSON is
abstracted to the answers the code tells apart.  Operators store a pair, take
the lock and assign the two fields one by one.  `ImplementsRemoteAccess` maps it
to `RemoteAccess`, whose answers are those `AccessGrant` builds into its calls
(`tv_retry` is the "exists" of the call's own earlier attempt, `tv_lost` an
effect reported as an error).  This justifies AccessGrant's atomic calls for
calls about one access that do not overlap, and if a request the client gave up
on is not served later; the code bounds neither, and both are listed as hazards.

**AccessSync.**  TradingView's lists change by themselves.  `ListPage` is one
page, `ReadRows` the first statement of the transaction and `WriteRows` the rest
of it with its commit: inserts, reactivations, changed ends and removals as the
code derives them from the rows it read, with the unique index as `Conflict`.

**AccessReport.**  `Tables` are the changes others make, `Audit*` and `Load*`
the single reads.  `touched` is a history variable: the pairs that changed since
the report began.

**ConsoleSession.**  A tab with several calls.  A token is represented by the
version it was issued for.  `Receive` is the interceptor, `refreshToken` its
three branches (join, start, give up), `Refreshed` the outcome every waiting
call gets.  `JWTAuth`, `ChangePassword`, `WritePassword`, `IssueSession`,
`Refresh` and `Reissue` are the server's reads and writes of the row.  `effects`
and `cause` are history.  A call that was lost is not continued by the server
later; a password change completed behind a lost connection is covered by
`AccountChanges`.

**Customers.**  A worker is a goroutine, its `pc` the next statement that needs a
connection, a lock or an answer.  `Get`, `File`, `Reread` and `Lookup` are
statements outside of a transaction, which need a free connection for a moment;
`Begin` takes one until `End` (commit or any of the error returns), `Rollback` or
`LockTimeout`.  `Find`, `Insert`, `Claim`, `Validate` and `Save` are
FindOrCreatePendingByUsername and EnsureValidatedCustomer; reads see the snapshot
of their transaction (`seen`, or its own `draft`), writes lock the row.
`displaced` is history.  What these operations do to requests, subscriptions and
TradingView is in `AccessGrant`, which in turn starts from the key of customer
and script.

**QueryCache.**  An entry is the last answer, whether it is fresh, and the load
under way, in two steps: the server reads, the answer arrives.  It is the part of
@tanstack/react-query the pages rely on, with the settings of `query-client.ts`.
`Invalidate` says what the library does to a load under way: it restarts the
reload of a query in use, but joins a first load, and leaves the load of an
unused query alone; `overtaken` marks those two, whose answers are older than the
invalidation and count as fresh.

**The pages.**  Every module has the state of its page component as variables, one
action per handler or effect, the calls of the tab as a sequence in the order they
were sent (sent, answered at the server, arrived or lost), the server's record, and
other actors.  `onSuccess` runs when an answer arrives, on the page that shows by
then; if it uses the page's own state, it is the closure of the page's last
rendering, also after the page was left.  Data are represented by where they come
from: a reason by the request it was typed for, a form by the record it was filled
from, a ticked script by the sub-admin it was loaded for; that is what the
properties tell apart.  `ReviewPages` has two pages with one dialog each,
`ListPages` seven pages over one set of dialogs, of which each page offers its own,
`ScriptAssignment` the two effects in the order React runs them, `DetailPages` forms
over a record of fields.  `AgentRequests` has the server's files and the cleanup
too: `ReadDirectory`, `PluckReferences`, `ReadClock` and then `RemoveProof` file by
file, with uploads, submissions and ageing in between.  A call of its detail page
carries the request that page shows, or showed last (`page`, moved by
`CallsFollow`), which a late submission may have changed; that request is the one
refreshed.  `ClientPages` the derived page of a list, `Dashboards` the grid with
exact fractions.

Each module keeps, next to a definition, the mutants of it: plausible mistakes
(a dropped guard, a missing reset, a swapped order) with which TLC finds the
property violated.  They are used by nothing else.

## 3. Runs

Run a check with `tlc -config X.cfg M` in this directory.

| run | instance | shows |
|---|---|---|
| `MCAccessGrantSerial` | one goroutine, 1 key, plans of one unit and lifetime, all operations, all faults (at most 1), 2 requests, 2 subscriptions, 2 ticks | a customer has one active subscription, no duplicates are pending, decisions stand, paid time grows, no orphaned access without faults, and the tables implement `AccessLedger` |
| `MCAccessGrantCompensation` | one goroutine, 2 keys, 2 failed transactions | compensation restores what was there; tables and TradingView agree between operations |
| `MCAccessGrantOverlap` | 2 goroutines, 1 key, plans of one unit, all operations and faults, 2 subscriptions, 2 ticks; 2 requests, or 1 with a fault (at most 1) or a rejection | approval stays one transaction; only an operation others have overtaken on its pair adds a second active row or a duplicate request, overturns a decision or loses time |
| `MCAccessGrantReclaim` | one handler, 2 overlapping cron runs, renewals, 2 faults | overdue access is taken back and operations end |
| `MCAccessGrantDecisionRace`, `MCAccessGrantStaleRevoke` | the smallest instances | findings, section 5 |
| `MCTVProxy` | 3 attempts, 2 operators, 2 pairs, 2 ends | one effect per call, whole headers, surviving sessions, every call returns |
| `MCAccessSync` | a handler and a cron run, 2 scripts of which one cannot be listed, 2 users, pages of one entry, 2 changes, 1 fault | undisturbed runs are exact, their counts add up, the snapshot converges |
| `MCAccessReport` | 2 scripts, 2 users, 2 subscriptions, 4 changes | reports are exact about what did not change and agree; the summary adds up |
| `MCCustomers` | 2 workers, 2 connections, 2 agents, 1 name, 3 operations | every operation returns unless direct grants starve one another; only an overlapping claim displaces an owner |
| `MCConsole` | a tab on one of 7 groups of pages; 2 requests, 3 records, 2 sub-admins with 2 scripts, 2 fields, 1 upload, 3 items, counts to 3; pages of 1 or 2 rows | what is sent belongs to the record it is sent for, proofs survive the cleanup, forms keep what was typed, lists in pages are complete, grids add up, operators see what they did |
| `MCConsoleSession` | 2 calls, a super admin or a sub admin, 2 token versions | one refresh, one effect, failures have a cause, calls settle |

**Why the bounds are enough to meet the interesting cases.**  One key suffices
where operations on different pairs share nothing; two are used where the
compensation of one pair must leave the other alone.  Two subscriptions and
requests let a renewed or re-granted pair coexist with its past, two ticks let an
access run out and be overdue, a plan of one unit and a lifetime give every path
of `syncTradingViewAccess`.  One fault reaches every error path, the second in
Compensation and Reclaim lets the compensation fail, or the job fail twice.  Two
goroutines show every race of two operations; the proofs of section 4 cover any
number.  Two pages of one entry are the shortest list that can shift while it is
read.  Two calls are a refresh and one that joins it, or comes late.

`MCCustomers` has as many connections as workers: both can be direct grants that
wait for a second connection (the deadlock is reached), one can wait for the
other, and a single connection that is not given back shows.  One name suffices:
operations on different names share only the pool.

In `MCConsole` the pages share nothing but the tab, which shows one page at a
time, so the instance is a sum of the groups and not their product.  Two records
are one and the next one, to which a late answer or a kept dialog may be
misapplied; a third can be created.  Two visits or openings (`MaxActs`,
`MaxSteps`, `MaxOpenings` 2, `MaxMoves` 3) let an answer arrive on
the next visit; one save, refusal, loss or other actor's write (`MaxSaves`,
`MaxFaults`, `MaxUpsets`, `MaxMishaps`, `MaxEvents`, `MaxTroubles` 1) reaches each
handler of an error.  Four calls of an agent's tab (`MaxCallsSent`) are an upload,
two submissions and a cancellation.  `MaxReloads` 3 is a list that is loaded,
shrinks and is loaded again; three values (`MaxValues`) are what was there, what
was typed and what somebody else wrote.  With these the run has 1.3 million
states.

`MaxRoutes` is 5 for one scenario: form, list, request, another page, back to the
first request.  A cancellation that was led to another request by a late
submission, and is answered when its page was left, is then seen to have refreshed
the other one.  An agent's pages do not look at files, and such a tab has made two
submissions, so routes after the second are explored (`LongRoutesAreQuiet`) with
young files, no cleanup, the form closed, the first page of the list, and no
trouble but the lost answer of a submission.

**Which properties assume what.**  `MCAccessGrantSerial` and
`MCAccessGrantCompensation` have one goroutine: what they check is what the
sequential code promises, and fails with overlapping operations (section 5).
`MCAccessGrantCompensation` leaves renewal and revocation out, which have no
compensation, and calls that fail, after which tables and TradingView may differ.
`NoOrphanAccess` is stated for behaviours without a fault so far.
`OnlyOverlapSpoils` is the counterpart for overlapping operations and assumes
nothing of the schedule: each operation keeps the same promises for every pair
that no other has written since it began.  A rejection is a cancellation with
another status, and a fault overtakes nobody: in the run a behaviour has a second
request or else one of these (`OneOrUneventful`), and the theorem covers the rest.
`FreshProofKept` speaks of requests that are to keep their proof (`kept`): the file
was younger than a day when the request was made, or no cleanup had read the
references; excepted are requests made after a cleanup's references for a file
that turns a day old before it reads the clock.  `OwnWritesShown` excepts, in
its part `OwnRequestShown`, a cancellation whose page a late submission had led to
another request.

**Fairness.**  In `AccessGrant` a goroutine that was started goes on, cron starts
its job again and again, and time passes; nobody is obliged to send a request, and
a fault need not happen.  In `AccessSync` a run goes on and cron starts the next;
TradingView need not change.  In `TVProxy` the HTTP client's timeout ends every
wait (weak fairness of Serve, Receive, Lost and BodyLost together), an operator's
update goes on, and a reader waiting for the `RWMutex` is let in between two
writers, as Go's implementation guarantees (strong fairness of Send).  In
`ConsoleSession` the client's timeout of 30 s ends every wait.  In `Customers` a
goroutine goes on, and who waits for a connection or a lock gets one that becomes
free again and again, as database/sql and InnoDB queue them (strong fairness). No
fairness is assumed of users, operators or faults, and none in `MCConsole`.

`MCAccessGrantOverlap` uses symmetry of the goroutines, and checks no liveness.  Deadlock
is checked in all runs but two: in `MCConsole` a tab may rest, and in `MCCustomers`
no more requests come after the bound, or the grants have starved.  In
`MCConsoleSession` an agent would add nothing to a sub admin but cookies that are
kept, as a super admin's are.

## 4. Proofs

The theorems hold for every value of the constants that satisfies the `ASSUME`s
of the component: numbers are natural, fillers are not among the values they fill
in for, durations are positive or a lifetime.

**AccessGrant, any interleaving.**  `TypeCorrect` (TypeOK), `FlagCorrect`
(GrantFlagFollowsStatus) and `ApprovalCorrect` (ApprovalIsAtomic) hold for any
number of goroutines and faults.  The type invariant is inductive only with what
is known of a goroutine at work: `TInv` adds that a task between its reads and
its commit has a real key and the rows its operation needs (not the fillers), and
that a pending request has a key.  The flag then is preserved by each write.
Atomicity needs `ApprovesOwnKey` besides: an approval works, to its commit, on
the pair its request names, because requests keep their key.  `RestoreCorrect`
(CompensationRestores) needs `Restoring`: a task that undoes has the end of its
snapshot before it, and no call of it that remains can leave another.

**AccessGrant, overlapping operations.**  `OverlapCorrect` (OnlyOverlapSpoils) holds
for any number of goroutines, pairs, faults and crashes.  `OInv` adds to `TInv`
that rows have a pair and keep it (`Named`), that the rows a task works on are there
and of its pair (`OwnRows`), and that what it has read still holds unless
others have written the pair since (`Unspoilt`): no duplicate, no active row, its
request pending, its row active with an earlier end, the rows of a scan overdue.
One lemma shows that a step of a goroutine changes rows of its own pair only;
so for the others either the pair becomes `foreign` or what they know stays.

**AccessGrant, one goroutine.**  Under `Serial`, `SerialOneActive`,
`SerialNoDuplicates`, `SerialFinality` and `SerialPaidTime` hold through all
faults and crashes.  None of the invariants is inductive by itself: that a commit
adds no second active row depends on what the goroutine read several steps
earlier.  The strengthening `SInv == Serial /\ TInv /\ Sound /\ OneActive /\
NoPendingDuplicates` adds, as `Sound`, that what a task remembers of the tables
is still so: no active row of its key if it is to insert one, its row still
active if it is to extend it, its request still pending, an end to be written no
earlier than the one in the table, and the rows of a scan overdue.

Three theorems follow the access at TradingView.  `SerialNoOrphans`
(NoOrphanAccess) adds `Accounting` to what is known at each step of the calls
(`CInv`): without a fault, every access is accounted for by an active row with
its end, unless the one task at work is changing that pair.  `CompensationMatches`
(TablesMatchTradingView) is for `Compensated` instances, where transactions may
fail but calls do not, and nobody renews or revokes: by `Matching`, pairs nobody
is changing agree, and of the one being changed the snapshot does.
`LedgerImplemented` is the refinement: under `LInv` every commit is one step of
`AccessLedger` on the entitlements as `AccessGrantLedger` maps them, and every
other step, calls, failures and crashes included, changes none of them.

**TVProxy.**  `TypeCorrect`, `HeaderCorrect`, `SessionCorrect` and
`CallsImplement`, for any number of attempts, operators and pairs.  The header
needs `LockInv` (only the holder of the lock is between its two assignments, and
otherwise the two fields are of one pair); the session needs `AloneInv` and
`CookieInv` (of a change no other overlapped, what is stored and in memory at each
step); the refinement needs `CallInv` (what is known of the effect at each step
and attempt).  The steps `Serve` and the end of a call map to the abstract
`Effect` and `Return`, all others to stuttering.

**AccessSync.**  `SnapshotExact` (ExactSnapshot) and `ResultCorrect` (ResultAddsUp),
for any lists, page sizes and runs.  `SyncInv`: a run nothing has interfered with
holds the entries created since its cursor, each once; after the last page the whole
list; after the read of the rows also these.  Lists are sets of entries, so the
lemmas on pages compare ranks (`Newer`) as cardinalities.

**AccessReport.**  `AuditCorrect` (AuditIsExact), `OverviewCorrect`
(OverviewIsExact), `ReportsCorrect` (ReportsAgree) and `SummaryCorrect`
(SummaryAddsUp), for any tables and changes between the reads.  `ReportInv`: the
tables are what the rest of the server leaves (`TablesInv`: the flag follows the
status, active rows have their customer, an access has one row), and what a report
has read is still so of every pair not touched since (`AuditInv`, `OverviewInv`).
The row the overview picks among a pair's subscriptions is a fold over all of them;
that it is an active one if there is one (`ShownIs`) is an induction over the
subscriptions read, done with the library's least elements of Nat
(`NaturalsReached`) and a closed form of the fold.  The cards add up because
every row has one class (`ClassesAddUp`).

**ConsoleSession.**  `TypeCorrect`, `RefreshCorrect` (OneRefresh), `EffectCorrect`
(EffectOnce) and `CauseCorrect` (FailureHasCause), for any number of calls.
`LockInv` says that the lock is held exactly while one call refreshes and that who
waits, waits under the lock; `AllOnce` that a call which took effect is on its way
back and is never sent again, and that a password is written over a version that was
read.  `TypeOK` needs both, as it bounds the effects.  `CauseInv` says of a call
without a cause that the cookies are the account's and that each step of its refresh
is bound to succeed: its token is valid, its answer ok, and whoever it waits for has
no cause either.

**Dialogs of the console.**  `ReasonCorrect` (ReasonBelongsToRequest), `SavingCorrect`
(SavedDataBelongsToRecord) and `AssignmentCorrect` (SavedForItsTarget), for any
records and bounds.  The properties speak of calls; inductive they are with what
is open: `ReviewInv` adds that a reason in the dialog was typed for the request
it is open for; `ListPagesInv`, by `DialogsOwn`, that an open editor holds a form of
the record it edits, a creating dialog is for no record, and what is typed into a
dialog for a reset or a renewal is for its row; `AssignmentInv` that the selection,
the details loaded and the calls under way are of their targets.

**Pages of the console.**  `EditsCorrect` (EditsYieldToNewsOnly) needs only that
visits are counted (`VisitsCounted`).  `FormCorrect` (FormShowsOwnSave, a part of
OwnWritesShown) rests on `FormInv`: data of an entry never get older than a save
whose answer has arrived (`Newest`), unless the load was overtaken, and what the
form holds untouched is what the entry holds. `GridCorrect` (GridAddsUp) is
arithmetic, `GridFilled` from the rounded shares (`RoundedDown`) and the turns of
the three segments (`TurnsDiffer`), under the invariant that what is shown are
counts. `ProofsKept` (FreshProofKept) holds for any uploads and requests.
`AgentInv` has four parts: files the cleanup has chosen to remove are old or gone
(`FilesInv`); a proof kept by a request is there and `Safe` from the cleanup at each of
its phases (`RequestsInv`): once the references are read it is not in view or still
young, once the clock is read it is not among the files to remove; the types of form
and route (`PageInv`); submissions and successful uploads name uploaded files
(`CallsInv`).  `PagesCorrect` (PagesCoverMatches) holds for any items, prices and
page sizes: the order of the rows gives each match one place (`PlacesTaken`), and
the pages part the places (`PagesCounted`).

`OwnWritesCorrect` (OwnWritesShown) is about the whole tab.  Its parts rest on one
predicate of a cache entry: `Known` says that what a load will bring, and what is
shown or may be shown without a load, is of a given set; unless the load was
overtaken.  A success makes it true of the entries it invalidates, and each later
step of an entry keeps it.  `SavesShown`, `DecisionsShown` and `RequestsShown` say
it of every write of the tab that succeeded, with the set of the values that know
of the write: data read since it, rows that do not offer the request, lists that
count it, a status that is not pending.  That these are what the server now
answers needs that decisions stand, that saves only add, and that no request is
taken away, which other actors keep to as well.  `RequestsCorrect` is the agent's
part by itself (OwnRequestShown): a cancellation makes `Known` of the request its
page shows or showed last, which is the cancelled one except after a late
submission.

**Customers.**  `OwnersKept` (OwnerKept), for any workers, names, agents and
connections.  The property is about a commit; what it needs is known from the read
on.  `CustomersInv`: who holds the lock of a row is at a step after its write, and
the draft loses nothing the committed row has, the owner only if the worker was
displaced (`LockHeld`); who is about to claim saw a row without an owner, so that
the row still has none or the worker has been displaced since (`ClaimDue`); a row
that a later step relies on is there (`RowRead`), as is the row of every pending
request.

**Only model-checked.**  All liveness (`OverdueReclaimed`, `OperationEnds`,
`CallReturns`, `Converges`, `CallsSettle`, and `OperationsReturn` of
`Customers`): the prover has no rules for fairness and ENABLED.  Every other
property of a passing run is the statement of a theorem.
`GrantFlagFollowsStatus` is only proved.

## 5. Limits and findings

Two runs end in a counterexample to what the documentation says.

* `MCAccessGrantDecisionRace`: error 10201 is documented for a request that is
  no longer pending.  The status is checked where the row is read and the row is
  updated by its id alone, so an approval and a cancellation that overlap both
  succeed.
* `MCAccessGrantStaleRevoke`: the design calls the subscriptions table the
  effective authorization state.  Revoking a row that has already ended removes
  the access a newer, active row stands for.

Where the code repairs nothing, no property promises anything.  These behaviours
are in the models, and most are listed under "hazards" with a note.

*Server.*  Two grants, or two submissions, that overlap both find nothing and both
insert (`OneActive` and `NoPendingDuplicates` hold for operations that do not
overlap); a renewal, an approval or the job may undo what another has just written
on the same pair (what is left is `OnlyOverlapSpoils`).  Renewal and revocation
whose write fails after the call, a lifetime whose second add fails, an access
granted by a call reported as an error, a commit whose acknowledgement was lost.
Two changes of the cookies that overlap. As many direct grants by customer id as the
pool has connections wait for one another for ever.  Two agents who meet an unowned
customer at the same time both claim it and both file a request; the first loses the
customer.  An agent who submits a name owned by another gets that customer
(`customer_service.go:248` looks at the owner only to claim).  A request that names
an upload after a day may lose its proof, and so may one made between the cleanup's
references and its clock (`payment_proof_service.go:43` and `:56`) for a file that
turns a day old there. A list with more pages than `ListAllUsers` reads is given up
with an error; the bounds of `MCAccessSync` reach a repeated cursor, but not that
many pages.

*Session.*  A refresh that ends after the logout signs in again; two changes of
one password that overlap; a sub admin who changes the password gets the new
session in cookies of the agents' path (`handler/auth.go:119`), where the console
does not look: the old ones go on.

*Console.*  The same sub-admin's dialog opened again while the details are cached
shows no script, because the effect that empties the selection runs after the one
that fills it (`SubAdminListPage.tsx:268`); saving takes all scripts away.  A row
can be approved twice (no guard while the call is under way,
`ReviewListPage.tsx:115`); the `failed` part of a batch is ignored, and the
selection survives a change of page.  An approval from the list leaves the cached
detail alone, a change of a customer the cached list, a cancellation the list of
requests.  A late success closes the dialog opened since.  A reload that a first
load or an unused query swallows leaves stale data that count as fresh.  A
submission answered on another page leads there; a cancellation answered after that
refreshes the request its page showed last, even when the page has been left, and
the cancelled one is offered for cancellation again while it is fresh; an upload
still under way at submission sends the old proof.  A form is saved whole, over
fields others have written; the profile goes back to the old name while its query is
fresh; the settings form is emptied by a success.  A renewal of half a day is sent
as 0 days.  An agent's script list stops at the first hundred scripts. Detail pages
without a branch for a failed load fail on missing data; a list that cannot be
loaded shows as if it had no rows.  With more subscriptions and requests than
customers the grid has too many cells, without customers three equal parts.  The
dashboard's counts ignore database errors.

## 6. Plan

Done in this order: `AccessGrant`, `TVProxy`, `AccessSync`, `AccessReport`,
`ConsoleSession`, `QueryCache` and the pages of the console, `AgentRequests`,
`Customers`, each with its proofs.

**Not modelled, and why.**  Scripts: single statements that nothing can come
between; that the sync stops at the first failure leads to no state a later
one does not mend.  The rate
limit: one critical section.  The scope of a sub-admin: read once per request, and
only narrows queries; requests under way while it is replaced finish with the old
one.  Accounts an administrator creates, profiles, operation logs: single reads
and writes.  List queries, handlers, routing, layout, wording, exports and copies:
they read or render.  Requests TradingView carries out after the client has given
up: nothing bounds them.

**Worth proving next.**  The mutual exclusion of row locks and the bound of the
pool in `Customers` as theorems of their own; the safety part of `Converges`, that
two runs of the synchronisation without changes write the same rows.
