----------------------------- MODULE ReviewPages -----------------------------
(***************************************************************************)
(* The review list and the review detail of one browser tab: pages/admin/  *)
(* ReviewListPage.tsx and ReviewDetailPage.tsx with the dialog, table and  *)
(* pagination they share.  The operator filters and pages through the      *)
(* requests, ticks some, approves one or several, and rejects one with a   *)
(* reason; meanwhile loads and calls are under way, other actors decide    *)
(* requests, and answers get lost.                                         *)
(*                                                                         *)
(* A decision is one step of the server here; module AccessGrant has what  *)
(* happens inside of it.  A reason is represented by the request the       *)
(* operator had in front when typing it.                                   *)
(***************************************************************************)
EXTENDS QueryCache, Naturals, FiniteSets, Sequences

CONSTANTS
    Requests,        \* request ids
    PageSizes,       \* the page sizes offered
    MaxMoves,        \* bound: turns of the list, routes, decisions sent, and events
    MaxEvents        \* bound of the events alone: loads that fail, answers lost, decisions of other actors

ASSUME ReviewAssumption ==
    /\ Requests \subseteq Nat \ {0} /\ IsFiniteSet(Requests)
    /\ PageSizes \subseteq Nat \ {0} /\ PageSizes # {}
    /\ MaxMoves \in Nat /\ MaxEvents \in Nat

VARIABLES
    request,         \* [Requests -> [status, reason]] in the database
    rvRoute,         \* 0: the list; r: the detail page of r
    rvMount,         \* tells one mounted page from the next
    rvKey,           \* page, size and filter of the list
    rvSelected,      \* ids ticked
    rvRejecting,     \* 0, or the request the reject dialog is open for
    rvReason,        \* 0, or the reason typed into it
    rvCalls,         \* calls of this tab, in the order they were sent
    rvLists,         \* the queries "reviews", by key
    rvDetails,       \* the queries "review", by id
    rvMoves,         \* moves and decisions so far
    rvEvents         \* events so far

pageState == <<rvRoute, rvMount, rvKey, rvSelected>>
dialogState == <<rvRejecting, rvReason>>
reviewVars == <<request, pageState, dialogState, rvCalls, rvLists, rvDetails, rvMoves, rvEvents>>

Filters == {"", "pending"}
Keys == [page : 1 .. Cardinality(Requests), size : PageSizes, filter : Filters]
Move == rvMoves + rvEvents < MaxMoves /\ rvMoves' = rvMoves + 1
NoEvent == rvEvents' = rvEvents
Event == rvEvents < MaxEvents /\ rvMoves + rvEvents < MaxMoves /\ rvEvents' = rvEvents + 1

FirstKey == [page |-> 1, size |-> CHOOSE n \in PageSizes : \A m \in PageSizes : n <= m, filter |-> ""]

ReviewInit ==
    /\ request = [r \in Requests |-> [status |-> "pending", reason |-> 0]]
    /\ rvRoute = 0 /\ rvMount = 0 /\ rvMoves = 0 /\ rvEvents = 0
    /\ rvKey = FirstKey /\ rvSelected = {}
    /\ rvRejecting = 0 /\ rvReason = 0
    /\ rvCalls = <<>>
    /\ rvLists = Use(<<>>, FirstKey)
    /\ rvDetails = <<>>

\* ---- what the server answers

Matching(filter) == {r \in Requests : filter = "" \/ request[r].status = filter}

\* One page of the list, the newest request first.
Listing(key) ==
    LET rank(r) == Cardinality({q \in Matching(key.filter) : q >= r})
        first == (key.page - 1) * key.size
    IN  [rows |-> {[id |-> r, status |-> request[r].status] :
                     r \in {q \in Matching(key.filter) : rank(q) \in first + 1 .. first + key.size}},
         total |-> Cardinality(Matching(key.filter))]

\* ---- what the page shows and offers

ListEntry == rvLists[rvKey]
Rows == IF rvRoute = 0 /\ ListView(ListEntry, FALSE) = "rows" THEN ListEntry.data.rows ELSE {}
Total == IF ListEntry.data = NoData THEN 0 ELSE ListEntry.data.total
TotalPages == IF Total = 0 THEN 1 ELSE (Total + rvKey.size - 1) \div rvKey.size
DialogOpen == rvRejecting # 0

\* A row has its checkbox and buttons while the list says it is pending.
RowOffers(r) == ~DialogOpen /\ [id |-> r, status |-> "pending"] \in Rows

\* The detail page offers the decision of a request it shows as pending.
DetailOffers == /\ rvRoute # 0 /\ ~DialogOpen
                /\ DetailView(rvDetails[rvRoute]) = "item"
                /\ rvDetails[rvRoute].data.status = "pending"

\* isPending of a mutation of the page mounted now.
InFlight(kind) == \E i \in DOMAIN rvCalls : /\ rvCalls[i].kind = kind /\ rvCalls[i].mount = rvMount
                                            /\ rvCalls[i].state # "done"

SendDecision(kind, ids) ==
    /\ Move
    /\ rvCalls' = Append(rvCalls, [kind |-> kind, ids |-> ids, reason |-> rvReason, route |-> rvRoute,
                                   mount |-> rvMount, state |-> "sent", ok |-> FALSE, did |-> {}])

\* Mutant: the dialog without its effect keeps the reason when it is closed.
SetRejectingKeepingReason(r) == rvRejecting' = r /\ UNCHANGED rvReason

\* The dialog's effect empties the reason when it is closed.
SetRejecting(r) == /\ rvRejecting' = r
                   /\ rvReason' = IF r = 0 THEN 0 ELSE rvReason

\* ---- the operator on the list

Tick(r) == /\ RowOffers(r)
           /\ rvSelected' = IF r \in rvSelected THEN rvSelected \ {r} ELSE rvSelected \cup {r}
           /\ UNCHANGED <<request, rvRoute, rvMount, rvKey, dialogState, rvCalls, rvLists, rvDetails, rvEvents, rvMoves>>

\* The row's button has no pending state: it can be pressed again.
ApproveRow(r) == /\ RowOffers(r) /\ SendDecision("approve", {r})
                 /\ UNCHANGED <<request, pageState, dialogState, rvLists, rvDetails, rvEvents>>

ApproveBatch == /\ rvRoute = 0 /\ ~DialogOpen
                /\ rvSelected # {} /\ ~InFlight("batch") /\ SendDecision("batch", rvSelected)
                /\ UNCHANGED <<request, pageState, dialogState, rvLists, rvDetails, rvEvents>>

\* The list turns to another key and uses its query.
TurnTo(key) == /\ Move
               /\ key # rvKey /\ rvKey' = key
               /\ rvLists' = Use(rvLists, key)
               /\ UNCHANGED <<request, rvRoute, rvMount, dialogState, rvCalls, rvDetails, rvEvents>>

ChangeFilter(f) == /\ rvRoute = 0 /\ ~DialogOpen
                   /\ rvSelected' = {}
                   /\ TurnTo([rvKey EXCEPT !.filter = f, !.page = 1])

\* The pagination bar is there when the list counts rows, and is disabled
\* during a load.  A jump stays between the first and the last page; "back"
\* leads from a page past the end to the one before.
BarOffers == rvRoute = 0 /\ ~DialogOpen /\ Total > 0 /\ ~Loading(ListEntry)

ChangePage(p) == /\ BarOffers /\ p \in (1 .. TotalPages) \cup {rvKey.page - 1}
                 /\ UNCHANGED rvSelected
                 /\ TurnTo([rvKey EXCEPT !.page = p])

ChangePageSize(n) == /\ BarOffers
                     /\ rvSelected' = {}
                     /\ TurnTo([rvKey EXCEPT !.size = n, !.page = 1])

\* ---- routes: leaving a page drops its state, the cache stays

Mount(route) == /\ Move
                /\ rvRoute' = route /\ rvMount' = rvMount + 1
                /\ rvKey' = FirstKey /\ rvSelected' = {}
                /\ SetRejecting(0)
                /\ UNCHANGED <<request, rvCalls, rvEvents>>

OpenDetail(r) == /\ ~DialogOpen /\ \E row \in Rows : row.id = r
                 /\ Mount(r)
                 /\ rvDetails' = Use(rvDetails, r)
                 /\ UNCHANGED rvLists

OpenList == /\ rvRoute # 0
            /\ Mount(0)
            /\ rvLists' = Use(rvLists, FirstKey)
            /\ UNCHANGED rvDetails

\* ---- the reject dialog, on either page

OpenReject(r) == /\ RowOffers(r) \/ (DetailOffers /\ r = rvRoute)
                 /\ SetRejecting(r)
                 /\ UNCHANGED <<request, pageState, rvCalls, rvLists, rvDetails, rvEvents, rvMoves>>

\* The detail page renders its dialog below the request only.
DialogShown == DialogOpen /\ (rvRoute # 0 => DetailView(rvDetails[rvRoute]) = "item")

TypeReason == /\ DialogShown
              /\ rvReason' = rvRejecting
              /\ UNCHANGED <<request, pageState, rvRejecting, rvCalls, rvLists, rvDetails, rvEvents, rvMoves>>

CloseReject == /\ DialogShown /\ SetRejecting(0)
               /\ UNCHANGED <<request, pageState, rvCalls, rvLists, rvDetails, rvEvents, rvMoves>>

ConfirmReject == /\ DialogShown /\ rvReason # 0 /\ ~InFlight("reject") /\ SendDecision("reject", {rvRejecting})
                 /\ UNCHANGED <<request, pageState, dialogState, rvLists, rvDetails, rvEvents>>

ApproveDetail == /\ DetailOffers /\ ~InFlight("approve") /\ SendDecision("approve", {rvRoute})
                 /\ UNCHANGED <<request, pageState, dialogState, rvLists, rvDetails, rvEvents>>

\* ---- the server, other actors and the network

\* A decision takes the requests that are still pending; a batch succeeds
\* whatever becomes of its single requests.
Decide(i) ==
    /\ rvCalls[i].state = "sent"
    /\ LET c == rvCalls[i]
           did == {r \in c.ids : request[r].status = "pending"}
       IN  /\ request' = [r \in Requests |->
                 IF r \notin did THEN request[r]
                 ELSE IF c.kind = "reject" THEN [status |-> "rejected", reason |-> c.reason]
                 ELSE [request[r] EXCEPT !.status = "approved"]]
           /\ \E arrives \in BOOLEAN :     \* FALSE: the answer is lost
                /\ IF arrives THEN NoEvent ELSE Event
                /\ rvCalls' = [rvCalls EXCEPT ![i].state = "answered", ![i].did = did,
                                              ![i].ok = arrives /\ (c.kind = "batch" \/ did # {})]
    /\ UNCHANGED <<pageState, dialogState, rvLists, rvDetails, rvMoves>>

\* Another administrator or the agent decides a request.
DecideElsewhere(r) == /\ Event /\ request[r].status = "pending"
                      /\ request' = [request EXCEPT ![r].status = "cancelled"]
                      /\ UNCHANGED <<pageState, dialogState, rvCalls, rvLists, rvDetails, rvMoves>>

\* Mutant: a decision only marks the lists as old.
ExpireLists(lists) == [k \in DOMAIN lists |-> Expire(lists[k])]

InvalidateLists(lists) == [k \in DOMAIN lists |-> Invalidate(lists[k], rvRoute = 0 /\ k = rvKey)]
InvalidateDetail(details, r) == [details EXCEPT ![r] = Invalidate(@, rvRoute = r)]

\* The answer of a call: a success runs the mutation's onSuccess, on the page
\* it was sent from if that is still mounted; a failure only notifies.
Deliver(i) ==
    /\ rvCalls[i].state = "answered"
    /\ rvCalls' = [rvCalls EXCEPT ![i].state = "done"]
    /\ LET c == rvCalls[i]
           here == c.ok /\ c.mount = rvMount
       IN  /\ IF here /\ c.kind = "reject" THEN SetRejecting(0) ELSE UNCHANGED dialogState
           /\ rvSelected' = IF here /\ c.kind = "batch" THEN {} ELSE rvSelected
           /\ rvLists' = IF c.ok THEN InvalidateLists(rvLists) ELSE rvLists
           /\ rvDetails' = IF c.ok /\ c.route # 0 THEN InvalidateDetail(rvDetails, c.route) ELSE rvDetails
    /\ UNCHANGED <<request, rvRoute, rvMount, rvKey, rvEvents, rvMoves>>

LoadList(k) ==
    /\ \/ /\ rvLists[k].load = "sent" /\ NoEvent
          /\ rvLists' = [rvLists EXCEPT ![k] = Answer(@, Listing(k))]
       \/ /\ rvLists[k].load = "answered" /\ NoEvent
          /\ rvLists' = [rvLists EXCEPT ![k] = Arrive(@)]
       \/ /\ Loading(rvLists[k]) /\ Event
          /\ rvLists' = [rvLists EXCEPT ![k] = Fail(@)]
    /\ UNCHANGED <<request, pageState, dialogState, rvCalls, rvDetails, rvMoves>>

\* With a failed load the dialog is gone from the page, and its reason with
\* it; it is still open when the request is back.
LoadDetail(r) ==
    /\ \/ /\ rvDetails[r].load = "sent" /\ NoEvent /\ UNCHANGED rvReason
          /\ rvDetails' = [rvDetails EXCEPT ![r] = Answer(@, request[r])]
       \/ /\ rvDetails[r].load = "answered" /\ NoEvent /\ UNCHANGED rvReason
          /\ rvDetails' = [rvDetails EXCEPT ![r] = Arrive(@)]
       \/ /\ Loading(rvDetails[r]) /\ Event /\ rvReason' = IF rvRoute = r THEN 0 ELSE rvReason
          /\ rvDetails' = [rvDetails EXCEPT ![r] = Fail(@)]
    /\ UNCHANGED <<request, pageState, rvRejecting, rvCalls, rvLists, rvMoves>>

\* The detail page's button "reload".
RefetchDetail == /\ rvRoute # 0 /\ DetailView(rvDetails[rvRoute]) = "error"
                 /\ ~Loading(rvDetails[rvRoute])
                 /\ rvDetails' = [rvDetails EXCEPT ![rvRoute] = Reload(@)]
                 /\ UNCHANGED <<request, pageState, dialogState, rvCalls, rvLists, rvEvents, rvMoves>>

ReviewNext ==
    \/ \E r \in Requests : Tick(r) \/ ApproveRow(r) \/ OpenDetail(r) \/ OpenReject(r) \/ DecideElsewhere(r)
    \/ \E r \in DOMAIN rvDetails : LoadDetail(r)
    \/ \E k \in DOMAIN rvLists : LoadList(k)
    \/ \E f \in Filters : ChangeFilter(f)
    \/ \E p \in 1 .. Cardinality(Requests) : ChangePage(p)
    \/ \E n \in PageSizes : ChangePageSize(n)
    \/ \E i \in DOMAIN rvCalls : Decide(i) \/ Deliver(i)
    \/ ApproveBatch \/ OpenList \/ TypeReason \/ CloseReject \/ ConfirmReject \/ ApproveDetail \/ RefetchDetail

ReviewSpec == ReviewInit /\ [][ReviewNext]_reviewVars

\* ---- properties

\* A request is rejected with a reason typed for it: whatever dialogs were
\* opened, closed or closed by a late answer before, a reason typed for one
\* request is never stored with another.
ReasonBelongsToRequest == \A r \in Requests : request[r].reason \in {0, r}

\* A decision of this tab that succeeded is on the screen: once its answer
\* has arrived, the list does not offer the request any more, and neither
\* does the detail page it was taken on.  Excepted are a failed load and a
\* load the invalidation could not restart.
OwnDecisionShown ==
    \A i \in DOMAIN rvCalls : rvCalls[i].state = "done" /\ rvCalls[i].ok =>
        \A r \in rvCalls[i].did :
            /\ rvRoute = 0 /\ Settled(ListEntry) => [id |-> r, status |-> "pending"] \notin Rows
            /\ rvRoute = r /\ rvCalls[i].route = r /\ Settled(rvDetails[r]) =>
                   rvDetails[r].data.status # "pending"
=============================================================================
