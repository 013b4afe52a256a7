---------------------------- MODULE ClientPages ----------------------------
(***************************************************************************)
(* Lists that the browser filters, sorts and divides into pages itself:    *)
(* the scripts an agent can sell (pages/agent/AgentScriptListPage.tsx),    *)
(* the users TradingView lists for a script                                *)
(* (components/AuthorizedUsersPanel.tsx) and the subscriptions of a        *)
(* customer (CustomerDetailPage.tsx, AgentCustomerDetailPage.tsx).  The    *)
(* answer behind a list can shrink or grow under the page number.          *)
(***************************************************************************)
EXTENDS QueryCache, Naturals, FiniteSets

CONSTANTS
    Items,           \* ids of the items
    Price,           \* [Items -> Nat], by which scripts can be sorted
    Matches,         \* the sets of items a keyword or a filter lets through
    ViewSizes,       \* the page sizes offered
    MaxReloads       \* bound: loads of the list, and changes on the server

ASSUME ClientAssumption ==
    /\ Items \subseteq Nat /\ IsFiniteSet(Items) /\ Price \in [Items -> Nat]
    /\ Matches \subseteq SUBSET Items /\ Items \in Matches
    /\ ViewSizes \subseteq Nat \ {0} /\ ViewSizes # {} /\ MaxReloads \in Nat

VARIABLES
    clPage,          \* the list in view
    clItems,         \* what the server has
    clEntry,         \* the query behind the list
    clMatch,         \* what the keyword and the filters let through
    clSort,          \* the order of the scripts
    clAt,            \* the page number
    clSize,          \* the page size
    clReloads        \* reloads and changes so far

clientView == <<clMatch, clSort, clAt, clSize>>
clientVars == <<clPage, clItems, clEntry, clientView, clReloads>>

Sorts == {"default", "monthly_asc", "monthly_desc"}
DefaultSize == CHOOSE n \in ViewSizes : \A m \in ViewSizes : n <= m
Reloaded == clReloads < MaxReloads /\ clReloads' = clReloads + 1

ClientInit ==
    /\ clPage \in {"agentScripts", "scriptUsers", "customerSubs", "agentCustomerSubs"}
    /\ clItems \in SUBSET Items /\ clEntry = Observe(EmptyEntry)
    /\ clMatch = Items /\ clSort = "default" /\ clAt = 1 /\ clSize = DefaultSize
    /\ clReloads = 0

\* ---- what is matched, in which order, and on which page

Listed(entry) == IF entry.data = NoData THEN {} ELSE entry.data
Matched(entry, match) == Listed(entry) \cap match

\* The sort is stable: ties keep the order of the answer, newest first.
Before(x, y) == CASE clSort = "monthly_asc" /\ Price[x] # Price[y] -> Price[x] < Price[y]
                  [] clSort = "monthly_desc" /\ Price[x] # Price[y] -> Price[x] > Price[y]
                  [] OTHER -> x > y

Place(x, set) == Cardinality({y \in set : Before(y, x)}) + 1
PageSlice(set, p, n) == {x \in set : Place(x, set) \in (p - 1) * n + 1 .. p * n}
PageCount(count, n) == IF count = 0 THEN 1 ELSE (count + n - 1) \div n

\* Mutant: the page number stays where it was.
KeepPage(p, count, n) == p

\* The effect that brings a page number past the end back into range.
ClampPage(p, count, n) == IF p > PageCount(count, n) THEN PageCount(count, n) ELSE p

ShownItems == PageSlice(Matched(clEntry, clMatch), clAt, clSize)

\* The scripts have screens of their own for a first load, a failed load and
\* an empty catalogue; the other lists are always there.
ControlsShown == CASE clPage = "agentScripts" -> DetailView(clEntry) = "item" /\ clEntry.data # {}
                   [] clPage = "scriptUsers" -> TRUE
                   [] OTHER -> clEntry.data # NoData

\* ---- the operator

View(match, sort, at, size) ==
    /\ ControlsShown
    /\ clMatch' = match /\ clSort' = sort /\ clSize' = size
    /\ clAt' = ClampPage(at, Cardinality(Matched(clEntry, match)), size)
    /\ UNCHANGED <<clPage, clItems, clEntry, clReloads>>

FilterAgentScripts(match) == clPage = "agentScripts" /\ View(match, clSort, 1, clSize)
FilterUsers(match) == clPage = "scriptUsers" /\ View(match, clSort, 1, clSize)
SortScripts(sort) == clPage = "agentScripts" /\ View(clMatch, sort, 1, clSize)
ResetFilters == clPage = "agentScripts" /\ View(Items, "default", 1, clSize)

\* The pagination bar is there when something matches.
TurnView(p) == /\ Matched(clEntry, clMatch) # {}
               /\ p \in 1 .. PageCount(Cardinality(Matched(clEntry, clMatch)), clSize)
               /\ View(clMatch, clSort, p, clSize)
ResizeView(n) == Matched(clEntry, clMatch) # {} /\ View(clMatch, clSort, 1, n)

\* A button of the page, or an invalidation, loads the list again.
ReloadList == /\ Reloaded /\ ~Loading(clEntry)
              /\ CASE clPage = "agentScripts" -> clEntry.failed
                   [] clPage = "scriptUsers" -> TRUE
                   [] OTHER -> clEntry.data # NoData
              /\ clEntry' = Reload(clEntry)
              /\ UNCHANGED <<clPage, clItems, clientView>>

\* ---- the server and the answers

ChangeItems(items) == /\ Reloaded /\ items # clItems /\ clItems' = items
                      /\ UNCHANGED <<clPage, clEntry, clientView>>

LoadItems ==
    /\ \/ clEntry.load = "sent" /\ UNCHANGED clReloads /\ clEntry' = Answer(clEntry, clItems)
       \/ clEntry.load = "answered" /\ UNCHANGED clReloads /\ clEntry' = Arrive(clEntry)
       \/ Loading(clEntry) /\ Reloaded /\ clEntry' = Fail(clEntry)
    /\ clAt' = ClampPage(clAt, Cardinality(Matched(clEntry', clMatch)), clSize)
    /\ UNCHANGED <<clPage, clItems, clMatch, clSort, clSize>>

ClientNext ==
    \/ \E match \in Matches : FilterAgentScripts(match) \/ FilterUsers(match)
    \/ \E sort \in Sorts : SortScripts(sort)
    \/ \E p \in 1 .. Cardinality(Items) : TurnView(p)
    \/ \E n \in ViewSizes : ResizeView(n)
    \/ \E items \in SUBSET Items : ChangeItems(items)
    \/ ResetFilters \/ ReloadList \/ LoadItems

ClientSpec == ClientInit /\ [][ClientNext]_clientVars

\* ---- properties

\* Whatever was filtered, resized or loaded: the pages divide what matches
\* among them, and the one in view is not empty unless nothing matches, so
\* that a list that shrinks never leaves the operator on a page past its end.
PagesCoverMatches ==
    LET set == Matched(clEntry, clMatch)
        pages == 1 .. PageCount(Cardinality(set), clSize)
    IN  /\ \A x \in set : \E p \in pages : x \in PageSlice(set, p, clSize)
        /\ \A p, q \in pages : p # q => PageSlice(set, p, clSize) \cap PageSlice(set, q, clSize) = {}
        /\ set # {} => ShownItems # {}
=============================================================================
