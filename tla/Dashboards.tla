----------------------------- MODULE Dashboards -----------------------------
(***************************************************************************)
(* The figures of the two dashboards, pages/admin/DashboardPage.tsx and    *)
(* pages/agent/AgentDashboardPage.tsx: what is derived from the counts the *)
(* server sends, and the grid of cells that shows how the customers are    *)
(* made up.  Shares are pairs <<part, whole>>; the grid is computed with   *)
(* exact fractions.                                                        *)
(***************************************************************************)
EXTENDS QueryCache, Naturals

CONSTANTS
    MaxCount,        \* bound: customers, subscriptions, requests
    MaxChanges       \* bound: changes of the counts, reloads and failed loads

ASSUME DashboardAssumption == MaxCount \in Nat /\ MaxChanges \in Nat

VARIABLES
    dbPage,          \* "admin" or "agent"
    dbCounts,        \* what the server counts
    dbEntry,         \* the query of the dashboard
    dbChanges        \* changes so far

dashboardVars == <<dbPage, dbCounts, dbEntry, dbChanges>>

\* A customer may have several subscriptions and requests.
Counts == [customers : 0 .. MaxCount, active : 0 .. MaxCount, pending : 0 .. MaxCount]
Changed == dbChanges < MaxChanges /\ dbChanges' = dbChanges + 1

DashboardInit == /\ dbPage \in {"admin", "agent"} /\ dbCounts \in Counts
                 /\ dbEntry = Observe(EmptyEntry) /\ dbChanges = 0

\* ---- the derived figures

Least(a, b) == IF a <= b THEN a ELSE b
Minus(a, b) == IF a > b THEN a - b ELSE 0

AdminCovered(d) == Least(d.customers, d.active + d.pending)
AdminUncovered(d) == Minus(d.customers, AdminCovered(d))
AgentUncovered(d) == Minus(Minus(d.customers, d.active), d.pending)

Uncovered(d) == IF dbPage = "admin" THEN AdminUncovered(d) ELSE AgentUncovered(d)

\* Mutant: nobody is left uncovered by a pending request.
SegmentsIgnoringPending(d) == <<d.active, d.pending, Minus(d.customers, d.active)>>

Segments(d) == <<d.active, d.pending, Uncovered(d)>>
Whole(d) == IF d.customers = 0 THEN 1 ELSE d.customers
CellCount == IF dbPage = "admin" THEN 40 ELSE 32

\* ---- the grid: every segment gets its share rounded down, the cells left
\* over go round the segments, the largest first

WholeCells(s, whole) == [i \in DOMAIN s |-> (s[i] * CellCount) \div whole]
Total3(c) == c[1] + c[2] + c[3]
Turn3(s, i) == LET larger == {j \in DOMAIN s : s[j] > s[i] \/ (s[j] = s[i] /\ j < i)}
               IN  IF larger = {} THEN 0 ELSE IF \E j \in larger : larger = {j} THEN 1 ELSE 2

HeatGrid(s, whole) ==
    LET cells == WholeCells(s, whole)
        left == Minus(CellCount, Total3(cells))
    IN  [i \in DOMAIN s |-> cells[i] + left \div 3 + IF left % 3 > Turn3(s, i) THEN 1 ELSE 0]

WaffleCells(s, whole) == HeatGrid(s, whole)

CustomerGrid(d) == IF dbPage = "admin" THEN HeatGrid(Segments(d), Whole(d)) ELSE WaffleCells(Segments(d), Whole(d))

\* ---- the page

FiguresShown == DetailView(dbEntry) = "item"

RefreshFigures == /\ ~FirstLoad(dbEntry) /\ Changed /\ dbEntry' = Reload(dbEntry)
                  /\ UNCHANGED <<dbPage, dbCounts>>

ChangeCounts(d) == /\ Changed /\ d # dbCounts /\ dbCounts' = d
                   /\ UNCHANGED <<dbPage, dbEntry>>

LoadFigures == /\ \/ dbEntry.load = "sent" /\ UNCHANGED dbChanges /\ dbEntry' = Answer(dbEntry, dbCounts)
                  \/ dbEntry.load = "answered" /\ UNCHANGED dbChanges /\ dbEntry' = Arrive(dbEntry)
                  \/ Loading(dbEntry) /\ Changed /\ dbEntry' = Fail(dbEntry)
               /\ UNCHANGED <<dbPage, dbCounts>>

DashboardNext == RefreshFigures \/ LoadFigures \/ \E d \in Counts : ChangeCounts(d)

DashboardSpec == DashboardInit /\ [][DashboardNext]_dashboardVars

\* ---- properties

\* As long as there are at least as many customers as subscriptions and
\* requests together, the grid has exactly its cells, and every segment gets
\* its share of them to within one cell.  (With more of them the page shows
\* more cells than the grid has, and without customers it fills the grid with
\* three equal parts.)
GridAddsUp ==
    FiguresShown =>
        LET d == dbEntry.data
            s == Segments(d)
            cells == CustomerGrid(d)
        IN  d.customers > 0 /\ d.active + d.pending <= d.customers =>
                /\ Total3(cells) = CellCount
                /\ \A i \in DOMAIN s : /\ cells[i] * d.customers <= s[i] * CellCount + d.customers
                                       /\ cells[i] * d.customers + d.customers > s[i] * CellCount
=============================================================================
