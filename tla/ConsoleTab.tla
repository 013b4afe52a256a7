----------------------------- MODULE ConsoleTab ------------------------------
(***************************************************************************)
(* A browser tab of the console shows one group of pages, and the state of *)
(* the other groups stays what it was: every group has an instance of its  *)
(* own.                                                                    *)
(***************************************************************************)
EXTENDS ReviewPages, ListPages, ScriptAssignment, DetailPages, AgentRequests, ClientPages, Dashboards

VARIABLE tab         \* the group of pages in view

Groups == {"review", "lists", "assignment", "details", "requests", "client", "dashboards"}

\* What a group does not use begins in one way only.
Init ==
    /\ tab \in Groups
    /\ ReviewInit /\ AssignmentInit /\ AgentInit
    /\ ListInit /\ (tab # "lists" => lpPage = "agents")
    /\ DetailInit /\ (tab # "details" => dfPage = "customer")
    /\ ClientInit /\ (tab # "client" => clPage = "agentScripts" /\ clItems = {})
    /\ DashboardInit
    /\ tab # "dashboards" => dbPage = "admin" /\ dbCounts = [customers |-> 0, active |-> 0, pending |-> 0]

Keep(group, vars) == tab # group => UNCHANGED vars
Others ==
    /\ UNCHANGED tab
    /\ Keep("review", reviewVars) /\ Keep("lists", listVars) /\ Keep("assignment", assignmentVars)
    /\ Keep("details", detailVars) /\ Keep("requests", agentVars)
    /\ Keep("client", clientVars) /\ Keep("dashboards", dashboardVars)

ReviewStep == tab = "review" /\ ReviewNext /\ Others
ListStep == tab = "lists" /\ ListPagesNext /\ Others
AssignmentStep == tab = "assignment" /\ AssignmentNext /\ Others
DetailStep == tab = "details" /\ DetailNext /\ Others
AgentStep == tab = "requests" /\ AgentNext /\ Others
ClientStep == tab = "client" /\ ClientNext /\ Others
DashboardStep == tab = "dashboards" /\ DashboardNext /\ Others

Next == ReviewStep \/ ListStep \/ AssignmentStep \/ DetailStep \/ AgentStep \/ ClientStep \/ DashboardStep

Spec == Init /\ [][Next]_<<tab, reviewVars, listVars, assignmentVars, detailVars, agentVars, clientVars, dashboardVars>>

\* ---- properties of all pages

\* What the operator of a tab has done is what the tab goes on to show: a
\* decision, a save and a request whose answer has arrived are in the list or
\* on the page that is loaded next, on every page that refreshes its queries
\* (OwnRequestShown names the cancellation that refreshes another request's).
OwnWritesShown == OwnDecisionShown /\ OwnSaveShown /\ OwnRequestShown /\ FormShowsOwnSave
=============================================================================
