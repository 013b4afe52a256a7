----------------------------- MODULE MCConsole -----------------------------
(***************************************************************************)
(* A browser tab of the console for TLC.                                   *)
(***************************************************************************)
EXTENDS ConsoleTab

\* ---- the values of the constants

MCRequests == {1, 2}
MCPageSizes == {1, 2}
MCRecords == {1, 2, 3}
MCExisting == {1, 2}
MCSubAdmins == {1, 2}
MCScripts == {1, 2}
MCAssignedFirst == [a \in MCSubAdmins |-> {a}]
MCFields == {"contact", "remark"}
MCUploads == {1}
MCItems == {1, 2, 3}
MCPrice == [i \in MCItems |-> i % 2]
MCMatches == {MCItems, {1}, {2, 3}}
MCViewSizes == {1, 2}

\* ---- what is left out

\* An agent's pages do not look at the files, and a tab that is led astray is
\* one with two submissions: routes after the second are explored with young
\* files, no cleanup, the form closed, the first page of the list, and no
\* trouble but the lost answer of a submission.
FilesAtRest == agCleanup = NoCleanup /\ \A u \in Uploads : agFiles[u] # "old"
AnswerLost == \E i \in DOMAIN agCalls : agCalls[i].kind = "submit" /\ agCalls[i].state # "sent" /\ ~agCalls[i].ok
LongRoutesAreQuiet == agRoutes > 2 => /\ FilesAtRest /\ agRoute # "create" /\ agListKey = FirstRequests
                                      /\ agTroubles > 0 => AnswerLost

MCSpec == Init /\ [][Next /\ LongRoutesAreQuiet']_<<tab, reviewVars, listVars, assignmentVars,
                          detailVars, agentVars, clientVars, dashboardVars>>
=============================================================================
