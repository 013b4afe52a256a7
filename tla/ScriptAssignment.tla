-------------------------- MODULE ScriptAssignment --------------------------
(***************************************************************************)
(* The dialog that assigns scripts to a sub-admin, in                      *)
(* pages/admin/SubAdminListPage.tsx: it loads the sub-admin's scripts and  *)
(* a page of the catalogue, keeps a selection across the catalogue's pages *)
(* and replaces the whole assignment when it is saved.  Two effects fill   *)
(* and empty the selection; their order is part of the model.              *)
(*                                                                         *)
(* A script in a selection or in an assignment is a pair <<script, a>>,    *)
(* where a is the sub-admin it was loaded or ticked for.                   *)
(***************************************************************************)
EXTENDS QueryCache, Naturals, FiniteSets, Sequences

CONSTANTS
    SubAdmins,       \* ids of the sub-admins
    Scripts,         \* ids of the scripts in the catalogue
    AssignedFirst,   \* the scripts each sub-admin has at the beginning
    MaxOpenings,     \* bound: times the dialog is opened
    MaxSaves,        \* bound: assignments saved
    MaxUpsets        \* bound: loads that fail, answers lost, other writes and late edits

ASSUME AssignmentAssumption ==
    /\ SubAdmins \subseteq Nat \ {0} /\ Scripts \subseteq Nat \ {0}
    /\ AssignedFirst \in [SubAdmins -> SUBSET Scripts]
    /\ MaxOpenings \in Nat /\ MaxSaves \in Nat /\ MaxUpsets \in Nat

VARIABLES
    saAssigned,      \* the assignments in the database
    saTarget,        \* 0, or the sub-admin the dialog is open for
    saSelected,      \* the pairs ticked
    saCatalog,       \* what of the catalogue is in view, and whether it has loaded
    saDetails,       \* the queries "sub-admin-detail", by id
    saCalls,         \* calls of this tab, in the order they were sent
    saOpenings,      \* openings so far
    saUpsets         \* upsets so far

dialogVars == <<saTarget, saSelected, saCatalog>>
assignmentVars == <<saAssigned, dialogVars, saDetails, saCalls, saOpenings, saUpsets>>

Upset == saUpsets < MaxUpsets /\ saUpsets' = saUpsets + 1
NoUpset == UNCHANGED saUpsets

\* The catalogue: one script a page, or the one script a search finds.
FirstPage == [page |-> 1, search |-> 0]

AssignmentInit ==
    /\ saAssigned = [a \in SubAdmins |-> AssignedFirst[a] \X {a}]
    /\ saTarget = 0 /\ saSelected = {}
    /\ saCatalog = [at |-> FirstPage, state |-> "off"]
    /\ saDetails = <<>>
    /\ saCalls = <<>> /\ saOpenings = 0 /\ saUpsets = 0

\* ---- what the dialog shows and offers

Detail == saDetails[saTarget]

\* The scripts of the catalogue in view, the newest script on the first page.
InView ==
    LET found == {s \in Scripts : saCatalog.at.search \in {0, s}}
    IN  IF saCatalog.state # "loaded" THEN {}
        ELSE {s \in found : Cardinality({t \in found : t >= s}) = saCatalog.at.page}

DialogLoading == FirstLoad(Detail) \/ saCatalog.state = "loading"

\* isPending of the mutation: the last save of the page has no answer yet.
SavePending == saCalls # <<>> /\ saCalls[Len(saCalls)].state # "done"

\* ---- the effects of the page, in the order React runs them

\* First: with data and a target, the selection is what the detail says.
FillSelection(selected, entry) == IF entry.data = NoData THEN selected ELSE entry.data

\* Mutant: the second effect leaves the selection alone.
KeepSelection(selected) == selected

\* Second: whenever the target changes, the selection starts empty.
EmptySelection(selected) == {}

\* ---- the operator

\* A view of the catalogue is loaded; one in the cache arrives at once.
LookAt(view) == saCatalog' = [at |-> view, state |-> "loading"]

OpenAssignment(a) ==
    /\ saTarget = 0 /\ saTarget' = a
    /\ saOpenings < MaxOpenings /\ saOpenings' = saOpenings + 1
    /\ saDetails' = Use(saDetails, a)
    /\ saSelected' = EmptySelection(FillSelection(saSelected, EntryAt(saDetails, a)))
    /\ LookAt(FirstPage)
    /\ UNCHANGED <<saAssigned, saCalls, saUpsets>>

CloseDialog == /\ saTarget' = 0
               /\ saSelected' = EmptySelection(saSelected)
               /\ saCatalog' = [at |-> FirstPage, state |-> "off"]

CloseAssignment == /\ saTarget # 0 /\ CloseDialog
                   /\ UNCHANGED <<saAssigned, saDetails, saCalls, saUpsets, saOpenings>>

SearchCatalog(search) == /\ saTarget # 0 /\ search # saCatalog.at.search
                         /\ LookAt([page |-> 1, search |-> search])
                         /\ UNCHANGED <<saAssigned, saTarget, saSelected, saDetails, saCalls, saUpsets, saOpenings>>

TurnCatalog(page) == /\ saTarget # 0 /\ saCatalog.state = "loaded" /\ ~SavePending
                     /\ page # saCatalog.at.page /\ LookAt([saCatalog.at EXCEPT !.page = page])
                     /\ saCatalog.at.search = 0
                     /\ UNCHANGED <<saAssigned, saTarget, saSelected, saDetails, saCalls, saUpsets, saOpenings>>

Select(selected) == /\ saSelected' = selected
                    /\ UNCHANGED <<saAssigned, saTarget, saCatalog, saDetails, saCalls, saUpsets, saOpenings>>

ToggleAssigned(s) ==
    /\ saTarget # 0 /\ ~DialogLoading /\ s \in InView
    /\ LET ticked == {pair \in saSelected : pair[1] = s}
       IN  Select(IF ticked = {} THEN saSelected \cup {<<s, saTarget>>} ELSE saSelected \ ticked)

SelectVisible ==
    /\ saTarget # 0 /\ ~DialogLoading /\ InView # {}
    /\ Select(saSelected \cup {<<s, saTarget>> : s \in {t \in InView : \A pair \in saSelected : pair[1] # t}})

ClearAssignment == saTarget # 0 /\ ~DialogLoading /\ ~SavePending /\ Select({})

SaveAssignment ==
    /\ saTarget # 0 /\ ~DialogLoading /\ ~SavePending /\ Len(saCalls) < MaxSaves
    /\ saCalls' = Append(saCalls, [id |-> saTarget, scripts |-> saSelected, state |-> "sent", ok |-> FALSE])
    /\ UNCHANGED <<saAssigned, dialogVars, saDetails, saUpsets, saOpenings>>

\* ---- the server, other administrators and the network

\* The assignment is replaced as a whole, in one transaction.
ReplaceScripts(i) ==
    /\ saCalls[i].state = "sent"
    /\ saAssigned' = [saAssigned EXCEPT ![saCalls[i].id] = saCalls[i].scripts]
    /\ \E arrives \in BOOLEAN : /\ IF arrives THEN NoUpset ELSE Upset
                                /\ saCalls' = [saCalls EXCEPT ![i].state = "answered", ![i].ok = arrives]
    /\ UNCHANGED <<dialogVars, saDetails, saOpenings>>

AssignElsewhere(a, S) == /\ Upset /\ saAssigned' = [saAssigned EXCEPT ![a] = S \X {a}]
                         /\ UNCHANGED <<dialogVars, saDetails, saCalls, saOpenings>>

InvalidateTarget == IF saTarget = 0 THEN saDetails ELSE [saDetails EXCEPT ![saTarget] = Invalidate(@, TRUE)]

\* onSuccess refreshes the detail of the sub-admin the dialog shows by then
\* and closes the dialog, whoever it was the scripts were saved for.
AssignmentSaved(i) ==
    /\ saCalls[i].state = "answered"
    /\ saCalls' = [saCalls EXCEPT ![i].state = "done"]
    /\ IF saCalls[i].ok /\ saTarget # 0 THEN CloseDialog ELSE UNCHANGED dialogVars
    /\ saDetails' = IF saCalls[i].ok THEN InvalidateTarget ELSE saDetails
    /\ UNCHANGED <<saAssigned, saUpsets, saOpenings>>

\* An edit of a sub-admin that was saved earlier refreshes the detail too.
EditAnswered == /\ Upset /\ saTarget # 0 /\ saDetails' = InvalidateTarget
                /\ UNCHANGED <<saAssigned, dialogVars, saCalls, saOpenings>>

LoadAssigned(a) ==
    /\ \/ saDetails[a].load = "sent" /\ NoUpset /\ saDetails' = [saDetails EXCEPT ![a] = Answer(@, saAssigned[a])]
       \/ Loading(saDetails[a]) /\ Upset /\ saDetails' = [saDetails EXCEPT ![a] = Fail(@)]
    /\ UNCHANGED <<saAssigned, dialogVars, saCalls, saOpenings>>

\* Data equal to those before are the same object to React: no effect runs.
DetailArrives(a) ==
    /\ saDetails[a].load = "answered"
    /\ saDetails' = [saDetails EXCEPT ![a] = Arrive(@)]
    /\ IF saTarget = a /\ saDetails'[a].data # saDetails[a].data
       THEN saSelected' = FillSelection(saSelected, saDetails'[a])
       ELSE UNCHANGED saSelected
    /\ UNCHANGED <<saAssigned, saTarget, saCatalog, saCalls, saUpsets, saOpenings>>

CatalogArrives == /\ saCatalog.state = "loading"
                  /\ \/ NoUpset /\ saCatalog' = [saCatalog EXCEPT !.state = "loaded"]
                     \/ Upset /\ saCatalog' = [saCatalog EXCEPT !.state = "failed"]
                  /\ UNCHANGED <<saAssigned, saTarget, saSelected, saDetails, saCalls, saOpenings>>

\* Time passes; it matters to the next opening only.
ExpireDetail(a) == /\ saDetails[a].fresh /\ saTarget = 0
                   /\ saDetails' = [saDetails EXCEPT ![a] = Expire(@)]
                   /\ UNCHANGED <<saAssigned, dialogVars, saCalls, saUpsets, saOpenings>>

AssignmentNext ==
    \/ \E a \in SubAdmins : OpenAssignment(a)
    \/ \E a \in DOMAIN saDetails : LoadAssigned(a) \/ DetailArrives(a) \/ ExpireDetail(a)
    \/ \E a \in SubAdmins, S \in {{}, Scripts} : AssignElsewhere(a, S)
    \/ \E s \in Scripts : ToggleAssigned(s)
    \/ \E s \in {0, CHOOSE t \in Scripts : TRUE} : SearchCatalog(s)
    \/ \E page \in 1 .. Cardinality(Scripts) : TurnCatalog(page)
    \/ \E i \in DOMAIN saCalls : ReplaceScripts(i) \/ AssignmentSaved(i)
    \/ CloseAssignment \/ SelectVisible \/ ClearAssignment \/ SaveAssignment \/ CatalogArrives \/ EditAnswered

AssignmentSpec == AssignmentInit /\ [][AssignmentNext]_assignmentVars

\* ---- properties

\* A sub-admin is assigned only scripts that were loaded as its own or ticked
\* for it: nothing of one dialog is saved by the next, whichever answers and
\* failed loads come in between.
SavedForItsTarget == \A a \in SubAdmins : saAssigned[a] \subseteq Scripts \X {a}
=============================================================================
