----------------------------- MODULE ListPages -----------------------------
(***************************************************************************)
(* The list pages that carry dialogs or calls: agents and their quick      *)
(* view, sub-admins, customers, subscriptions, scripts and the access      *)
(* overview in pages/admin, and an agent's customers in pages/agent.  One  *)
(* browser tab shows one of them.  The operator pages and filters the      *)
(* list, opens a dialog for a row, types, cancels, saves, and opens the    *)
(* next dialog while the call of the last one is still under way; other    *)
(* actors write the same records.                                          *)
(*                                                                         *)
(* What is typed or loaded into a dialog is represented by the record it   *)
(* was typed or loaded for; 0 stands for a record that is still to be made.*)
(***************************************************************************)
EXTENDS QueryCache, Naturals, FiniteSets, Sequences

CONSTANTS
    Records,         \* ids of the records the page lists
    Existing,        \* those that are there at the beginning
    RowsPerPage,     \* the page size
    MaxActs,         \* bound: turns of the list, visits and calls
    MaxFaults        \* bound: loads that fail, calls refused, answers lost, writes of others

ASSUME ListAssumption ==
    /\ Records \subseteq Nat \ {0} /\ IsFiniteSet(Records) /\ Existing \subseteq Records
    /\ RowsPerPage \in Nat \ {0} /\ MaxActs \in Nat /\ MaxFaults \in Nat

VARIABLES
    lpPage,          \* the page the tab is on
    lpMount,         \* tells one visit of the page from the next
    lpKey,           \* page number and filter of the list
    lpEditor,        \* the create and edit dialog: open, editing (0 or a record), form
    lpReset,         \* the password dialog: for (0: closed), typed
    lpRenew,         \* the renewal dialog: for (0: closed), typed
    lpRevoke,        \* 0, or the subscription whose revocation is to be confirmed
    lpQuick,         \* 0, or the agent in the quick view panel
    lpRecord,        \* [Records -> {"none", "on", "off"}] in the database
    lpWrites,        \* how many writes the database has seen
    lpCalls,         \* calls of this tab, in the order they were sent
    lpLists,         \* the list queries, by key
    lpActs,          \* acts so far
    lpFaults         \* faults so far

lpDialogs == <<lpEditor, lpReset, lpRenew, lpRevoke, lpQuick>>
lpServer == <<lpRecord, lpWrites>>
lpView == <<lpPage, lpMount, lpKey>>
listVars == <<lpView, lpDialogs, lpServer, lpCalls, lpLists, lpActs, lpFaults>>

ListPageNames == {"agents", "subAdmins", "customers", "agentCustomers", "subscriptions", "scripts", "overview"}
CreatePages == {"customers", "agentCustomers", "subscriptions"}
ListKeys == [page : 1 .. Cardinality(Records), filter : {"all", "on"}]
StartKey == [page |-> 1, filter |-> "all"]

Act == lpActs < MaxActs /\ lpActs' = lpActs + 1
Fault == lpFaults < MaxFaults /\ lpFaults' = lpFaults + 1
NoFault == UNCHANGED lpFaults

NoEditor == [open |-> FALSE, editing |-> 0, form |-> 0, filled |-> FALSE]
NoDialog == [for |-> 0, typed |-> 0]

ListInit ==
    /\ lpPage \in ListPageNames /\ lpMount = 0 /\ lpKey = StartKey
    /\ lpEditor = NoEditor /\ lpReset = NoDialog /\ lpRenew = NoDialog /\ lpRevoke = 0 /\ lpQuick = 0
    /\ lpRecord = [r \in Records |-> IF r \in Existing THEN "on" ELSE "none"] /\ lpWrites = 0
    /\ lpCalls = <<>>
    /\ lpLists = Use(<<>>, StartKey)
    /\ lpActs = 0 /\ lpFaults = 0

\* ---- what the list shows and offers

\* One page of the records the filter lets through, the newest first, with
\* the number of writes it knows of.
PageOf(key) ==
    LET match == {r \in Records : lpRecord[r] = "on" \/ (key.filter = "all" /\ lpRecord[r] # "none")}
        rank(r) == Cardinality({q \in match : q >= r})
        first == (key.page - 1) * RowsPerPage
    IN  [rows |-> {[id |-> r, on |-> lpRecord[r] = "on"] :
                     r \in {q \in match : rank(q) \in first + 1 .. first + RowsPerPage}},
         total |-> Cardinality(match), asOf |-> lpWrites]

ListNow == lpLists[lpKey]
RowsNow == IF ListView(ListNow, FALSE) = "rows" THEN ListNow.data.rows ELSE {}
LastPage == IF ListNow.data = NoData \/ ListNow.data.total = 0 THEN 1
            ELSE (ListNow.data.total + RowsPerPage - 1) \div RowsPerPage

\* A dialog or panel covers the page below it.
Covered == lpEditor.open \/ lpReset.for # 0 \/ lpRenew.for # 0 \/ lpRevoke # 0 \/ lpQuick # 0

On(page) == lpPage = page
Row(page, r) == On(page) /\ ~Covered /\ \E row \in RowsNow : row.id = r
ActiveRow(page, r) == On(page) /\ ~Covered /\ [id |-> r, on |-> TRUE] \in RowsNow

\* isPending: a mutation knows the last call it sent from this visit.
Sent(kind) == {i \in DOMAIN lpCalls : lpCalls[i].kind = kind /\ lpCalls[i].mount = lpMount}
Pending(kind) == \E i \in Sent(kind) : (\A j \in Sent(kind) : j <= i) /\ lpCalls[i].state # "done"

Send(kind, id, from, value) ==
    /\ Act
    /\ lpCalls' = Append(lpCalls, [kind |-> kind, id |-> id, from |-> from, value |-> value,
                                   mount |-> lpMount, state |-> "sent", ok |-> FALSE, at |-> 0])

\* ---- the list: filters lead to page 1, the pagination bar stays in range

Turn(key) ==
    /\ Act /\ ~Covered
    /\ key # lpKey /\ lpKey' = key
    /\ lpLists' = Use(lpLists, key)
    /\ UNCHANGED <<lpPage, lpMount, lpDialogs, lpServer, lpCalls, lpFaults>>

FilterList(f) == Turn([page |-> 1, filter |-> f])
FilterAgents(f) == On("agents") /\ FilterList(f)
FilterSubAdmins(f) == On("subAdmins") /\ FilterList(f)
SearchCustomers(f) == On("customers") /\ FilterList(f)
FilterSubscriptions(f) == On("subscriptions") /\ FilterList(f)
FilterScripts(f) == On("scripts") /\ FilterList(f)
FilterAgentCustomers(f) == On("agentCustomers") /\ FilterList(f)
FilterOverview(f) == On("overview") /\ FilterList(f)

TurnPage(p) == /\ ListNow.data # NoData /\ ListNow.data.total > 0 /\ ~Loading(ListNow)
               /\ p \in (1 .. LastPage) \cup {lpKey.page - 1}
               /\ Turn([lpKey EXCEPT !.page = p])

\* Away to another page and back: dialogs and forms are gone, the cache is not.
ArriveWith(editor) ==
    /\ Act /\ ~Covered
    /\ lpMount' = lpMount + 1 /\ lpKey' = StartKey
    /\ lpEditor' = editor /\ lpReset' = NoDialog /\ lpRenew' = NoDialog /\ lpRevoke' = 0 /\ lpQuick' = 0
    /\ lpLists' = Use(lpLists, StartKey)
    /\ UNCHANGED <<lpPage, lpServer, lpCalls, lpFaults>>

Revisit == ArriveWith(NoEditor)

\* The registration page leads to an agent's customers with the new name in
\* the address, and an effect opens the dialog with it.
ArriveFromRegistration == On("agentCustomers") /\ ArriveWith([NoEditor EXCEPT !.open = TRUE, !.filled = TRUE])

LoadPage(k) ==
    /\ \/ lpLists[k].load = "sent" /\ NoFault /\ lpLists' = [lpLists EXCEPT ![k] = Answer(@, PageOf(k))]
       \/ lpLists[k].load = "answered" /\ NoFault /\ lpLists' = [lpLists EXCEPT ![k] = Arrive(@)]
       \/ Loading(lpLists[k]) /\ Fault /\ lpLists' = [lpLists EXCEPT ![k] = Fail(@)]
    /\ UNCHANGED <<lpView, lpDialogs, lpServer, lpCalls, lpActs>>

\* ---- the create and edit dialog of agents and of sub-admins

\* The dialog opens for record r with the form loaded from it, or for a new
\* record with an empty form.
OpenEditor(r) == /\ lpEditor' = [open |-> TRUE, editing |-> r, form |-> r, filled |-> r # 0]
                 /\ lpQuick' = 0
                 /\ UNCHANGED <<lpView, lpReset, lpRenew, lpRevoke, lpServer, lpCalls, lpLists, lpActs, lpFaults>>

SetEditor(editor) == /\ lpEditor' = editor
                     /\ UNCHANGED <<lpView, lpReset, lpRenew, lpRevoke, lpQuick, lpServer, lpCalls, lpLists, lpActs, lpFaults>>

EditorBusy == Pending("create") \/ Pending("update")

SaveEditor == /\ IF lpEditor.editing # 0 THEN Send("update", lpEditor.editing, lpEditor.form, "on")
                 ELSE Send("create", 0, lpEditor.form, IF lpEditor.filled THEN "on" ELSE "none")
              /\ UNCHANGED <<lpView, lpDialogs, lpServer, lpLists, lpFaults>>

\* Mutant: the dialog for a new agent without setEditing(null).
CreateAgentKeepingEditing == On("agents") /\ ~Covered
    /\ SetEditor([open |-> TRUE, editing |-> lpEditor.editing, form |-> 0, filled |-> FALSE])

CreateAgent == On("agents") /\ ~Covered /\ OpenEditor(0)
EditAgent(r) == /\ Row("agents", r) \/ (On("agents") /\ lpQuick = r)
                /\ OpenEditor(r)
CreateSubAdmin == On("subAdmins") /\ ~Covered /\ OpenEditor(0)
EditSubAdmin(r) == Row("subAdmins", r) /\ OpenEditor(r)

\* The fields of a new record get filled in.
FillEditor == /\ lpEditor.open /\ ~lpEditor.filled
              /\ SetEditor([lpEditor EXCEPT !.filled = TRUE])

\* The save button of the agents has no condition on the form, that of the
\* sub-admins wants a name and a password of six characters.
SaveAgent == On("agents") /\ lpEditor.open /\ ~EditorBusy /\ SaveEditor
SaveSubAdmin == On("subAdmins") /\ lpEditor.open /\ ~EditorBusy /\ lpEditor.filled /\ SaveEditor

\* The agents' button "cancel" keeps what is being edited.
CancelAgent == On("agents") /\ lpEditor.open /\ SetEditor([lpEditor EXCEPT !.open = FALSE])
DismissEditor == /\ lpPage \in {"agents", "subAdmins"} /\ lpEditor.open
                 /\ SetEditor([lpEditor EXCEPT !.open = FALSE, !.editing = 0])

\* ---- the create dialogs of customers and subscriptions: the form stays,
\* only an agent's form is emptied by a success

OpenCreate == /\ lpPage \in CreatePages /\ ~Covered
              /\ SetEditor([lpEditor EXCEPT !.open = TRUE])
CloseCreate == /\ lpPage \in CreatePages /\ lpEditor.open
               /\ SetEditor([lpEditor EXCEPT !.open = FALSE])
SaveCustomer == On("customers") /\ lpEditor.open /\ ~Pending("create") /\ SaveEditor
SaveAgentCustomer == On("agentCustomers") /\ lpEditor.open /\ ~Pending("create") /\ SaveEditor
GrantSubscription == On("subscriptions") /\ lpEditor.open /\ ~Pending("create") /\ SaveEditor

\* ---- the quick view and the password dialogs

SetQuick(r) == /\ lpQuick' = r
               /\ UNCHANGED <<lpView, lpEditor, lpReset, lpRenew, lpRevoke, lpServer, lpCalls, lpLists, lpActs, lpFaults>>

QuickView(r) == Row("agents", r) /\ SetQuick(r)
CloseQuickView == lpQuick # 0 /\ SetQuick(0)

SetReset(dialog, quick) ==
    /\ lpReset' = dialog /\ lpQuick' = quick
    /\ UNCHANGED <<lpView, lpEditor, lpRenew, lpRevoke, lpServer, lpCalls, lpLists, lpActs, lpFaults>>

\* Opening runs the dialog's effect, which empties the password.
OpenReset(r) == SetReset([for |-> r, typed |-> 0], 0)
ResetAgentPassword(r) == (Row("agents", r) \/ (On("agents") /\ lpQuick = r)) /\ OpenReset(r)
ResetSubAdminPassword(r) == Row("subAdmins", r) /\ OpenReset(r)

TypePassword == lpReset.for # 0 /\ SetReset([lpReset EXCEPT !.typed = lpReset.for], lpQuick)
CloseReset == lpReset.for # 0 /\ SetReset([lpReset EXCEPT !.for = 0], lpQuick)

SubmitPassword == /\ lpReset.for # 0 /\ lpReset.typed # 0 /\ ~Pending("password")
                  /\ Send("password", lpReset.for, lpReset.typed, "on")
                  /\ UNCHANGED <<lpView, lpDialogs, lpServer, lpLists, lpFaults>>

\* ---- renewal and revocation of an active subscription

SetRenew(dialog) ==
    /\ lpRenew' = dialog
    /\ UNCHANGED <<lpView, lpEditor, lpReset, lpRevoke, lpQuick, lpServer, lpCalls, lpLists, lpActs, lpFaults>>

\* Opening takes the plan over from the subscription and empties the days.
OpenRenew(r) == ActiveRow("subscriptions", r) /\ SetRenew([for |-> r, typed |-> r])
CloseRenew == lpRenew.for # 0 /\ SetRenew([lpRenew EXCEPT !.for = 0])

\* Custom days are a positive number, rounded down.
SubmitRenew == /\ lpRenew.for # 0 /\ ~Pending("renew")
               /\ Send("renew", lpRenew.for, lpRenew.typed, "on")
               /\ UNCHANGED <<lpView, lpDialogs, lpServer, lpLists, lpFaults>>

SetRevoke(r) == /\ lpRevoke' = r
                /\ UNCHANGED <<lpView, lpEditor, lpReset, lpRenew, lpQuick, lpServer, lpCalls, lpLists, lpActs, lpFaults>>
OpenRevoke(r) == ActiveRow("subscriptions", r) /\ SetRevoke(r)
CloseRevoke == lpRevoke # 0 /\ SetRevoke(0)
ConfirmRevoke == /\ lpRevoke # 0 /\ ~Pending("revoke") /\ Send("revoke", lpRevoke, lpRevoke, "off")
                 /\ UNCHANGED <<lpView, lpDialogs, lpServer, lpLists, lpFaults>>

\* ---- scripts: the switch of a row and the synchronisation

\* The switch is locked while the call sent last is about its row.
Locked(r) == Pending("toggle") /\ \E i \in Sent("toggle") : (\A j \in Sent("toggle") : j <= i) /\ lpCalls[i].id = r

ToggleScript(r) == /\ Row("scripts", r) /\ ~Locked(r)
                   /\ Send("toggle", r, r, IF ActiveRow("scripts", r) THEN "off" ELSE "on")
                   /\ UNCHANGED <<lpView, lpDialogs, lpServer, lpLists, lpFaults>>

Sync == /\ ~Covered /\ ~Pending("sync") /\ Send("sync", 0, 0, "on")
        /\ UNCHANGED <<lpView, lpDialogs, lpServer, lpLists, lpFaults>>
SyncScripts == On("scripts") /\ Sync

\* ---- the overview: the snapshot is synchronised, the list is refreshed

SyncOverview == On("overview") /\ Sync
RefreshOverview == /\ On("overview") /\ Act /\ ~Loading(ListNow)
                   /\ lpLists' = [lpLists EXCEPT ![lpKey] = Reload(@)]
                   /\ UNCHANGED <<lpView, lpDialogs, lpServer, lpCalls, lpFaults>>

\* ---- the server and other actors

New == {r \in Records : lpRecord[r] = "none"}

\* What a call writes: a record of its own, a new one, or nothing when there
\* is no room for one, the form is not filled in or the subscription ended.
Written(c) == CASE c.kind \in {"create", "sync"} -> IF c.value = "none" THEN {} ELSE {r \in New : \A q \in New : r <= q}
                [] c.kind \in {"renew", "revoke"} -> {r \in {c.id} : lpRecord[r] = "on"}
                [] OTHER -> {c.id}

Serve(i) ==
    /\ lpCalls[i].state = "sent"
    /\ \E accepted, arrives \in BOOLEAN :   \* the server may refuse, the answer get lost
         LET c == lpCalls[i]
             written == IF accepted THEN Written(c) ELSE {}
         IN  /\ lpRecord' = [r \in Records |-> IF r \in written THEN c.value ELSE lpRecord[r]]
             /\ lpWrites' = IF written = {} THEN lpWrites ELSE lpWrites + 1
             /\ IF arrives /\ accepted THEN NoFault ELSE (arrives \/ accepted) /\ Fault
             /\ lpCalls' = [lpCalls EXCEPT ![i].state = "answered", ![i].at = lpWrites',
                                           ![i].ok = arrives /\ accepted /\ (written # {} \/ c.kind = "sync")]
    /\ UNCHANGED <<lpView, lpDialogs, lpLists, lpActs>>

\* Meanwhile a subscription ends, or another administrator stops a script.
WriteElsewhere(r) == /\ lpPage \in {"subscriptions", "scripts"}
                     /\ Fault /\ lpRecord[r] = "on"
                     /\ lpRecord' = [lpRecord EXCEPT ![r] = "off"] /\ lpWrites' = lpWrites + 1
                     /\ UNCHANGED <<lpView, lpDialogs, lpCalls, lpLists, lpActs>>

\* ---- the answers: onSuccess of the mutation, in the tab as it is by then

EditorAfter(c) == CASE c.kind = "create" /\ On("agentCustomers") -> NoEditor
                    [] c.kind = "create" -> [lpEditor EXCEPT !.open = FALSE]
                    [] c.kind = "update" -> [lpEditor EXCEPT !.open = FALSE, !.editing = 0]
                    [] OTHER -> lpEditor

\* Mutant: a success only marks the lists as old.
ExpirePages(lists, c) ==
    IF c.kind = "password" THEN lists ELSE [k \in DOMAIN lists |-> Expire(lists[k])]

InvalidatePages(lists, c) ==
    IF c.kind = "password" THEN lists ELSE [k \in DOMAIN lists |-> Invalidate(lists[k], k = lpKey)]

Delivered(i) ==
    /\ lpCalls[i].state = "answered"
    /\ lpCalls' = [lpCalls EXCEPT ![i].state = "done"]
    /\ LET c == lpCalls[i]
           here == c.ok /\ c.mount = lpMount
           closes(kind) == here /\ c.kind = kind
           lists == IF c.ok THEN InvalidatePages(lpLists, c) ELSE lpLists
       IN  /\ lpEditor' = IF here THEN EditorAfter(c) ELSE lpEditor
           /\ lpReset' = IF closes("password") THEN [lpReset EXCEPT !.for = 0] ELSE lpReset
           /\ lpRenew' = IF closes("renew") THEN [lpRenew EXCEPT !.for = 0] ELSE lpRenew
           /\ lpRevoke' = IF closes("revoke") THEN 0 ELSE lpRevoke
           /\ lpKey' = IF closes("create") THEN [lpKey EXCEPT !.page = 1] ELSE lpKey
           /\ lpLists' = IF lpKey' = lpKey THEN lists ELSE Use(lists, lpKey')
    /\ UNCHANGED <<lpPage, lpMount, lpQuick, lpServer, lpActs, lpFaults>>

\* ---- the next-state relation

ListPagesNext ==
    \/ \E f \in {"all", "on"} : \/ FilterAgents(f) \/ FilterSubAdmins(f) \/ SearchCustomers(f)
                                \/ FilterSubscriptions(f) \/ FilterScripts(f)
                                \/ FilterAgentCustomers(f) \/ FilterOverview(f)
    \/ \E p \in 1 .. Cardinality(Records) : TurnPage(p)
    \/ \E k \in DOMAIN lpLists : LoadPage(k)
    \/ Revisit \/ ArriveFromRegistration \/ SyncOverview \/ RefreshOverview
    \/ \E r \in Records : \/ EditAgent(r) \/ EditSubAdmin(r) \/ QuickView(r)
                          \/ ResetAgentPassword(r) \/ ResetSubAdminPassword(r)
                          \/ OpenRenew(r) \/ OpenRevoke(r) \/ ToggleScript(r) \/ WriteElsewhere(r)
    \/ CreateAgent \/ CreateSubAdmin \/ FillEditor \/ SaveAgent \/ SaveSubAdmin \/ CancelAgent \/ DismissEditor
    \/ OpenCreate \/ CloseCreate \/ SaveCustomer \/ SaveAgentCustomer \/ GrantSubscription
    \/ CloseQuickView \/ TypePassword \/ CloseReset \/ SubmitPassword
    \/ CloseRenew \/ SubmitRenew \/ CloseRevoke \/ ConfirmRevoke \/ SyncScripts
    \/ \E i \in DOMAIN lpCalls : Serve(i) \/ Delivered(i)

ListPagesSpec == ListInit /\ [][ListPagesNext]_listVars

\* ---- properties

\* A call carries to a record only what was loaded or typed for that record,
\* and a create nothing of an existing one: whatever dialog was cancelled,
\* dismissed, or closed by an answer that came late.
SavedDataBelongsToRecord == \A i \in DOMAIN lpCalls : lpCalls[i].from = lpCalls[i].id

\* After a call of this tab that changed a list has succeeded, the page of
\* the list in view is one read after that change; excepted are a failed
\* load and a load the invalidation could not restart.
OwnSaveShown ==
    \A i \in DOMAIN lpCalls :
        lpCalls[i].state = "done" /\ lpCalls[i].ok /\ lpCalls[i].kind # "password" /\ Settled(ListNow) =>
            ListNow.data.asOf >= lpCalls[i].at
=============================================================================
