--------------------------- MODULE AgentRequests ---------------------------
(***************************************************************************)
(* An agent's requests in one browser tab, pages/agent/AgentRequest*.tsx,  *)
(* with the payment proofs behind them: the list, the form with its        *)
(* uploader, the detail page with its button "cancel", the files on the    *)
(* server, and the daily job that removes those no request refers to.      *)
(*                                                                         *)
(* Of the form only the proof and whether the rest is filled in matter; a  *)
(* file is young for the first 24 hours.                                   *)
(***************************************************************************)
EXTENDS QueryCache, Naturals, FiniteSets, Sequences

CONSTANTS
    Uploads,         \* names the server gives to uploaded files
    MaxRequestsSent, \* bound: requests made, one to a page of the list
    MaxRoutes,       \* bound: routes taken and pages turned
    MaxCallsSent,    \* bound: calls of the tab
    MaxTroubles      \* bound: loads that fail, calls refused, answers lost, decisions of others

ASSUME AgentRequestAssumption ==
    /\ 0 \notin Uploads /\ MaxRequestsSent \in Nat \ {0} /\ MaxRoutes \in Nat
    /\ MaxCallsSent \in Nat /\ MaxTroubles \in Nat

VARIABLES
    agFiles,         \* [Uploads -> {"none", "young", "old", "gone"}] on the server's disk
    agRequests,      \* the requests in the database: proof, kept (history), status
    agCleanup,       \* the run of the cleanup: pc, files it still has in view
    agRoute,         \* "list", "create" or "detail"
    agShown,         \* 0, or the request of the detail page
    agMount,         \* tells one mounted page from the next
    agForm,          \* the form: filled, proof
    agCancel,        \* the dialog that confirms a cancellation is open
    agListKey,       \* page and filter of the list
    agCalls,         \* calls of this tab, in the order they were sent; page is the
                     \* request their page shows, or showed last
    agList,          \* the queries "agent-requests", by key
    agDetails,       \* the queries "agent-request", by request
    agRoutes,        \* routes so far
    agTroubles       \* troubles so far

agServer == <<agFiles, agRequests, agCleanup>>
agPage == <<agRoute, agShown, agMount, agForm, agCancel, agListKey>>
agCache == <<agList, agDetails>>
agentVars == <<agServer, agPage, agCalls, agCache, agRoutes, agTroubles>>

RequestIds == 1 .. MaxRequestsSent
RequestKeys == [page : RequestIds, filter : {"", "pending"}]
FirstRequests == [page |-> 1, filter |-> ""]
EmptyForm == [filled |-> FALSE, proof |-> 0]
NoCleanup == [pc |-> "idle", files |-> {}]

TakeRoute == agRoutes < MaxRoutes /\ agRoutes' = agRoutes + 1
Trouble == agTroubles < MaxTroubles /\ agTroubles' = agTroubles + 1
NoTrouble == UNCHANGED agTroubles

AgentInit ==
    /\ agFiles = [u \in Uploads |-> "none"] /\ agRequests = <<>> /\ agCleanup = NoCleanup
    /\ agRoute = "list" /\ agShown = 0 /\ agMount = 0 /\ agForm = EmptyForm /\ agCancel = FALSE
    /\ agListKey = FirstRequests /\ agCalls = <<>>
    /\ agList = Use(<<>>, FirstRequests)
    /\ agDetails = <<>>
    /\ agRoutes = 0 /\ agTroubles = 0

\* ---- what the server answers, and what the pages show

RequestsMatching(filter) == {r \in DOMAIN agRequests : filter = "" \/ agRequests[r].status = filter}

\* A page of the list holds one request, the newest first.
RequestPage(key) ==
    LET match == RequestsMatching(key.filter)
    IN  [rows |-> {[id |-> r, status |-> agRequests[r].status] :
                     r \in {q \in match : Cardinality({p \in match : p >= q}) = key.page}},
         total |-> Cardinality(match)]

RequestList == agList[agListKey]
RequestRows == IF agRoute = "list" /\ ListView(RequestList, FALSE) = "rows" THEN RequestList.data.rows ELSE {}

CancelOffered == /\ agRoute = "detail" /\ DetailView(agDetails[agShown]) = "item"
                 /\ agDetails[agShown].data = "pending"

\* isPending of the page's mutation.
CallPending(kind) == \E i \in DOMAIN agCalls : /\ agCalls[i].kind = kind /\ agCalls[i].mount = agMount
                                               /\ agCalls[i].state \in {"sent", "answered"}

SendCall(kind, about) ==
    /\ Len(agCalls) < MaxCallsSent
    /\ agCalls' = Append(agCalls, [kind |-> kind, about |-> about, mount |-> agMount,
                                   page |-> agShown, state |-> "sent", ok |-> FALSE])

\* ---- routes: a page that is left loses its state; one that only changes
\* its request keeps it

GoTo(route, shown) ==
    /\ agRoute' = route /\ agShown' = shown
    /\ IF route = "detail" /\ agRoute = "detail" THEN UNCHANGED <<agMount, agCancel>>
       ELSE agMount' = agMount + 1 /\ agCancel' = FALSE
    /\ agForm' = EmptyForm /\ agListKey' = FirstRequests

UseRoute(lists, details) ==
    /\ agList' = IF agRoute' = "list" THEN Use(lists, agListKey') ELSE lists
    /\ agDetails' = IF agRoute' = "detail" THEN Use(details, agShown') ELSE details

OpenRequests == /\ agRoute # "list" /\ ~agCancel /\ TakeRoute /\ GoTo("list", 0) /\ UseRoute(agList, agDetails)
                /\ UNCHANGED <<agServer, agCalls, agTroubles>>

OpenRequest(r) == /\ TakeRoute /\ \E row \in RequestRows : row.id = r
                  /\ GoTo("detail", r) /\ UseRoute(agList, agDetails)
                  /\ UNCHANGED <<agServer, agCalls, agTroubles>>

\* The form opens empty, or with what the address carries over from the
\* registration page or from a customer; never with a proof.
OpenForm(carried) == /\ agRoute # "create" /\ ~agCancel /\ TakeRoute
                     /\ agRoute' = "create" /\ agShown' = 0 /\ agMount' = agMount + 1 /\ agCancel' = FALSE
                     /\ agForm' = [EmptyForm EXCEPT !.filled = carried] /\ agListKey' = FirstRequests
                     /\ UNCHANGED <<agServer, agCalls, agCache, agTroubles>>

NewRequest == agRoute = "list" /\ OpenForm(FALSE)
RequestForCustomer == OpenForm(TRUE)      \* pages of the registration and of customers

TurnRequests(key) == /\ agRoute = "list" /\ key # agListKey /\ TakeRoute
                     /\ \/ key.filter # agListKey.filter /\ key.page = 1
                        \/ /\ key.filter = agListKey.filter
                           /\ RequestList.data # NoData /\ ~Loading(RequestList)
                           /\ key.page <= RequestList.data.total
                     /\ agListKey' = key /\ agList' = Use(agList, key)
                     /\ UNCHANGED <<agServer, agRoute, agShown, agMount, agForm, agCancel, agCalls, agDetails, agTroubles>>

\* ---- the form and its uploader

SetForm(form) == /\ agRoute = "create" /\ agForm' = form
                 /\ UNCHANGED <<agServer, agRoute, agShown, agMount, agCancel, agListKey, agCalls, agCache, agRoutes, agTroubles>>

FillForm == ~agForm.filled /\ SetForm([agForm EXCEPT !.filled = TRUE])

UploaderFree == agRoute = "create" /\ ~CallPending("upload") /\ ~CallPending("submit")

\* A file that is chosen, dropped or pasted, of an accepted type and size.
UploadFile == /\ UploaderFree /\ \E u \in Uploads : agFiles[u] = "none"
              /\ SendCall("upload", 0)
              /\ UNCHANGED <<agServer, agPage, agCache, agRoutes, agTroubles>>

ClearProof == UploaderFree /\ agForm.proof # 0 /\ SetForm([agForm EXCEPT !.proof = 0])

\* The form can be submitted during an upload, with the proof it has.
SubmitForm == /\ agRoute = "create" /\ agForm.filled /\ agForm.proof # 0 /\ ~CallPending("submit")
              /\ SendCall("submit", agForm.proof)
              /\ UNCHANGED <<agServer, agPage, agCache, agRoutes, agTroubles>>

\* ---- the detail page

SetCancel(open) == /\ agCancel' = open
                   /\ UNCHANGED <<agServer, agRoute, agShown, agMount, agForm, agListKey, agCalls, agCache, agRoutes, agTroubles>>
AskCancel == CancelOffered /\ ~agCancel /\ SetCancel(TRUE)
DismissCancel == agCancel /\ DetailView(agDetails[agShown]) = "item" /\ SetCancel(FALSE)

\* The dialog is there whenever the request is, whatever its status.
ConfirmCancel == /\ agCancel /\ DetailView(agDetails[agShown]) = "item" /\ ~CallPending("cancel")
                 /\ SendCall("cancel", agShown)
                 /\ UNCHANGED <<agServer, agPage, agCache, agRoutes, agTroubles>>

ReloadRequest == /\ agRoute = "detail" /\ DetailView(agDetails[agShown]) = "error"
                 /\ ~Loading(agDetails[agShown])
                 /\ agDetails' = [agDetails EXCEPT ![agShown] = Reload(@)]
                 /\ UNCHANGED <<agServer, agPage, agCalls, agList, agRoutes, agTroubles>>

\* ---- the server: uploads, requests and decisions

\* A request that is to keep its proof: the file is young, or it is there and
\* no run of the cleanup has read which files are referred to.
Kept(u) == agFiles[u] = "young" \/ (agFiles[u] = "old" /\ agCleanup.pc \in {"idle", "listed"})

Answered(i, about, done) ==
    \E arrives \in BOOLEAN :
      /\ IF arrives /\ done THEN NoTrouble ELSE (arrives \/ done) /\ Trouble
      /\ agCalls' = [agCalls EXCEPT ![i].state = "answered", ![i].about = about, ![i].ok = arrives /\ done]

StoreUpload(i) == /\ agCalls[i].state = "sent" /\ agCalls[i].kind = "upload"
                  /\ \/ \E u \in Uploads : /\ agFiles[u] = "none" /\ agFiles' = [agFiles EXCEPT ![u] = "young"]
                                           /\ Answered(i, u, TRUE)
                     \/ UNCHANGED agFiles /\ Answered(i, 0, FALSE)
                  /\ UNCHANGED <<agRequests, agCleanup, agPage, agCache, agRoutes>>

\* The server takes the path as it is; it does not look for the file.
SubmitRequest(i) ==
    /\ agCalls[i].state = "sent" /\ agCalls[i].kind = "submit"
    /\ \/ /\ Len(agRequests) < MaxRequestsSent
          /\ agRequests' = Append(agRequests, [proof |-> agCalls[i].about, kept |-> Kept(agCalls[i].about),
                                               status |-> "pending"])
          /\ Answered(i, Len(agRequests'), TRUE)
       \/ UNCHANGED agRequests /\ Answered(i, 0, FALSE)
    /\ UNCHANGED <<agFiles, agCleanup, agPage, agCache, agRoutes>>

SetStatus(r, status) == agRequests' = [agRequests EXCEPT ![r].status = status]

CancelRequest(i) ==
    /\ agCalls[i].state = "sent" /\ agCalls[i].kind = "cancel"
    /\ LET r == agCalls[i].about
           done == agRequests[r].status = "pending"
       IN  /\ IF done THEN SetStatus(r, "cancelled") ELSE UNCHANGED agRequests
           /\ \E arrives \in BOOLEAN :
                /\ IF arrives THEN NoTrouble ELSE Trouble
                /\ agCalls' = [agCalls EXCEPT ![i].state = "answered", ![i].ok = arrives /\ done]
    /\ UNCHANGED <<agFiles, agCleanup, agPage, agCache, agRoutes>>

DecideByAdmin(r) == /\ Trouble /\ agRequests[r].status = "pending" /\ SetStatus(r, "approved")
                    /\ UNCHANGED <<agFiles, agCleanup, agPage, agCalls, agCache, agRoutes>>

\* ---- the server: age and the cleanup of files

\* A file that turns old is lost to the requests a run has not seen, if the
\* run has its references and has not looked at the clock.
Age(u) ==
    /\ agFiles[u] = "young" /\ agFiles' = [agFiles EXCEPT ![u] = "old"]
    /\ LET missed == agCleanup.pc = "referenced" /\ u \in agCleanup.files
       IN  agRequests' = [r \in DOMAIN agRequests |->
                             [agRequests[r] EXCEPT !.kept = @ /\ ~(missed /\ agRequests[r].proof = u)]]
    /\ UNCHANGED <<agCleanup, agPage, agCalls, agCache, agRoutes, agTroubles>>

\* The run reads the directory, the references and the clock, one after the
\* other, and then removes file after file.
CleanupStep(pc, next, files) ==
    /\ agCleanup.pc = pc /\ agCleanup' = IF files = {} THEN NoCleanup ELSE [pc |-> next, files |-> files]
    /\ UNCHANGED <<agRequests, agPage, agCalls, agCache, agRoutes>>

Stored == {u \in Uploads : agFiles[u] \in {"young", "old"}}
ReadDirectory == Stored # {} /\ CleanupStep("idle", "listed", Stored) /\ UNCHANGED <<agFiles, agTroubles>>

Referenced == {agRequests[r].proof : r \in DOMAIN agRequests}
PluckReferences == /\ CleanupStep("listed", "referenced", agCleanup.files \ Referenced)
                   /\ UNCHANGED <<agFiles, agTroubles>>

\* Mutant: the references alone decide, not the age.
OfAnyAge(files) == files

Overdue(files) == {u \in files : agFiles[u] = "old"}
ReadClock == /\ CleanupStep("referenced", "removing", Overdue(agCleanup.files))
             /\ UNCHANGED <<agFiles, agTroubles>>

\* A file that cannot be removed is left to the next run.
RemoveProof(u) == /\ u \in agCleanup.files /\ CleanupStep("removing", "removing", agCleanup.files \ {u})
                  /\ \/ NoTrouble /\ agFiles' = [agFiles EXCEPT ![u] = "gone"]
                     \/ Trouble /\ UNCHANGED agFiles

\* The references cannot be had, or the server stops.
CleanupStops == /\ agCleanup.pc # "idle" /\ Trouble /\ agCleanup' = NoCleanup
                /\ UNCHANGED <<agFiles, agRequests, agPage, agCalls, agCache, agRoutes>>

\* ---- the answers: onSuccess of the mutation, in the tab as it is by then

RefreshRequests(lists) == [k \in DOMAIN lists |-> Invalidate(lists[k], agRoute = "list" /\ k = agListKey)]

\* Mutant: a cancellation closes its dialog and refreshes nothing.
LeaveRequest(details, r) == details

RefreshRequest(details, r) == [details EXCEPT ![r] = Invalidate(@, agRoute = "detail" /\ agShown = r)]

CallAnswered(i) == /\ agCalls[i].state = "answered" /\ agCalls' = [agCalls EXCEPT ![i].state = "done"]
                   /\ UNCHANGED <<agServer, agRoutes, agTroubles>>

\* The path goes into the form it was uploaded for, if that is still there.
UploadAnswered(i) == /\ agCalls[i].kind = "upload" /\ CallAnswered(i)
                     /\ agForm' = IF agCalls[i].ok /\ agCalls[i].mount = agMount
                                  THEN [agForm EXCEPT !.proof = agCalls[i].about] ELSE agForm
                     /\ UNCHANGED <<agRoute, agShown, agMount, agCancel, agListKey, agCache>>

\* A detail page that comes to show another request takes its calls along:
\* their onSuccess is that of the page's last rendering.
CallsFollow(r) == [j \in DOMAIN agCalls |->
    IF agRoute = "detail" /\ agCalls[j].mount = agMount /\ agCalls[j].state # "done"
    THEN [agCalls[j] EXCEPT !.page = r] ELSE agCalls[j]]

\* A success leads to the detail page of the new request, from whatever page
\* the tab shows by then.
SubmitAnswered(i) ==
    /\ agCalls[i].kind = "submit" /\ agCalls[i].state = "answered"
    /\ IF agCalls[i].ok
       THEN /\ agCalls' = [CallsFollow(agCalls[i].about) EXCEPT ![i].state = "done"]
            /\ GoTo("detail", agCalls[i].about) /\ UseRoute(RefreshRequests(agList), agDetails)
       ELSE agCalls' = [agCalls EXCEPT ![i].state = "done"] /\ UNCHANGED <<agPage, agCache>>
    /\ UNCHANGED <<agServer, agRoutes, agTroubles>>

\* The request that is refreshed is the one the page shows, or showed last
\* before it was left: another one than was cancelled, if a late submission
\* had changed it.
CancelAnswered(i) ==
    /\ agCalls[i].kind = "cancel" /\ CallAnswered(i)
    /\ agCancel' = (agCancel /\ ~(agCalls[i].ok /\ agCalls[i].mount = agMount))
    /\ agDetails' = IF agCalls[i].ok THEN RefreshRequest(agDetails, agCalls[i].page) ELSE agDetails
    /\ UNCHANGED <<agRoute, agShown, agMount, agForm, agListKey, agList>>

LoadRequests(k) ==
    /\ \/ agList[k].load = "sent" /\ NoTrouble /\ agList' = [agList EXCEPT ![k] = Answer(@, RequestPage(k))]
       \/ agList[k].load = "answered" /\ NoTrouble /\ agList' = [agList EXCEPT ![k] = Arrive(@)]
       \/ Loading(agList[k]) /\ Trouble /\ agList' = [agList EXCEPT ![k] = Fail(@)]
    /\ UNCHANGED <<agServer, agPage, agCalls, agDetails, agRoutes>>

LoadRequest(r) ==
    /\ \/ agDetails[r].load = "sent" /\ NoTrouble
          /\ agDetails' = [agDetails EXCEPT ![r] = Answer(@, agRequests[r].status)]
       \/ agDetails[r].load = "answered" /\ NoTrouble /\ agDetails' = [agDetails EXCEPT ![r] = Arrive(@)]
       \/ Loading(agDetails[r]) /\ Trouble /\ agDetails' = [agDetails EXCEPT ![r] = Fail(@)]
    /\ UNCHANGED <<agServer, agPage, agCalls, agList, agRoutes>>

AgentNext ==
    \/ \E r \in DOMAIN agRequests : OpenRequest(r) \/ DecideByAdmin(r)
    \/ \E r \in DOMAIN agDetails : LoadRequest(r)
    \/ \E k \in RequestKeys : TurnRequests(k)
    \/ \E k \in DOMAIN agList : LoadRequests(k)
    \/ \E u \in Uploads : Age(u) \/ RemoveProof(u)
    \/ \E i \in DOMAIN agCalls : \/ StoreUpload(i) \/ SubmitRequest(i) \/ CancelRequest(i)
                                 \/ UploadAnswered(i) \/ SubmitAnswered(i) \/ CancelAnswered(i)
    \/ OpenRequests \/ NewRequest \/ RequestForCustomer \/ FillForm \/ UploadFile \/ ClearProof \/ SubmitForm
    \/ AskCancel \/ DismissCancel \/ ConfirmCancel \/ ReloadRequest
    \/ ReadDirectory \/ PluckReferences \/ ReadClock \/ CleanupStops

AgentSpec == AgentInit /\ [][AgentNext]_agentVars

\* ---- properties

\* The cleanup leaves a request its proof: one made within a day of the upload
\* keeps the file, even if a run had read which files are referred to before,
\* and so does one made later, if the file was still there and no run had.
\* (One case is lost: the file turns a day old between the run's references
\* and its clock, and the request is made there as well.)
FreshProofKept ==
    \A r \in DOMAIN agRequests : agRequests[r].kept => agRequests[r].proof \in Stored

\* The agent sees what it has done: a request it made is counted by the list
\* that is read next, and one it has cancelled is not offered for
\* cancellation on its page again.  (The list goes on showing a cancelled
\* request as pending while it is fresh, and so does its page when a late
\* submission had led the cancelling page to another request.)
OwnRequestShown ==
    \A i \in DOMAIN agCalls : agCalls[i].state = "done" /\ agCalls[i].ok =>
        /\ agCalls[i].kind = "submit" /\ agRoute = "list" /\ agListKey.filter = "" /\ Settled(RequestList) =>
               RequestList.data.total >= agCalls[i].about
        /\ agCalls[i].kind = "cancel" /\ agCalls[i].page = agCalls[i].about
             /\ agRoute = "detail" /\ agShown = agCalls[i].about /\ Settled(agDetails[agShown]) => ~CancelOffered
=============================================================================
