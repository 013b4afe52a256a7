--------------------------- MODULE Console_proofs ---------------------------
(***************************************************************************)
(* Proofs about the pages of the console. The dialogs, for any numbers of  *)
(* records, calls, openings and faults: what a dialog sends, and what is   *)
(* stored, belongs to the record it is sent for. The pages that show or    *)
(* change one record: the forms of the detail pages, for any fields,       *)
(* values and interleavings; the grid of the dashboards, for any counts;   *)
(* the payment proofs behind an agent's requests, for any number of files, *)
(* requests, calls and routes; and the lists that the browser divides into *)
(* pages. Last, what the cache of queries knows: every page that is        *)
(* refreshed shows what its operator has done.                             *)
(***************************************************************************)
EXTENDS ConsoleTab, FiniteSetTheorems, SequenceTheorems, WellFoundedInduction, TLAPS

-----------------------------------------------------------------------------
(* Sequences of calls.                                                     *)

\* A call is added, or one of them is changed.
LEMMA CallAppended ==
    ASSUME NEW S, NEW s \in Seq(S), NEW c \in S
    PROVE  /\ Append(s, c) \in Seq(S)
           /\ DOMAIN Append(s, c) = DOMAIN s \cup {Len(s) + 1}
           /\ \A i \in DOMAIN s : Append(s, c)[i] = s[i]
           /\ Append(s, c)[Len(s) + 1] = c
OBVIOUS

LEMMA CallChanged ==
    ASSUME NEW S, NEW s \in Seq(S), NEW i \in DOMAIN s, NEW c \in S
    PROVE  /\ [s EXCEPT ![i] = c] \in Seq(S)
           /\ DOMAIN [s EXCEPT ![i] = c] = DOMAIN s
OBVIOUS

-----------------------------------------------------------------------------
(* A reason belongs to the request it is stored with.                      *)

Decision == [kind : {"approve", "reject", "batch"}, ids : SUBSET Requests, reason : Requests \cup {0},
             route : Requests \cup {0}, mount : Nat, state : {"sent", "answered", "done"},
             ok : BOOLEAN, did : SUBSET Requests]

\* The dialog holds no reason but one typed for the request it is open for,
\* and a rejection carries the reason of the one request it names.
ReviewInv ==
    /\ request \in [Requests -> [status : {"pending", "approved", "rejected", "cancelled"},
                                 reason : Requests \cup {0}]]
    /\ rvRoute \in Requests \cup {0} /\ rvMount \in Nat /\ rvSelected \subseteq Requests
    /\ rvRejecting \in Requests \cup {0} /\ rvReason \in {0, rvRejecting}
    /\ rvCalls \in Seq(Decision)
    /\ \A i \in DOMAIN rvCalls : rvCalls[i].kind = "reject" => rvCalls[i].ids = {rvCalls[i].reason}
    /\ ReasonBelongsToRequest

LEMMA ReviewInitially == ReviewInit => ReviewInv
BY ReviewAssumption DEF ReviewInit, ReviewInv, ReasonBelongsToRequest

LEMMA DecisionSent ==
    ASSUME ReviewInv, NEW kind \in {"approve", "reject", "batch"}, NEW ids \in SUBSET Requests,
           kind = "reject" => ids = {rvReason},
           SendDecision(kind, ids), UNCHANGED <<request, pageState, dialogState>>
    PROVE  ReviewInv'
<1> DEFINE c == [kind |-> kind, ids |-> ids, reason |-> rvReason, route |-> rvRoute,
                 mount |-> rvMount, state |-> "sent", ok |-> FALSE, did |-> {}]
<1>1. c \in Decision
  BY DEF Decision, ReviewInv
<1>2. rvCalls' = Append(rvCalls, c)
  BY DEF SendDecision
<1> HIDE DEF c
<1>3. /\ rvCalls' \in Seq(Decision)
      /\ \A i \in DOMAIN rvCalls' : (i \in DOMAIN rvCalls /\ rvCalls'[i] = rvCalls[i]) \/ rvCalls'[i] = c
  BY <1>1, <1>2, CallAppended DEF ReviewInv
<1>4. c.kind = "reject" => c.ids = {c.reason}
  BY DEF c
<1>5. \A i \in DOMAIN rvCalls' : rvCalls'[i].kind = "reject" => rvCalls'[i].ids = {rvCalls'[i].reason}
  BY <1>3, <1>4 DEF ReviewInv
<1> QED BY <1>3, <1>5 DEF ReviewInv, ReasonBelongsToRequest, pageState, dialogState

\* The dialog is opened, closed or typed into; nothing is sent.
LEMMA DialogMoved ==
    ASSUME ReviewInv, UNCHANGED <<request, rvCalls>>,
           rvRoute' \in Requests \cup {0}, rvMount' \in Nat, rvSelected' \subseteq Requests,
           rvRejecting' \in Requests \cup {0}, rvReason' \in {0, rvRejecting'}
    PROVE  ReviewInv'
BY DEF ReviewInv, ReasonBelongsToRequest

\* A call changes its state; what it was sent with stays.
LEMMA DecisionMoved ==
    ASSUME ReviewInv, NEW i \in DOMAIN rvCalls, NEW c \in Decision,
           c.kind = rvCalls[i].kind, c.ids = rvCalls[i].ids, c.reason = rvCalls[i].reason,
           rvCalls' = [rvCalls EXCEPT ![i] = c]
    PROVE  /\ rvCalls' \in Seq(Decision)
           /\ \A j \in DOMAIN rvCalls' : rvCalls'[j].kind = "reject" => rvCalls'[j].ids = {rvCalls'[j].reason}
<1>1. rvCalls' \in Seq(Decision) /\ DOMAIN rvCalls' = DOMAIN rvCalls
  BY CallChanged DEF ReviewInv
<1>2. \A j \in DOMAIN rvCalls : rvCalls'[j] = IF j = i THEN c ELSE rvCalls[j]
  BY DEF ReviewInv
<1> QED BY <1>1, <1>2 DEF ReviewInv

LEMMA ReviewStepped ==
    ASSUME ReviewInv, [ReviewNext]_reviewVars
    PROVE  ReviewInv'
<1> USE DEF pageState, dialogState
<1>1. CASE UNCHANGED reviewVars
  BY <1>1, DialogMoved DEF reviewVars, ReviewInv
<1>2. ASSUME NEW r \in Requests, Tick(r)
      PROVE  ReviewInv'
  BY <1>2, DialogMoved DEF Tick, ReviewInv
<1>3. ASSUME NEW r \in Requests, ApproveRow(r)
      PROVE  ReviewInv'
  BY <1>3, DecisionSent DEF ApproveRow
<1>4. ASSUME NEW r \in Requests, OpenDetail(r)
      PROVE  ReviewInv'
  BY <1>4, DialogMoved DEF OpenDetail, Mount, SetRejecting, ReviewInv
<1>5. ASSUME NEW r \in Requests, OpenReject(r)
      PROVE  ReviewInv'
  <2>1. rvReason = 0
    BY <1>5 DEF OpenReject, RowOffers, DetailOffers, DialogOpen, ReviewInv
  <2> QED BY <1>5, <2>1, DialogMoved DEF OpenReject, SetRejecting, ReviewInv
<1>6. ASSUME NEW r \in Requests, DecideElsewhere(r)
      PROVE  ReviewInv'
  BY <1>6 DEF DecideElsewhere, ReviewInv, ReasonBelongsToRequest
<1>7. ASSUME NEW r \in DOMAIN rvDetails, LoadDetail(r)
      PROVE  ReviewInv'
  BY <1>7, DialogMoved DEF LoadDetail, ReviewInv
<1>8. ASSUME NEW k \in DOMAIN rvLists, LoadList(k)
      PROVE  ReviewInv'
  BY <1>8, DialogMoved DEF LoadList, ReviewInv
<1>9. ASSUME NEW f \in Filters, ChangeFilter(f)
      PROVE  ReviewInv'
  BY <1>9, DialogMoved DEF ChangeFilter, TurnTo, ReviewInv
<1>10. ASSUME NEW p \in 1 .. Cardinality(Requests), ChangePage(p)
       PROVE  ReviewInv'
  BY <1>10, DialogMoved DEF ChangePage, TurnTo, ReviewInv
<1>11. ASSUME NEW n \in PageSizes, ChangePageSize(n)
       PROVE  ReviewInv'
  BY <1>11, DialogMoved DEF ChangePageSize, TurnTo, ReviewInv
<1>12. ASSUME NEW i \in DOMAIN rvCalls, Decide(i)
       PROVE  ReviewInv'
  <2> DEFINE did == {r \in rvCalls[i].ids : request[r].status = "pending"}
  <2>1. PICK arrives \in BOOLEAN :
          rvCalls' = [rvCalls EXCEPT ![i].state = "answered", ![i].did = did,
                                     ![i].ok = arrives /\ (rvCalls[i].kind = "batch" \/ did # {})]
    BY <1>12 DEF Decide
  <2> DEFINE c == [rvCalls[i] EXCEPT !.state = "answered", !.did = did,
                                     !.ok = arrives /\ (rvCalls[i].kind = "batch" \/ did # {})]
  <2>2. rvCalls[i] \in Decision
    BY DEF ReviewInv
  <2>3. c \in Decision /\ c.kind = rvCalls[i].kind /\ c.ids = rvCalls[i].ids /\ c.reason = rvCalls[i].reason
    <3>1. did \in SUBSET Requests
      BY <2>2 DEF Decision
    <3>2. (arrives /\ (rvCalls[i].kind = "batch" \/ did # {})) \in BOOLEAN
      BY DEF Decision
    <3> QED BY <2>2, <3>1, <3>2 DEF Decision
  <2>4. rvCalls' = [rvCalls EXCEPT ![i] = c]
    BY <2>1
  <2>5. /\ rvCalls' \in Seq(Decision)
        /\ \A j \in DOMAIN rvCalls' : rvCalls'[j].kind = "reject" => rvCalls'[j].ids = {rvCalls'[j].reason}
    <3> HIDE DEF c
    <3> QED BY <2>3, <2>4, DecisionMoved
  <2>6. request' = [r \in Requests |->
                      IF r \notin did THEN request[r]
                      ELSE IF rvCalls[i].kind = "reject" THEN [status |-> "rejected", reason |-> rvCalls[i].reason]
                      ELSE [request[r] EXCEPT !.status = "approved"]]
    BY <1>12 DEF Decide
  <2>7. \A r \in did : rvCalls[i].kind = "reject" => rvCalls[i].reason = r
    BY DEF ReviewInv
  <2>8. /\ request' \in [Requests -> [status : {"pending", "approved", "rejected", "cancelled"},
                                      reason : Requests \cup {0}]]
        /\ \A r \in Requests : request'[r].reason \in {0, r}
    BY <2>2, <2>6, <2>7 DEF ReviewInv, ReasonBelongsToRequest, Decision
  <2> QED BY <1>12, <2>5, <2>8 DEF Decide, ReviewInv, ReasonBelongsToRequest
<1>13. ASSUME NEW i \in DOMAIN rvCalls, Deliver(i)
       PROVE  ReviewInv'
  <2> DEFINE c == [rvCalls[i] EXCEPT !.state = "done"]
  <2>1. rvCalls[i] \in Decision
    BY DEF ReviewInv
  <2>2. c \in Decision /\ c.kind = rvCalls[i].kind /\ c.ids = rvCalls[i].ids /\ c.reason = rvCalls[i].reason
    BY <2>1 DEF Decision
  <2>3. rvCalls' = [rvCalls EXCEPT ![i] = c]
    BY <1>13 DEF Deliver
  <2>4. /\ rvCalls' \in Seq(Decision)
        /\ \A j \in DOMAIN rvCalls' : rvCalls'[j].kind = "reject" => rvCalls'[j].ids = {rvCalls'[j].reason}
    <3> HIDE DEF c
    <3> QED BY <2>2, <2>3, DecisionMoved
  <2>5. /\ rvRejecting' \in Requests \cup {0} /\ rvReason' \in {0, rvRejecting'}
        /\ rvSelected' \subseteq Requests
    BY <1>13 DEF Deliver, SetRejecting, ReviewInv
  <2> QED BY <1>13, <2>4, <2>5 DEF Deliver, ReviewInv, ReasonBelongsToRequest
<1>14. CASE ApproveBatch
  BY <1>14, DecisionSent DEF ApproveBatch, ReviewInv
<1>15. CASE OpenList
  BY <1>15, DialogMoved DEF OpenList, Mount, SetRejecting, ReviewInv
<1>16. CASE TypeReason
  BY <1>16, DialogMoved DEF TypeReason, ReviewInv
<1>17. CASE CloseReject
  BY <1>17, DialogMoved DEF CloseReject, SetRejecting, ReviewInv
<1>18. CASE ConfirmReject
  <2>1. rvRejecting \in Requests /\ rvReason = rvRejecting
    BY <1>18 DEF ConfirmReject, DialogShown, DialogOpen, ReviewInv
  <2> QED BY <1>18, <2>1, DecisionSent DEF ConfirmReject
<1>19. CASE ApproveDetail
  <2>1. rvRoute \in Requests
    BY <1>19 DEF ApproveDetail, DetailOffers, ReviewInv
  <2> QED BY <1>19, <2>1, DecisionSent DEF ApproveDetail
<1>20. CASE RefetchDetail
  BY <1>20, DialogMoved DEF RefetchDetail, ReviewInv
<1> QED BY <1>1, <1>2, <1>3, <1>4, <1>5, <1>6, <1>7, <1>8, <1>9, <1>10, <1>11, <1>12, <1>13,
           <1>14, <1>15, <1>16, <1>17, <1>18, <1>19, <1>20 DEF ReviewNext

\* For any requests and any course of events, a request is rejected with a
\* reason that was typed for it (ReviewListPage, ReviewDetailPage).
THEOREM ReasonCorrect == ReviewSpec => []ReasonBelongsToRequest
<1>1. ReviewInv => ReasonBelongsToRequest
  BY DEF ReviewInv
<1> QED BY <1>1, ReviewInitially, ReviewStepped, PTL DEF ReviewSpec
-----------------------------------------------------------------------------
(* Entries of the query cache.                                             *)

\* An entry whose answers are of a set.
Entry(values) == [data : values \cup {NoData}, fresh : BOOLEAN, failed : BOOLEAN,
                  load : {"idle", "sent", "answered"}, answer : values \cup {NoData}, overtaken : BOOLEAN]

\* Whatever happens to an entry, its data are answers.
LEMMA EntryKept ==
    ASSUME NEW values, NEW e \in Entry(values)
    PROVE  /\ Reload(e) \in Entry(values) /\ Observe(e) \in Entry(values)
           /\ Arrive(e) \in Entry(values) /\ Fail(e) \in Entry(values) /\ Expire(e) \in Entry(values)
           /\ \A v \in values : Answer(e, v) \in Entry(values)
           /\ \A inUse \in BOOLEAN : Invalidate(e, inUse) \in Entry(values)
BY DEF Entry, Reload, Observe, Arrive, Fail, Expire, Answer, Invalidate, Loading

LEMMA EmptyIsEntry == \A values : EmptyEntry \in Entry(values)
BY DEF Entry, EmptyEntry

-----------------------------------------------------------------------------
(* Scripts are assigned to the sub-admin they were ticked or loaded for.   *)

Own(a) == SUBSET (Scripts \X {a})

Assignment == [id : SubAdmins, scripts : SUBSET (Scripts \X SubAdmins),
               state : {"sent", "answered", "done"}, ok : BOOLEAN]

\* What is ticked is the target's, what is loaded or sent its sub-admin's.
AssignmentInv ==
    /\ saAssigned = [a \in SubAdmins |-> saAssigned[a]] /\ SavedForItsTarget
    /\ saTarget \in SubAdmins \cup {0} /\ saSelected \in Own(saTarget)
    /\ saDetails = [a \in DOMAIN saDetails |-> saDetails[a]]
    /\ DOMAIN saDetails \subseteq SubAdmins
    /\ \A a \in DOMAIN saDetails : saDetails[a] \in Entry(Own(a))
    /\ saCalls \in Seq(Assignment)
    /\ \A i \in DOMAIN saCalls : saCalls[i].scripts \in Own(saCalls[i].id)

LEMMA AssignmentInitially == AssignmentInit => AssignmentInv
<1> SUFFICES ASSUME AssignmentInit PROVE AssignmentInv
  OBVIOUS
<1>1. saAssigned = [a \in SubAdmins |-> saAssigned[a]] /\ SavedForItsTarget
  BY AssignmentAssumption DEF AssignmentInit, SavedForItsTarget
<1>2. saDetails = <<>> /\ DOMAIN saDetails = {} /\ saCalls \in Seq(Assignment) /\ DOMAIN saCalls = {}
  BY DEF AssignmentInit
<1> QED BY <1>1, <1>2 DEF AssignmentInit, AssignmentInv, Own

\* The operator moves about in the dialog: what is ticked stays the target's.
LEMMA TargetMoved ==
    ASSUME AssignmentInv, UNCHANGED <<saAssigned, saDetails, saCalls>>,
           saTarget' \in SubAdmins \cup {0}, saSelected' \in Own(saTarget')
    PROVE  AssignmentInv'
BY DEF AssignmentInv, SavedForItsTarget, Own

\* One entry changes to another of its kind.
LEMMA EntrySet ==
    ASSUME AssignmentInv, NEW a, NEW e, a \in DOMAIN saDetails => e \in Entry(Own(a)),
           saDetails' = [saDetails EXCEPT ![a] = e]
    PROVE  /\ saDetails' = [b \in DOMAIN saDetails' |-> saDetails'[b]]
           /\ DOMAIN saDetails' \subseteq SubAdmins
           /\ \A b \in DOMAIN saDetails' : saDetails'[b] \in Entry(Own(b))
BY DEF AssignmentInv

LEMMA DetailsChanged ==
    ASSUME AssignmentInv, UNCHANGED <<saAssigned, saTarget, saSelected, saCalls>>,
           NEW a, NEW e, a \in DOMAIN saDetails => e \in Entry(Own(a)),
           saDetails' = [saDetails EXCEPT ![a] = e]
    PROVE  AssignmentInv'
<1>1. /\ saDetails' = [b \in DOMAIN saDetails' |-> saDetails'[b]]
      /\ DOMAIN saDetails' \subseteq SubAdmins
      /\ \A b \in DOMAIN saDetails' : saDetails'[b] \in Entry(Own(b))
  BY EntrySet
<1> QED BY <1>1 DEF AssignmentInv, SavedForItsTarget, Own

\* An invalidation of the target's query, or of none.
LEMMA TargetInvalidated ==
    ASSUME AssignmentInv, saDetails' = InvalidateTarget
    PROVE  /\ saDetails' = [b \in DOMAIN saDetails' |-> saDetails'[b]]
           /\ DOMAIN saDetails' \subseteq SubAdmins
           /\ \A b \in DOMAIN saDetails' : saDetails'[b] \in Entry(Own(b))
<1>1. CASE saTarget = 0
  BY <1>1 DEF InvalidateTarget, AssignmentInv
<1>2. CASE saTarget # 0
  <2>1. saDetails' = [saDetails EXCEPT ![saTarget] = Invalidate(saDetails[saTarget], TRUE)]
    BY <1>2 DEF InvalidateTarget
  <2>2. saTarget \in DOMAIN saDetails => Invalidate(saDetails[saTarget], TRUE) \in Entry(Own(saTarget))
    BY EntryKept DEF AssignmentInv
  <2> QED BY <2>1, <2>2, EntrySet
<1> QED BY <1>1, <1>2

\* A call is answered: what it was sent with stays.
LEMMA AssignmentMoved ==
    ASSUME AssignmentInv, NEW i \in DOMAIN saCalls, NEW state \in {"answered", "done"}, NEW ok \in BOOLEAN,
           saCalls' = [saCalls EXCEPT ![i] = [saCalls[i] EXCEPT !.state = state, !.ok = ok]]
    PROVE  /\ saCalls' \in Seq(Assignment)
           /\ \A j \in DOMAIN saCalls' : saCalls'[j].scripts \in Own(saCalls'[j].id)
<1> DEFINE c == [saCalls[i] EXCEPT !.state = state, !.ok = ok]
<1>1. saCalls[i] \in Assignment
  BY DEF AssignmentInv
<1>2. c \in Assignment /\ c.id = saCalls[i].id /\ c.scripts = saCalls[i].scripts
  BY <1>1 DEF Assignment
<1>3. saCalls' = [saCalls EXCEPT ![i] = c]
  OBVIOUS
<1> HIDE DEF c
<1>4. saCalls' \in Seq(Assignment) /\ DOMAIN saCalls' = DOMAIN saCalls
  BY <1>2, <1>3, CallChanged DEF AssignmentInv
<1>5. \A j \in DOMAIN saCalls : saCalls'[j] = IF j = i THEN c ELSE saCalls[j]
  BY <1>3 DEF AssignmentInv
<1> QED BY <1>2, <1>4, <1>5 DEF AssignmentInv

LEMMA AssignmentStepped ==
    ASSUME AssignmentInv, [AssignmentNext]_assignmentVars
    PROVE  AssignmentInv'
<1> USE DEF dialogVars
<1>0. 0 \notin SubAdmins
  BY AssignmentAssumption
<1>1. CASE UNCHANGED assignmentVars
  BY <1>1, TargetMoved DEF assignmentVars, AssignmentInv
<1>2. ASSUME NEW a \in SubAdmins, OpenAssignment(a)
      PROVE  AssignmentInv'
  <2>1. EntryAt(saDetails, a) \in Entry(Own(a))
    BY EmptyIsEntry DEF EntryAt, AssignmentInv
  <2>2. saDetails' = [b \in DOMAIN saDetails \cup {a} |->
                        IF b = a THEN Observe(EntryAt(saDetails, a)) ELSE saDetails[b]]
    BY <1>2 DEF OpenAssignment, Use
  <2>3. Observe(EntryAt(saDetails, a)) \in Entry(Own(a))
    BY <2>1, EntryKept
  <2>4. /\ saDetails' = [b \in DOMAIN saDetails' |-> saDetails'[b]]
        /\ DOMAIN saDetails' \subseteq SubAdmins
        /\ \A b \in DOMAIN saDetails' : saDetails'[b] \in Entry(Own(b))
    BY <2>2, <2>3 DEF AssignmentInv
  <2>5. saTarget' = a /\ saSelected' \in Own(a)
    BY <1>2 DEF OpenAssignment, EmptySelection, Own
  <2> QED BY <1>2, <2>4, <2>5 DEF OpenAssignment, AssignmentInv, SavedForItsTarget
<1>3. ASSUME NEW a \in DOMAIN saDetails, LoadAssigned(a)
      PROVE  AssignmentInv'
  <2>1. a \in SubAdmins /\ saDetails[a] \in Entry(Own(a)) /\ saAssigned[a] \in Own(a)
    BY DEF AssignmentInv, SavedForItsTarget, Own
  <2>2. PICK e \in Entry(Own(a)) : saDetails' = [saDetails EXCEPT ![a] = e]
    BY <1>3, <2>1, EntryKept DEF LoadAssigned
  <2> QED BY <1>3, <2>2, DetailsChanged DEF LoadAssigned
<1>4. ASSUME NEW a \in DOMAIN saDetails, DetailArrives(a)
      PROVE  AssignmentInv'
  <2>1. saDetails[a] \in Entry(Own(a))
    BY DEF AssignmentInv
  <2>2. Arrive(saDetails[a]) \in Entry(Own(a)) /\ saDetails' = [saDetails EXCEPT ![a] = Arrive(saDetails[a])]
    BY <1>4, <2>1, EntryKept DEF DetailArrives
  <2>3. /\ saDetails' = [b \in DOMAIN saDetails' |-> saDetails'[b]]
        /\ DOMAIN saDetails' \subseteq SubAdmins
        /\ \A b \in DOMAIN saDetails' : saDetails'[b] \in Entry(Own(b))
    BY <2>2, EntrySet
  <2>4. saSelected' \in Own(saTarget)
    <3>1. CASE UNCHANGED saSelected
      BY <3>1 DEF AssignmentInv
    <3>2. CASE saTarget = a /\ saSelected' = FillSelection(saSelected, saDetails'[a])
      <4>1. saDetails'[a] \in Entry(Own(a))
        BY <2>2, <2>3
      <4>2. saDetails'[a].data \in Own(a) \cup {NoData}
        BY <4>1 DEF Entry
      <4> QED BY <3>2, <4>2 DEF FillSelection, AssignmentInv
    <3> QED BY <1>4, <3>1, <3>2 DEF DetailArrives
  <2> QED BY <1>4, <2>3, <2>4 DEF DetailArrives, AssignmentInv, SavedForItsTarget
<1>5. ASSUME NEW a \in DOMAIN saDetails, ExpireDetail(a)
      PROVE  AssignmentInv'
  <2>1. Expire(saDetails[a]) \in Entry(Own(a))
    BY EntryKept DEF AssignmentInv
  <2> QED BY <1>5, <2>1, DetailsChanged DEF ExpireDetail
<1>6. ASSUME NEW a \in SubAdmins, NEW S \in {{}, Scripts}, AssignElsewhere(a, S)
      PROVE  AssignmentInv'
  <2>1. saAssigned' = [saAssigned EXCEPT ![a] = S \X {a}] /\ S \subseteq Scripts
    BY <1>6 DEF AssignElsewhere
  <2>2. saAssigned' = [b \in SubAdmins |-> saAssigned'[b]] /\ SavedForItsTarget'
    BY <2>1 DEF AssignmentInv, SavedForItsTarget
  <2> QED BY <1>6, <2>2 DEF AssignElsewhere, AssignmentInv
<1>7. ASSUME NEW s \in Scripts, ToggleAssigned(s)
      PROVE  AssignmentInv'
  <2>1. saSelected' \in Own(saTarget)
    BY <1>7 DEF ToggleAssigned, Select, AssignmentInv, Own
  <2> QED BY <1>7, <2>1, TargetMoved DEF ToggleAssigned, Select, AssignmentInv
<1>8. ASSUME NEW s, SearchCatalog(s)
      PROVE  AssignmentInv'
  BY <1>8, TargetMoved DEF SearchCatalog, AssignmentInv
<1>9. ASSUME NEW page, TurnCatalog(page)
      PROVE  AssignmentInv'
  BY <1>9, TargetMoved DEF TurnCatalog, AssignmentInv
<1>10. ASSUME NEW i \in DOMAIN saCalls, ReplaceScripts(i)
       PROVE  AssignmentInv'
  <2>1. saCalls[i] \in Assignment /\ saCalls[i].scripts \in Own(saCalls[i].id)
    BY DEF AssignmentInv
  <2>2. PICK arrives \in BOOLEAN : saCalls' = [saCalls EXCEPT ![i].state = "answered", ![i].ok = arrives]
    BY <1>10 DEF ReplaceScripts
  <2>6. saCalls' = [saCalls EXCEPT ![i] = [saCalls[i] EXCEPT !.state = "answered", !.ok = arrives]]
    BY <2>2
  <2>3. saAssigned' = [saAssigned EXCEPT ![saCalls[i].id] = saCalls[i].scripts]
    BY <1>10 DEF ReplaceScripts
  <2>4. saAssigned' = [b \in SubAdmins |-> saAssigned'[b]] /\ SavedForItsTarget'
    BY <2>1, <2>3 DEF AssignmentInv, SavedForItsTarget, Own, Assignment
  <2>5. /\ saCalls' \in Seq(Assignment)
        /\ \A j \in DOMAIN saCalls' : saCalls'[j].scripts \in Own(saCalls'[j].id)
    BY <2>6, AssignmentMoved
  <2> QED BY <1>10, <2>4, <2>5 DEF ReplaceScripts, AssignmentInv
<1>11. ASSUME NEW i \in DOMAIN saCalls, AssignmentSaved(i)
       PROVE  AssignmentInv'
  <2>1. saCalls[i] \in Assignment
    BY DEF AssignmentInv
  <2>2. saCalls' = [saCalls EXCEPT ![i].state = "done"]
    BY <1>11 DEF AssignmentSaved
  <2>3. /\ saCalls' \in Seq(Assignment)
        /\ \A j \in DOMAIN saCalls' : saCalls'[j].scripts \in Own(saCalls'[j].id)
    <3>1. saCalls' = [saCalls EXCEPT ![i] = [saCalls[i] EXCEPT !.state = "done", !.ok = saCalls[i].ok]]
      BY <2>1, <2>2 DEF Assignment, AssignmentInv
    <3> QED BY <2>1, <3>1, AssignmentMoved DEF Assignment
  <2>4. /\ saDetails' = [b \in DOMAIN saDetails' |-> saDetails'[b]]
        /\ DOMAIN saDetails' \subseteq SubAdmins
        /\ \A b \in DOMAIN saDetails' : saDetails'[b] \in Entry(Own(b))
    BY <1>11, TargetInvalidated DEF AssignmentSaved, AssignmentInv
  <2>5. saTarget' \in SubAdmins \cup {0} /\ saSelected' \in Own(saTarget')
    BY <1>11 DEF AssignmentSaved, CloseDialog, EmptySelection, AssignmentInv, Own
  <2> QED BY <1>11, <2>3, <2>4, <2>5 DEF AssignmentSaved, AssignmentInv, SavedForItsTarget
<1>12. CASE CloseAssignment
  BY <1>12, TargetMoved DEF CloseAssignment, CloseDialog, EmptySelection, Own
<1>13. CASE SelectVisible
  <2>1. InView \subseteq Scripts
    BY DEF InView
  <2>2. saSelected' = saSelected \cup {<<s, saTarget>> : s \in {t \in InView : \A pair \in saSelected : pair[1] # t}}
    BY <1>13 DEF SelectVisible, Select
  <2>3. saSelected' \in Own(saTarget)
    BY <2>1, <2>2 DEF AssignmentInv, Own
  <2> QED BY <1>13, <2>3, TargetMoved DEF SelectVisible, Select, AssignmentInv
<1>14. CASE ClearAssignment
  BY <1>14, TargetMoved DEF ClearAssignment, Select, AssignmentInv, Own
<1>15. CASE SaveAssignment
  <2> DEFINE c == [id |-> saTarget, scripts |-> saSelected, state |-> "sent", ok |-> FALSE]
  <2>1. c \in Assignment /\ c.scripts \in Own(c.id)
    BY <1>15 DEF SaveAssignment, AssignmentInv, Assignment, Own
  <2>2. saCalls' = Append(saCalls, c)
    BY <1>15 DEF SaveAssignment
  <2> HIDE DEF c
  <2>3. /\ saCalls' \in Seq(Assignment)
        /\ \A j \in DOMAIN saCalls' : saCalls'[j].scripts \in Own(saCalls'[j].id)
    BY <2>1, <2>2, CallAppended DEF AssignmentInv
  <2> QED BY <1>15, <2>3 DEF SaveAssignment, AssignmentInv, SavedForItsTarget
<1>16. CASE CatalogArrives
  BY <1>16, TargetMoved DEF CatalogArrives, AssignmentInv
<1>17. CASE EditAnswered
  BY <1>17, TargetInvalidated DEF EditAnswered, AssignmentInv, SavedForItsTarget
<1> QED BY <1>1, <1>2, <1>3, <1>4, <1>5, <1>6, <1>7, <1>8, <1>9, <1>10, <1>11, <1>12, <1>13,
           <1>14, <1>15, <1>16, <1>17 DEF AssignmentNext

\* For any sub-admins, scripts and interleaving of loads, saves and dialogs,
\* a sub-admin is assigned only scripts loaded or ticked for it
\* (SubAdminListPage, ScriptPermissionDialog).
THEOREM AssignmentCorrect == AssignmentSpec => []SavedForItsTarget
<1>1. AssignmentInv => SavedForItsTarget
  BY DEF AssignmentInv
<1> QED BY <1>1, AssignmentInitially, AssignmentStepped, PTL DEF AssignmentSpec
-----------------------------------------------------------------------------
(* A call carries what was loaded or typed for its record.                 *)

Target == Records \cup {0}
Dialog == [for : Target, typed : Target]
Kinds == {"create", "update", "password", "renew", "revoke", "toggle", "sync"}
Values == {"none", "on", "off"}
Saving == [kind : Kinds, id : Target, from : Target, value : Values, mount : Nat,
           state : {"sent", "answered", "done"}, ok : BOOLEAN, at : Nat]

\* While the editor is open its form is of the record it edits; the dialogs
\* that only create never hold a record; what is typed into the others is
\* typed for the record they are open for.
DialogsOwn ==
    /\ lpEditor \in [open : BOOLEAN, editing : Target, form : Target, filled : BOOLEAN]
    /\ lpEditor.open => lpEditor.form = lpEditor.editing
    /\ lpPage \in CreatePages => lpEditor.form = 0 /\ lpEditor.editing = 0
    /\ lpReset \in Dialog /\ (lpReset.for # 0 => lpReset.typed \in {0, lpReset.for})
    /\ lpRenew \in Dialog /\ (lpRenew.for # 0 => lpRenew.typed = lpRenew.for)
    /\ lpRevoke \in Target

ListPagesInv == /\ lpMount \in Nat /\ lpWrites \in Nat
                /\ DialogsOwn
                /\ lpCalls \in Seq(Saving) /\ SavedDataBelongsToRecord

LEMMA ListInitially == ListInit => ListPagesInv
BY DEF ListInit, ListPagesInv, DialogsOwn, SavedDataBelongsToRecord, NoEditor, NoDialog, Dialog, Target

\* A call is sent for a record, with what belongs to it.
LEMMA SavingSent ==
    ASSUME ListPagesInv, NEW kind \in Kinds, NEW id \in Target, NEW value \in Values,
           Send(kind, id, id, value), UNCHANGED <<lpView, lpDialogs, lpServer>>
    PROVE  ListPagesInv'
<1> DEFINE c == [kind |-> kind, id |-> id, from |-> id, value |-> value,
                 mount |-> lpMount, state |-> "sent", ok |-> FALSE, at |-> 0]
<1>1. c \in Saving /\ c.from = c.id
  BY DEF Saving, ListPagesInv
<1>2. lpCalls' = Append(lpCalls, c)
  BY DEF Send
<1> HIDE DEF c
<1>3. lpCalls' \in Seq(Saving) /\ SavedDataBelongsToRecord'
  BY <1>1, <1>2, CallAppended DEF ListPagesInv, SavedDataBelongsToRecord
<1> QED BY <1>3 DEF ListPagesInv, DialogsOwn, lpView, lpDialogs, lpServer

\* Nothing is sent: it is enough that the dialogs stay as they should be.
LEMMA NothingSent ==
    ASSUME ListPagesInv, UNCHANGED lpCalls, lpMount' \in Nat, lpWrites' \in Nat, DialogsOwn'
    PROVE  ListPagesInv'
BY DEF ListPagesInv, SavedDataBelongsToRecord

LEMMA DialogsLeft ==
    ASSUME ListPagesInv, UNCHANGED <<lpPage, lpDialogs>>
    PROVE  DialogsOwn'
BY DEF ListPagesInv, DialogsOwn, lpDialogs

LEMMA EditorSet ==
    ASSUME ListPagesInv, NEW editor \in [open : BOOLEAN, editing : Target, form : Target, filled : BOOLEAN],
           editor.open => editor.form = editor.editing,
           lpPage \in CreatePages => editor.form = 0 /\ editor.editing = 0,
           SetEditor(editor)
    PROVE  ListPagesInv'
<1>1. DialogsOwn'
  BY DEF SetEditor, DialogsOwn, ListPagesInv, lpView
<1> QED BY <1>1, NothingSent DEF SetEditor, ListPagesInv, lpView, lpServer

LEMMA EditorOpened ==
    ASSUME ListPagesInv, NEW r \in Target, lpPage \notin CreatePages, OpenEditor(r)
    PROVE  ListPagesInv'
<1>1. DialogsOwn'
  BY DEF OpenEditor, DialogsOwn, ListPagesInv, lpView
<1> QED BY <1>1, NothingSent DEF OpenEditor, ListPagesInv, lpView, lpServer

LEMMA EditorSaved ==
    ASSUME ListPagesInv, lpEditor.open, SaveEditor
    PROVE  ListPagesInv'
<1>1. lpEditor.form = lpEditor.editing /\ lpEditor.editing \in Target
  BY DEF ListPagesInv, DialogsOwn
<1>2. CASE lpEditor.editing # 0
  <2>1. Send("update", lpEditor.editing, lpEditor.editing, "on") /\ "update" \in Kinds /\ "on" \in Values
    BY <1>1, <1>2 DEF SaveEditor, Kinds, Values
  <2> QED BY <1>1, <2>1, SavingSent DEF SaveEditor
<1>3. CASE lpEditor.editing = 0
  <2> DEFINE value == IF lpEditor.filled THEN "on" ELSE "none"
  <2>1. value \in Values /\ 0 \in Target /\ "create" \in Kinds
    BY DEF Target, Values, Kinds
  <2>2. Send("create", 0, 0, value)
    BY <1>1, <1>3 DEF SaveEditor
  <2> HIDE DEF value
  <2> QED BY <2>1, <2>2, SavingSent DEF SaveEditor
<1> QED BY <1>2, <1>3

LEMMA ResetSet ==
    ASSUME ListPagesInv, NEW dialog \in Dialog, dialog.for # 0 => dialog.typed \in {0, dialog.for},
           NEW quick, SetReset(dialog, quick)
    PROVE  ListPagesInv'
<1>1. DialogsOwn'
  BY DEF SetReset, DialogsOwn, ListPagesInv, lpView
<1> QED BY <1>1, NothingSent DEF SetReset, ListPagesInv, lpView, lpServer

LEMMA RenewSet ==
    ASSUME ListPagesInv, NEW dialog \in Dialog, dialog.for # 0 => dialog.typed = dialog.for,
           SetRenew(dialog)
    PROVE  ListPagesInv'
<1>1. DialogsOwn'
  BY DEF SetRenew, DialogsOwn, ListPagesInv, lpView
<1> QED BY <1>1, NothingSent DEF SetRenew, ListPagesInv, lpView, lpServer

LEMMA RevokeSet ==
    ASSUME ListPagesInv, NEW r \in Target, SetRevoke(r)
    PROVE  ListPagesInv'
<1>1. DialogsOwn'
  BY DEF SetRevoke, DialogsOwn, ListPagesInv, lpView
<1> QED BY <1>1, NothingSent DEF SetRevoke, ListPagesInv, lpView, lpServer

LEMMA QuickSet ==
    ASSUME ListPagesInv, NEW r, SetQuick(r)
    PROVE  ListPagesInv'
<1>1. DialogsOwn'
  BY DEF SetQuick, DialogsOwn, ListPagesInv, lpView
<1> QED BY <1>1, NothingSent DEF SetQuick, ListPagesInv, lpView, lpServer

LEMMA ListTurned ==
    ASSUME ListPagesInv, NEW key, Turn(key)
    PROVE  ListPagesInv'
BY DialogsLeft, NothingSent DEF Turn, ListPagesInv, lpServer

LEMMA PageArrived ==
    ASSUME ListPagesInv, NEW editor \in [open : BOOLEAN, editing : Target, form : Target, filled : BOOLEAN],
           editor.form = 0 /\ editor.editing = 0, ArriveWith(editor)
    PROVE  ListPagesInv'
<1>1. DialogsOwn'
  BY DEF ArriveWith, DialogsOwn, ListPagesInv, NoDialog, Dialog, Target
<1> QED BY <1>1, NothingSent DEF ArriveWith, ListPagesInv, lpServer

\* A call is answered: what it was sent with stays.
LEMMA SavingMoved ==
    ASSUME ListPagesInv, NEW i \in DOMAIN lpCalls, NEW c \in Saving,
           c.id = lpCalls[i].id, c.from = lpCalls[i].from,
           lpCalls' = [lpCalls EXCEPT ![i] = c]
    PROVE  lpCalls' \in Seq(Saving) /\ SavedDataBelongsToRecord'
<1>1. lpCalls' \in Seq(Saving) /\ DOMAIN lpCalls' = DOMAIN lpCalls
  BY CallChanged DEF ListPagesInv
<1>2. \A j \in DOMAIN lpCalls : lpCalls'[j] = IF j = i THEN c ELSE lpCalls[j]
  BY DEF ListPagesInv
<1> QED BY <1>1, <1>2 DEF ListPagesInv, SavedDataBelongsToRecord

LEMMA CallServed ==
    ASSUME ListPagesInv, NEW i \in DOMAIN lpCalls, Serve(i)
    PROVE  ListPagesInv'
<1>1. PICK accepted \in BOOLEAN, arrives \in BOOLEAN :
        LET written == IF accepted THEN Written(lpCalls[i]) ELSE {}
        IN  /\ lpWrites' = IF written = {} THEN lpWrites ELSE lpWrites + 1
            /\ lpCalls' = [lpCalls EXCEPT ![i].state = "answered", ![i].at = lpWrites',
                             ![i].ok = arrives /\ accepted /\ (written # {} \/ lpCalls[i].kind = "sync")]
  BY DEF Serve
<1> DEFINE written == IF accepted THEN Written(lpCalls[i]) ELSE {}
           ok == arrives /\ accepted /\ (written # {} \/ lpCalls[i].kind = "sync")
           c == [lpCalls[i] EXCEPT !.state = "answered", !.at = lpWrites', !.ok = ok]
<1>2. lpWrites' \in Nat
  <2>1. lpWrites \in Nat
    BY DEF ListPagesInv
  <2>2. lpWrites' = lpWrites \/ lpWrites' = lpWrites + 1
    BY <1>1
  <2> HIDE DEF written
  <2> QED BY <2>1, <2>2
<1>3. lpCalls[i] \in Saving
  BY DEF ListPagesInv
<1>4. lpCalls' = [lpCalls EXCEPT ![i] = c]
  BY <1>1
<1>5. ok \in BOOLEAN
  OBVIOUS
<1> HIDE DEF ok
<1>6. c \in Saving /\ c.id = lpCalls[i].id /\ c.from = lpCalls[i].from
  BY <1>2, <1>3, <1>5 DEF Saving
<1> HIDE DEF c
<1>7. lpCalls' \in Seq(Saving) /\ SavedDataBelongsToRecord'
  BY <1>4, <1>6, SavingMoved
<1>8. DialogsOwn'
  BY DialogsLeft DEF Serve, lpView
<1> QED BY <1>2, <1>7, <1>8 DEF Serve, ListPagesInv, lpView

LEMMA AnswerDelivered ==
    ASSUME ListPagesInv, NEW i \in DOMAIN lpCalls, Delivered(i)
    PROVE  ListPagesInv'
<1> DEFINE c == [lpCalls[i] EXCEPT !.state = "done"]
<1>1. lpCalls[i] \in Saving
  BY DEF ListPagesInv
<1>2. c \in Saving /\ c.id = lpCalls[i].id /\ c.from = lpCalls[i].from
  BY <1>1 DEF Saving
<1>3. lpCalls' = [lpCalls EXCEPT ![i] = c]
  BY DEF Delivered
<1> HIDE DEF c
<1>4. lpCalls' \in Seq(Saving) /\ SavedDataBelongsToRecord'
  BY <1>2, <1>3, SavingMoved
<1>5. DialogsOwn'
  <2>1. /\ lpEditor' \in [open : BOOLEAN, editing : Target, form : Target, filled : BOOLEAN]
        /\ lpEditor'.open => lpEditor'.form = lpEditor'.editing
        /\ lpPage \in CreatePages => lpEditor'.form = 0 /\ lpEditor'.editing = 0
    BY DEF Delivered, EditorAfter, NoEditor, ListPagesInv, DialogsOwn, Target
  <2>2. /\ lpReset' \in Dialog /\ (lpReset'.for # 0 => lpReset'.typed \in {0, lpReset'.for})
        /\ lpRenew' \in Dialog /\ (lpRenew'.for # 0 => lpRenew'.typed = lpRenew'.for)
        /\ lpRevoke' \in Target
    BY DEF Delivered, ListPagesInv, DialogsOwn, Dialog, Target
  <2> QED BY <2>1, <2>2 DEF Delivered, DialogsOwn
<1> QED BY <1>4, <1>5 DEF Delivered, ListPagesInv, lpServer

LEMMA ListStepped ==
    ASSUME ListPagesInv, [ListPagesNext]_listVars
    PROVE  ListPagesInv'
<1>0a. /\ "password" \in Kinds /\ "renew" \in Kinds /\ "revoke" \in Kinds /\ "sync" \in Kinds
       /\ "on" \in Values /\ "off" \in Values
  BY DEF Kinds, Values
<1>0. 0 \in Target /\ Records \subseteq Target /\ 0 \notin Records
  BY ListAssumption DEF Target
<1>1. CASE UNCHANGED listVars
  BY <1>1, DialogsLeft, NothingSent DEF listVars, ListPagesInv, lpView, lpServer
<1>2. ASSUME NEW f \in {"all", "on"}, FilterList(f)
      PROVE  ListPagesInv'
  BY <1>2, ListTurned DEF FilterList
<1>3. ASSUME NEW p, TurnPage(p)
      PROVE  ListPagesInv'
  BY <1>3, ListTurned DEF TurnPage
<1>4. ASSUME NEW k, LoadPage(k)
      PROVE  ListPagesInv'
  BY <1>4, DialogsLeft, NothingSent DEF LoadPage, ListPagesInv, lpView, lpServer
<1>5. CASE Revisit
  <2>1. /\ NoEditor \in [open : BOOLEAN, editing : Target, form : Target, filled : BOOLEAN]
        /\ NoEditor.form = 0 /\ NoEditor.editing = 0
    BY <1>0 DEF NoEditor
  <2> QED BY <1>5, <2>1, PageArrived DEF Revisit
<1>6. CASE ArriveFromRegistration
  <2> DEFINE editor == [NoEditor EXCEPT !.open = TRUE, !.filled = TRUE]
  <2>1. /\ editor \in [open : BOOLEAN, editing : Target, form : Target, filled : BOOLEAN]
        /\ editor.form = 0 /\ editor.editing = 0
    BY <1>0 DEF NoEditor
  <2>2. ArriveWith(editor)
    BY <1>6 DEF ArriveFromRegistration
  <2> HIDE DEF editor
  <2> QED BY <2>1, <2>2, PageArrived
<1>7. CASE Sync
  BY <1>0, <1>0a, <1>7, SavingSent DEF Sync
<1>8. CASE RefreshOverview
  BY <1>8, DialogsLeft, NothingSent DEF RefreshOverview, ListPagesInv, lpView, lpServer
<1>9. ASSUME NEW r \in Records, EditAgent(r) \/ EditSubAdmin(r)
      PROVE  ListPagesInv'
  <2>1. lpPage \notin CreatePages /\ OpenEditor(r)
    BY <1>9 DEF EditAgent, EditSubAdmin, Row, On, CreatePages
  <2> QED BY <1>0, <2>1, EditorOpened
<1>10. ASSUME NEW r \in Records, QuickView(r)
       PROVE  ListPagesInv'
  BY <1>10, QuickSet DEF QuickView
<1>11. ASSUME NEW r \in Records, OpenReset(r)
       PROVE  ListPagesInv'
  <2>1. [for |-> r, typed |-> 0] \in Dialog
    BY <1>0 DEF Dialog
  <2> QED BY <1>11, <2>1, ResetSet DEF OpenReset
<1>12. ASSUME NEW r \in Records, OpenRenew(r)
       PROVE  ListPagesInv'
  <2>1. [for |-> r, typed |-> r] \in Dialog
    BY <1>0 DEF Dialog
  <2> QED BY <1>12, <2>1, RenewSet DEF OpenRenew
<1>13. ASSUME NEW r \in Records, OpenRevoke(r)
       PROVE  ListPagesInv'
  BY <1>0, <1>13, RevokeSet DEF OpenRevoke
<1>14. ASSUME NEW r \in Records, ToggleScript(r)
       PROVE  ListPagesInv'
  <2> DEFINE value == IF ActiveRow("scripts", r) THEN "off" ELSE "on"
  <2>1. value \in Values /\ "toggle" \in Kinds
    BY DEF Values, Kinds
  <2>2. Send("toggle", r, r, value) /\ UNCHANGED <<lpView, lpDialogs, lpServer>>
    BY <1>14 DEF ToggleScript
  <2> HIDE DEF value
  <2> QED BY <1>0, <2>1, <2>2, SavingSent
<1>15. ASSUME NEW r \in Records, WriteElsewhere(r)
       PROVE  ListPagesInv'
  BY <1>15, DialogsLeft, NothingSent DEF WriteElsewhere, ListPagesInv, lpView
<1>16. CASE CreateAgent \/ CreateSubAdmin
  <2>1. lpPage \notin CreatePages /\ OpenEditor(0)
    BY <1>16 DEF CreateAgent, CreateSubAdmin, On, CreatePages
  <2> QED BY <1>0, <2>1, EditorOpened
<1>17. CASE FillEditor
  <2> DEFINE editor == [lpEditor EXCEPT !.filled = TRUE]
  <2>1. /\ editor \in [open : BOOLEAN, editing : Target, form : Target, filled : BOOLEAN]
        /\ editor.open => editor.form = editor.editing
        /\ lpPage \in CreatePages => editor.form = 0 /\ editor.editing = 0
    BY DEF ListPagesInv, DialogsOwn
  <2>2. SetEditor(editor)
    BY <1>17 DEF FillEditor
  <2> HIDE DEF editor
  <2> QED BY <2>1, <2>2, EditorSet
<1>18. CASE SaveAgent \/ SaveSubAdmin \/ SaveCustomer \/ SaveAgentCustomer \/ GrantSubscription
  BY <1>18, EditorSaved DEF SaveAgent, SaveSubAdmin, SaveCustomer, SaveAgentCustomer, GrantSubscription
<1>19. CASE CancelAgent \/ CloseCreate
  <2> DEFINE editor == [lpEditor EXCEPT !.open = FALSE]
  <2>1. /\ editor \in [open : BOOLEAN, editing : Target, form : Target, filled : BOOLEAN]
        /\ editor.open => editor.form = editor.editing
        /\ lpPage \in CreatePages => editor.form = 0 /\ editor.editing = 0
    BY DEF ListPagesInv, DialogsOwn
  <2>2. SetEditor(editor)
    BY <1>19 DEF CancelAgent, CloseCreate
  <2> HIDE DEF editor
  <2> QED BY <2>1, <2>2, EditorSet
<1>20. CASE DismissEditor
  <2> DEFINE editor == [lpEditor EXCEPT !.open = FALSE, !.editing = 0]
  <2>1. /\ editor \in [open : BOOLEAN, editing : Target, form : Target, filled : BOOLEAN]
        /\ editor.open => editor.form = editor.editing
        /\ lpPage \in CreatePages => editor.form = 0 /\ editor.editing = 0
    BY <1>0 DEF ListPagesInv, DialogsOwn
  <2>2. SetEditor(editor)
    BY <1>20 DEF DismissEditor
  <2> HIDE DEF editor
  <2> QED BY <2>1, <2>2, EditorSet
<1>21. CASE OpenCreate
  <2> DEFINE editor == [lpEditor EXCEPT !.open = TRUE]
  <2>1. lpPage \in CreatePages /\ SetEditor(editor)
    BY <1>21 DEF OpenCreate
  <2>2. /\ editor \in [open : BOOLEAN, editing : Target, form : Target, filled : BOOLEAN]
        /\ editor.form = 0 /\ editor.editing = 0
    BY <2>1 DEF ListPagesInv, DialogsOwn
  <2> HIDE DEF editor
  <2> QED BY <2>1, <2>2, EditorSet
<1>22. CASE CloseQuickView
  BY <1>22, QuickSet DEF CloseQuickView
<1>23. CASE TypePassword
  <2> DEFINE dialog == [lpReset EXCEPT !.typed = lpReset.for]
  <2>1. dialog \in Dialog /\ dialog.typed = dialog.for
    BY DEF ListPagesInv, DialogsOwn, Dialog
  <2>2. SetReset(dialog, lpQuick)
    BY <1>23 DEF TypePassword
  <2> HIDE DEF dialog
  <2> QED BY <2>1, <2>2, ResetSet
<1>24. CASE CloseReset
  <2> DEFINE dialog == [lpReset EXCEPT !.for = 0]
  <2>1. dialog \in Dialog /\ dialog.for = 0
    BY <1>0 DEF ListPagesInv, DialogsOwn, Dialog
  <2>2. SetReset(dialog, lpQuick)
    BY <1>24 DEF CloseReset
  <2> HIDE DEF dialog
  <2> QED BY <2>1, <2>2, ResetSet
<1>25. CASE SubmitPassword
  <2>1. lpReset.typed = lpReset.for /\ lpReset.for \in Target
    BY <1>25 DEF SubmitPassword, ListPagesInv, DialogsOwn, Dialog
  <2> QED BY <1>0a, <1>25, <2>1, SavingSent DEF SubmitPassword
<1>26. CASE CloseRenew
  <2> DEFINE dialog == [lpRenew EXCEPT !.for = 0]
  <2>1. dialog \in Dialog /\ dialog.for = 0
    BY <1>0 DEF ListPagesInv, DialogsOwn, Dialog
  <2>2. SetRenew(dialog)
    BY <1>26 DEF CloseRenew
  <2> HIDE DEF dialog
  <2> QED BY <2>1, <2>2, RenewSet
<1>27. CASE SubmitRenew
  <2>1. lpRenew.typed = lpRenew.for /\ lpRenew.for \in Target
    BY <1>27 DEF SubmitRenew, ListPagesInv, DialogsOwn, Dialog
  <2> QED BY <1>0a, <1>27, <2>1, SavingSent DEF SubmitRenew
<1>28. CASE CloseRevoke
  BY <1>0, <1>28, RevokeSet DEF CloseRevoke
<1>29. CASE ConfirmRevoke
  BY <1>0a, <1>29, SavingSent DEF ConfirmRevoke, ListPagesInv, DialogsOwn
<1>30. ASSUME NEW i \in DOMAIN lpCalls, Serve(i) \/ Delivered(i)
       PROVE  ListPagesInv'
  BY <1>30, CallServed, AnswerDelivered
<1>31. ASSUME NEW f \in {"all", "on"},
              \/ FilterAgents(f) \/ FilterSubAdmins(f) \/ SearchCustomers(f) \/ FilterSubscriptions(f)
              \/ FilterScripts(f) \/ FilterAgentCustomers(f) \/ FilterOverview(f)
       PROVE  FilterList(f)
  BY <1>31 DEF FilterAgents, FilterSubAdmins, SearchCustomers, FilterSubscriptions, FilterScripts,
               FilterAgentCustomers, FilterOverview
<1>32. ASSUME NEW r \in Records, ResetAgentPassword(r) \/ ResetSubAdminPassword(r)
       PROVE  OpenReset(r)
  BY <1>32 DEF ResetAgentPassword, ResetSubAdminPassword
<1>33. SyncScripts \/ SyncOverview => Sync
  BY DEF SyncScripts, SyncOverview
<1> QED BY <1>1, <1>2, <1>3, <1>4, <1>5, <1>6, <1>7, <1>8, <1>9, <1>10, <1>11, <1>12, <1>13, <1>14,
           <1>15, <1>16, <1>17, <1>18, <1>19, <1>20, <1>21, <1>22, <1>23, <1>24, <1>25, <1>26, <1>27,
           <1>28, <1>29, <1>30, <1>31, <1>32, <1>33 DEF ListPagesNext

\* For any records and any course of dialogs, late answers and faults, a call
\* carries to a record only what was loaded or typed for it (the list pages
\* of agents, sub-admins, customers, subscriptions and scripts).
THEOREM SavingCorrect == ListPagesSpec => []SavedDataBelongsToRecord
<1>1. ListPagesInv => SavedDataBelongsToRecord
  BY DEF ListPagesInv
<1> QED BY <1>1, ListInitially, ListStepped, PTL DEF ListPagesSpec

-----------------------------------------------------------------------------
(* What the operator typed.                                                *)

VisitsCounted == dfMount \in Nat

LEMMA MountInitially == DetailInit => VisitsCounted
BY DEF DetailInit, VisitsCounted

LEMMA MountStepped ==
    ASSUME VisitsCounted, [DetailNext]_detailVars
    PROVE  VisitsCounted'
<1> USE DEF VisitsCounted
<1>1. CASE VisitDetail
  <2>1. dfMount' = dfMount + 1
    BY <1>1 DEF VisitDetail
  <2> QED BY <2>1
<1>2. CASE \/ CloseDetailDialog \/ LoadRecord \/ Reconnect \/ ExpireRecord \/ Save \/ OpenDetailDialog
           \/ RecordArrives \/ UNCHANGED detailVars
  BY <1>2 DEF CloseDetailDialog, LoadRecord, Reconnect, ExpireRecord, Save, OpenDetailDialog, RecordArrives,
              detailVars, dfVisit
<1>3. ASSUME NEW f, TypeField(f) \/ WriteField(f)
      PROVE  VisitsCounted'
  BY <1>3 DEF TypeField, WriteField, dfVisit
<1>4. ASSUME NEW i, ServeSave(i) \/ SaveAnswered(i)
      PROVE  VisitsCounted'
  BY <1>4 DEF ServeSave, SaveAnswered, dfVisit
<1> QED BY <1>1, <1>2, <1>3, <1>4
        DEF DetailNext, SaveCustomerDetail, SaveAgentCustomerDetail, SaveScript, SaveProfile, SaveCookies,
            RenewSubscription, SaveAgentPassword

\* What was typed is dropped by another visit, by a dialog that opens, by a
\* saved settings form, or by another record, and by nothing else.
LEMMA EditsKept ==
    ASSUME VisitsCounted, [DetailNext]_detailVars, NEW f \in dfTouched,
           dfPage # "settings", dfMount' = dfMount, dfOpen' = dfOpen, f \notin dfTouched'
    PROVE  dfEntry'.data # dfEntry.data
<1>1. CASE RecordArrives
  BY <1>1 DEF RecordArrives, NewObject
<1>2. CASE VisitDetail
  <2>1. dfMount' = dfMount + 1
    BY <1>2 DEF VisitDetail
  <2> QED BY <2>1 DEF VisitsCounted
<1>3. CASE OpenDetailDialog
  BY <1>3 DEF OpenDetailDialog
<1>4. ASSUME NEW i \in DOMAIN dfCalls, SaveAnswered(i)
      PROVE  FALSE
  <2>1. dfPage = "settings" \/ dfTouched' = dfTouched
    BY <1>4 DEF SaveAnswered
  <2> QED BY <2>1
<1>5. ASSUME NEW g \in Fields, TypeField(g)
      PROVE  FALSE
  BY <1>5 DEF TypeField
<1>6. CASE \/ CloseDetailDialog \/ LoadRecord \/ Reconnect \/ ExpireRecord \/ Save
           \/ UNCHANGED detailVars
  BY <1>6 DEF CloseDetailDialog, LoadRecord, Reconnect, ExpireRecord, Save, detailVars, dfFormVars
<1>7. ASSUME NEW g, WriteField(g)
      PROVE  FALSE
  BY <1>7 DEF WriteField, dfFormVars
<1>8. ASSUME NEW i, ServeSave(i)
      PROVE  FALSE
  BY <1>8 DEF ServeSave, dfFormVars
<1> QED BY <1>1, <1>2, <1>3, <1>4, <1>5, <1>6, <1>7, <1>8
        DEF DetailNext, SaveCustomerDetail, SaveAgentCustomerDetail, SaveScript, SaveProfile, SaveCookies,
            RenewSubscription, SaveAgentPassword

\* For any fields, values and interleaving of loads, saves and writes of
\* others: what was typed gives way to another record only (the effects that
\* fill the forms of the detail pages).
THEOREM EditsCorrect == DetailSpec => EditsYieldToNewsOnly
<1> DEFINE A == \A f \in dfTouched :
                  dfPage # "settings" /\ dfMount' = dfMount /\ dfOpen' = dfOpen /\ f \notin dfTouched'
                  => dfEntry'.data # dfEntry.data
<1>1. VisitsCounted /\ [DetailNext]_detailVars => [A]_detailVars
  BY EditsKept
<1> QED BY <1>1, MountInitially, MountStepped, PTL DEF DetailSpec, EditsYieldToNewsOnly

-----------------------------------------------------------------------------
(* The form after a save.  A success makes the page load the record again, *)
(* so an answer that is not overtaken was read after every save the tab    *)
(* knows to have succeeded, and the effect copies it into the form.        *)

Contents == [Fields -> Nat]
Copy == [fields : Contents, asOf : Nat]
Entries == [data : Copy \cup {NoData}, fresh : BOOLEAN, failed : BOOLEAN,
            load : {"idle", "sent", "answered"}, answer : Copy \cup {NoData}, overtaken : BOOLEAN]
Saved == [form : Contents, mount : Nat, state : {"sent", "answered", "done"}, ok : BOOLEAN, at : Nat]
CopyPages == {"customer", "agentCustomer", "script"}

\* The entry holds, and will get, nothing older than the given write.
Newest(e, at) == /\ ~e.overtaken /\ e.load = "answered" => e.answer.asOf >= at
                 /\ Settled(e) => e.data.asOf >= at

FormInv ==
    /\ dfRecord \in [fields : Contents, writes : Nat] /\ dfForm \in Contents
    /\ dfMount \in Nat /\ dfValue \in Nat
    /\ dfCalls \in Seq(Saved) /\ \A i \in DOMAIN dfCalls : dfCalls[i].at <= dfRecord.writes
    /\ dfEntry \in Entries
    /\ dfPage \in CopyPages =>
           /\ dfTouched = {} /\ dfEntry.data # NoData => dfForm = dfEntry.data.fields
           /\ \A i \in DOMAIN dfCalls : dfCalls[i].state = "done" /\ dfCalls[i].ok => Newest(dfEntry, dfCalls[i].at)

LEMMA FormInitially == DetailInit => FormInv
<1>1. ASSUME DetailInit PROVE FormInv
  <2>1. Blank \in Contents /\ [f \in Fields |-> 1] \in Contents
    BY DEF Blank, Contents
  <2>2. dfEntry \in Entries /\ dfEntry.data = NoData
    BY <1>1 DEF DetailInit, Observe, EmptyEntry, Loading, Reload, Entries
  <2>3. dfCalls = <<>> /\ <<>> \in Seq(Saved) /\ DOMAIN <<>> = {}
    BY <1>1 DEF DetailInit
  <2> QED BY <1>1, <2>1, <2>2, <2>3 DEF DetailInit, FormInv
<1> QED BY <1>1

LEMMA SavesTyped ==
    ASSUME FormInv, NEW i \in DOMAIN dfCalls
    PROVE  /\ dfCalls[i] \in Saved /\ dfCalls[i].at \in Nat
           /\ dfRecord.writes \in Nat /\ dfCalls[i].at <= dfRecord.writes
<1>1. dfCalls[i] \in Saved
  BY DEF FormInv
<1> QED BY <1>1 DEF FormInv, Saved

\* A load that starts or fails, and the passing of time, bring no other data.
LEMMA EntryMoved ==
    ASSUME NEW e \in Entries, NEW n \in {Reload(e), Observe(e), Fail(e), Expire(e)}
    PROVE  /\ n \in Entries /\ n.data = e.data
           /\ \A at \in Nat : Newest(e, at) => Newest(n, at)
<1>1. /\ Reload(e) \in Entries /\ Reload(e).data = e.data
      /\ \A at \in Nat : Newest(Reload(e), at)
  BY DEF Reload, Entries, Newest, Settled, Loading
<1>2. /\ Fail(e) \in Entries /\ Fail(e).data = e.data
      /\ \A at \in Nat : Newest(Fail(e), at)
  BY DEF Fail, Entries, Newest, Settled, Loading
<1>3. /\ Expire(e) \in Entries /\ Expire(e).data = e.data
      /\ \A at \in Nat : Newest(e, at) => Newest(Expire(e), at)
  BY DEF Expire, Entries, Newest, Settled, Loading
<1>4. Observe(e) \in {e, Reload(e)}
  BY DEF Observe
<1> QED BY <1>1, <1>2, <1>3, <1>4

\* After a success nothing older than any write is awaited.
LEMMA EntryRefreshed ==
    ASSUME NEW e \in Entries
    PROVE  /\ Invalidate(e, TRUE) \in Entries /\ Invalidate(e, TRUE).data = e.data
           /\ \A at \in Nat : Newest(Invalidate(e, TRUE), at)
<1>1. CASE Loading(e) /\ e.data = NoData
  <2>1. Invalidate(e, TRUE) = [e EXCEPT !.fresh = FALSE, !.overtaken = TRUE]
    BY <1>1 DEF Invalidate
  <2> QED BY <2>1 DEF Entries, Newest, Settled
<1>2. CASE ~(Loading(e) /\ e.data = NoData)
  <2>1. Invalidate(e, TRUE) = [Reload(e) EXCEPT !.fresh = FALSE]
    BY <1>2 DEF Invalidate
  <2>2. Reload(e) \in Entries /\ Reload(e).data = e.data /\ Reload(e).load = "sent"
    BY DEF Reload, Entries
  <2> QED BY <2>1, <2>2 DEF Entries, Newest, Settled, Loading
<1> QED BY <1>1, <1>2

\* The answer is read after every save answered so far.
LEMMA EntryAnswered ==
    ASSUME NEW e \in Entries, NEW v \in Copy, NEW at \in Nat, at <= v.asOf, e.load = "sent"
    PROVE  /\ Answer(e, v) \in Entries /\ Answer(e, v).data = e.data /\ Newest(Answer(e, v), at)
BY DEF Answer, Entries, Newest, Settled, Loading

LEMMA EntryArrived ==
    ASSUME NEW e \in Entries, e.load = "answered"
    PROVE  /\ Arrive(e) \in Entries
           /\ \A at \in Nat : Newest(e, at) => Newest(Arrive(e), at)
BY DEF Arrive, Entries, Newest, Settled, Loading

\* Only the entry changes, and its data stay.
LEMMA OnlyEntryMoves ==
    ASSUME FormInv, UNCHANGED <<dfVisit, dfFormVars, dfRecord, dfCalls>>, dfValue' = dfValue,
           dfEntry' \in Entries, dfEntry'.data = dfEntry.data,
           \A at \in Nat : at <= dfRecord.writes /\ Newest(dfEntry, at) => Newest(dfEntry', at)
    PROVE  FormInv'
<1>1. \A i \in DOMAIN dfCalls : dfCalls[i].at \in Nat
  BY SavesTyped
<1> QED BY <1>1 DEF FormInv, dfVisit, dfFormVars

\* A call is answered by the server: none is done by that.
LEMMA SaveServed ==
    ASSUME FormInv, NEW i \in DOMAIN dfCalls, ServeSave(i)
    PROVE  FormInv'
<1>1. PICK accepted \in BOOLEAN, arrives \in BOOLEAN :
        /\ dfRecord' = IF accepted THEN [fields |-> dfCalls[i].form, writes |-> dfRecord.writes + 1] ELSE dfRecord
        /\ dfCalls' = [dfCalls EXCEPT ![i].state = "answered", ![i].ok = accepted /\ arrives,
                                      ![i].at = dfRecord'.writes]
  BY DEF ServeSave
<1>2. dfCalls[i] \in Saved
  BY DEF FormInv
<1>3. dfRecord' \in [fields : Contents, writes : Nat] /\ dfRecord.writes <= dfRecord'.writes
  BY <1>1, <1>2 DEF FormInv, Saved
<1> DEFINE ok == accepted /\ arrives
           c == [dfCalls[i] EXCEPT !.state = "answered", !.ok = ok, !.at = dfRecord'.writes]
<1>4. ok \in BOOLEAN
  OBVIOUS
<1>5. dfCalls' = [dfCalls EXCEPT ![i] = c]
  BY <1>1
<1> HIDE DEF ok
<1>6. c \in Saved /\ c.state = "answered" /\ c.at = dfRecord'.writes
  BY <1>2, <1>3, <1>4 DEF Saved
<1> HIDE DEF c
<1>7. /\ dfCalls' \in Seq(Saved) /\ DOMAIN dfCalls' = DOMAIN dfCalls
      /\ \A j \in DOMAIN dfCalls : dfCalls'[j] = IF j = i THEN c ELSE dfCalls[j]
  BY <1>5, <1>6 DEF FormInv
<1>8. \A j \in DOMAIN dfCalls' : dfCalls'[j].at <= dfRecord'.writes
  <2> TAKE j \in DOMAIN dfCalls'
  <2>1. dfCalls[j].at \in Nat /\ dfCalls[j].at <= dfRecord.writes /\ dfRecord.writes \in Nat /\ dfRecord'.writes \in Nat
    <3>1. j \in DOMAIN dfCalls /\ dfRecord'.writes \in Nat
      BY <1>3, <1>7
    <3> QED BY <3>1, SavesTyped
  <2>2. dfCalls'[j].at = dfRecord'.writes \/ dfCalls'[j].at = dfCalls[j].at
    BY <1>6, <1>7
  <2> QED BY <1>3, <2>1, <2>2
<1> QED BY <1>3, <1>6, <1>7, <1>8 DEF FormInv, ServeSave, dfVisit, dfFormVars

\* The tab takes the answer: on a page that copies, the record is loaded again.
LEMMA SaveTaken ==
    ASSUME FormInv, NEW i \in DOMAIN dfCalls, SaveAnswered(i)
    PROVE  FormInv'
<1> DEFINE c == [dfCalls[i] EXCEPT !.state = "done"]
<1>1. dfCalls' = [dfCalls EXCEPT ![i] = c]
  BY DEF SaveAnswered
<1>2. c \in Saved /\ c.at = dfCalls[i].at /\ c.ok = dfCalls[i].ok
  BY SavesTyped DEF Saved
<1> HIDE DEF c
<1>3. /\ dfCalls' \in Seq(Saved) /\ DOMAIN dfCalls' = DOMAIN dfCalls
      /\ \A j \in DOMAIN dfCalls : dfCalls'[j] = IF j = i THEN c ELSE dfCalls[j]
  BY <1>1, <1>2 DEF FormInv
<1>4. \A j \in DOMAIN dfCalls' : dfCalls'[j].at <= dfRecord'.writes /\ dfCalls'[j].at \in Nat
  BY <1>2, <1>3, SavesTyped DEF SaveAnswered
<1>5. dfForm' \in Contents
  BY DEF SaveAnswered, FormInv, Blank, Contents
<1>6. dfEntry' \in Entries /\ dfEntry'.data = dfEntry.data
  BY EntryRefreshed DEF SaveAnswered, RefreshRecord, FormInv
<1>7. ASSUME dfPage \in CopyPages
      PROVE  /\ UNCHANGED <<dfForm, dfTouched>>
             /\ IF dfCalls[i].ok THEN \A at \in Nat : Newest(dfEntry', at) ELSE dfEntry' = dfEntry
  <2>1. dfPage # "settings" /\ Refreshes
    BY <1>7 DEF CopyPages, Refreshes
  <2> QED BY <2>1, EntryRefreshed DEF SaveAnswered, RefreshRecord, FormInv
<1>8. dfPage' \in CopyPages =>
          /\ dfTouched' = {} /\ dfEntry'.data # NoData => dfForm' = dfEntry'.data.fields
          /\ \A j \in DOMAIN dfCalls' :
                 dfCalls'[j].state = "done" /\ dfCalls'[j].ok => Newest(dfEntry', dfCalls'[j].at)
  BY <1>2, <1>3, <1>4, <1>6, <1>7 DEF SaveAnswered, FormInv, dfVisit
<1> QED BY <1>3, <1>4, <1>5, <1>6, <1>8 DEF SaveAnswered, FormInv, dfVisit

LEMMA SaveSent ==
    ASSUME FormInv, Save
    PROVE  FormInv'
<1> DEFINE c == [form |-> dfForm, mount |-> dfMount, state |-> "sent", ok |-> FALSE, at |-> 0]
<1>1. dfCalls' = Append(dfCalls, c)
  BY DEF Save
<1>2. c \in Saved /\ c.at = 0 /\ ~c.ok
  BY DEF FormInv, Saved
<1> HIDE DEF c
<1>3. /\ dfCalls' \in Seq(Saved)
      /\ \A j \in DOMAIN dfCalls' : (j \in DOMAIN dfCalls /\ dfCalls'[j] = dfCalls[j]) \/ dfCalls'[j] = c
  BY <1>1, <1>2 DEF FormInv
<1>4. dfRecord.writes \in Nat
  BY DEF FormInv
<1> QED BY <1>2, <1>3, <1>4 DEF FormInv, Save, dfVisit, dfFormVars

\* The form takes the data over when the page is visited, and when an answer
\* brings another object.
LEMMA DetailVisited ==
    ASSUME FormInv, VisitDetail
    PROVE  FormInv'
<1>1. /\ dfEntry' \in Entries /\ dfEntry'.data = dfEntry.data
      /\ \A at \in Nat : Newest(dfEntry, at) => Newest(dfEntry', at)
  BY EntryMoved DEF VisitDetail, FormInv
<1>2. dfForm' \in Contents
  BY DEF VisitDetail, FormInv, Fill, Blank, Contents, Entries, Copy
<1>3. dfPage \in CopyPages /\ dfEntry.data # NoData => dfForm' = dfEntry.data.fields
  BY DEF VisitDetail, CopyPages, FormPages, Fill
<1>4. \A i \in DOMAIN dfCalls : dfCalls[i].at \in Nat
  BY SavesTyped
<1> QED BY <1>1, <1>2, <1>3, <1>4 DEF VisitDetail, FormInv

LEMMA RecordArrived ==
    ASSUME FormInv, RecordArrives
    PROVE  FormInv'
<1>1. /\ dfEntry' \in Entries
      /\ \A at \in Nat : Newest(dfEntry, at) => Newest(dfEntry', at)
  BY EntryArrived DEF RecordArrives, FormInv
<1>2. dfForm' \in Contents
  BY <1>1 DEF RecordArrives, FormInv, Fill, Blank, Contents, Entries, Copy
<1>3. dfPage \in CopyPages /\ dfTouched' = {} /\ dfEntry'.data # NoData => dfForm' = dfEntry'.data.fields
  <2> SUFFICES ASSUME dfPage \in CopyPages, dfTouched' = {}, dfEntry'.data # NoData
               PROVE  dfForm' = dfEntry'.data.fields
    OBVIOUS
  <2>1. Filling
    BY DEF Filling, CopyPages, FormPages
  <2>2. CASE NewObject(dfEntry, dfEntry')
    BY <2>1, <2>2 DEF RecordArrives, Fill
  <2>3. CASE ~NewObject(dfEntry, dfEntry')
    BY <2>1, <2>3 DEF RecordArrives, NewObject, FormInv
  <2> QED BY <2>2, <2>3
<1>4. \A i \in DOMAIN dfCalls : dfCalls[i].at \in Nat
  BY SavesTyped
<1> QED BY <1>1, <1>2, <1>3, <1>4 DEF RecordArrives, FormInv, dfVisit

LEMMA FormStepped ==
    ASSUME FormInv, [DetailNext]_detailVars
    PROVE  FormInv'
<1>1. CASE UNCHANGED detailVars
  BY <1>1 DEF detailVars, dfVisit, dfFormVars, FormInv
<1>2. ASSUME NEW f \in Fields, TypeField(f)
      PROVE  FormInv'
  <2>1. dfForm' \in Contents /\ dfTouched' # {} /\ dfValue' \in Nat
    BY <1>2 DEF TypeField, NewValue, FormInv, Contents
  <2> QED BY <1>2, <2>1 DEF TypeField, FormInv, dfVisit
<1>3. ASSUME NEW f \in Fields, WriteField(f)
      PROVE  FormInv'
  <2>1. /\ dfRecord' \in [fields : Contents, writes : Nat] /\ dfValue' \in Nat
        /\ dfRecord.writes \in Nat /\ dfRecord'.writes = dfRecord.writes + 1
    BY <1>3 DEF WriteField, NewValue, FormInv, Contents
  <2>2. \A i \in DOMAIN dfCalls : dfCalls[i].at <= dfRecord'.writes
    <3> TAKE i \in DOMAIN dfCalls
    <3>1. dfCalls[i].at \in Nat /\ dfCalls[i].at <= dfRecord.writes
      BY SavesTyped
    <3> QED BY <2>1, <3>1
  <2> QED BY <1>3, <2>1, <2>2 DEF WriteField, FormInv, dfVisit, dfFormVars
<1>4. ASSUME NEW i \in DOMAIN dfCalls, ServeSave(i) \/ SaveAnswered(i)
      PROVE  FormInv'
  BY <1>4, SaveServed, SaveTaken
<1>5. CASE Save
  BY <1>5, SaveSent
<1>6. CASE VisitDetail
  BY <1>6, DetailVisited
<1>7. CASE OpenDetailDialog
  <2>1. dfForm' \in Contents /\ dfPage \notin CopyPages
    BY <1>7 DEF OpenDetailDialog, DialogPages, CopyPages, Fill, Shown, FormInv, Blank, Contents, Entries, Copy
  <2> QED BY <1>7, <2>1 DEF OpenDetailDialog, FormInv, dfVisit
<1>8. CASE CloseDetailDialog
  BY <1>8 DEF CloseDetailDialog, FormInv, dfVisit
<1>9. CASE LoadRecord
  <2>1. CASE dfEntry.load = "sent" /\ dfEntry' = Answer(dfEntry, [fields |-> dfRecord.fields, asOf |-> dfRecord.writes])
    <3> DEFINE v == [fields |-> dfRecord.fields, asOf |-> dfRecord.writes]
    <3>1. v \in Copy /\ v.asOf = dfRecord.writes /\ 0 \in Nat /\ 0 <= dfRecord.writes
      BY DEF FormInv, Copy
    <3>2. dfEntry' = Answer(dfEntry, v)
      BY <2>1
    <3> HIDE DEF v
    <3>3. /\ dfEntry' \in Entries /\ dfEntry'.data = dfEntry.data
          /\ \A at \in Nat : at <= dfRecord.writes => Newest(dfEntry', at)
      BY <2>1, <3>1, <3>2, EntryAnswered DEF FormInv
    <3> QED BY <1>9, <3>3, OnlyEntryMoves DEF LoadRecord
  <2>2. CASE dfEntry' = Fail(dfEntry)
    <3>1. /\ dfEntry' \in Entries /\ dfEntry'.data = dfEntry.data
          /\ \A at \in Nat : Newest(dfEntry, at) => Newest(dfEntry', at)
      BY <2>2, EntryMoved DEF FormInv
    <3> QED BY <1>9, <3>1, OnlyEntryMoves DEF LoadRecord
  <2> QED BY <1>9, <2>1, <2>2 DEF LoadRecord
<1>10. CASE RecordArrives
  BY <1>10, RecordArrived
<1>11. CASE Reconnect \/ ExpireRecord
  <2>1. /\ dfEntry' \in Entries /\ dfEntry'.data = dfEntry.data
        /\ \A at \in Nat : Newest(dfEntry, at) => Newest(dfEntry', at)
    BY <1>11, EntryMoved DEF Reconnect, ExpireRecord, FormInv
  <2> QED BY <1>11, <2>1, OnlyEntryMoves DEF Reconnect, ExpireRecord
<1> QED BY <1>1, <1>2, <1>3, <1>4, <1>5, <1>6, <1>7, <1>8, <1>9, <1>10, <1>11
        DEF DetailNext, SaveCustomerDetail, SaveAgentCustomerDetail, SaveScript, SaveProfile, SaveCookies,
            RenewSubscription, SaveAgentPassword

\* For any fields, saves, writes of others and order of answers: a form
\* nobody has touched since shows the record as loaded, and that is no older
\* than any save that succeeded (CustomerDetailPage, AgentCustomerDetailPage,
\* ScriptDetailPage).
THEOREM FormCorrect == DetailSpec => []FormShowsOwnSave
<1>1. FormInv => FormShowsOwnSave
  BY DEF FormInv, FormShowsOwnSave, CopyPages, Newest, Settled
<1> QED BY <1>1, FormInitially, FormStepped, PTL DEF DetailSpec

-----------------------------------------------------------------------------
(* The grid.                                                               *)

\* A share that is rounded down.
LEMMA RoundedDown ==
    ASSUME NEW n \in Nat, NEW w \in Nat \ {0}
    PROVE  /\ n \div w \in Nat
           /\ (n \div w) * w <= n
           /\ n < (n \div w) * w + w
OBVIOUS

Shares == [1 .. 3 -> Nat]

\* One share is larger than another, or equal and before it.
Larger(s, j, i) == s[j] > s[i] \/ (s[j] = s[i] /\ j < i)

LEMMA TurnsInOrder ==
    ASSUME NEW s \in Shares, NEW a \in 1 .. 3, NEW b \in 1 .. 3, NEW c \in 1 .. 3,
           a # b, b # c, a # c, Larger(s, a, b), Larger(s, b, c)
    PROVE  Turn3(s, a) = 0 /\ Turn3(s, b) = 1 /\ Turn3(s, c) = 2
<1>1. DOMAIN s = 1 .. 3 /\ 1 .. 3 = {a, b, c} /\ s[a] \in Nat /\ s[b] \in Nat /\ s[c] \in Nat
  BY DEF Shares
<1>2. {j \in DOMAIN s : s[j] > s[a] \/ (s[j] = s[a] /\ j < a)} = {}
  BY <1>1 DEF Larger
<1>3. {j \in DOMAIN s : s[j] > s[b] \/ (s[j] = s[b] /\ j < b)} = {a}
  BY <1>1 DEF Larger
<1>4. {j \in DOMAIN s : s[j] > s[c] \/ (s[j] = s[c] /\ j < c)} = {a, b}
  BY <1>1 DEF Larger
<1> QED BY <1>2, <1>3, <1>4 DEF Turn3

\* The shares take turns: each of the turns 0, 1 and 2 is that of one share.
LEMMA TurnsDiffer ==
    ASSUME NEW s \in Shares
    PROVE  /\ \A i \in 1 .. 3 : Turn3(s, i) \in {0, 1, 2}
           /\ Turn3(s, 1) # Turn3(s, 2) /\ Turn3(s, 2) # Turn3(s, 3) /\ Turn3(s, 1) # Turn3(s, 3)
<1>1. s[1] \in Nat /\ s[2] \in Nat /\ s[3] \in Nat
  BY DEF Shares
<1>2. /\ 1 \in 1 .. 3 /\ 2 \in 1 .. 3 /\ 3 \in 1 .. 3
      /\ \A i \in 1 .. 3 : i = 1 \/ i = 2 \/ i = 3
  OBVIOUS
<1>3. CASE Larger(s, 1, 2) /\ Larger(s, 2, 3)
  <2>1. Turn3(s, 1) = 0 /\ Turn3(s, 2) = 1 /\ Turn3(s, 3) = 2
    BY <1>2, <1>3, TurnsInOrder
  <2> QED BY <1>2, <2>1
<1>4. CASE Larger(s, 1, 3) /\ Larger(s, 3, 2)
  <2>1. Turn3(s, 1) = 0 /\ Turn3(s, 3) = 1 /\ Turn3(s, 2) = 2
    BY <1>2, <1>4, TurnsInOrder
  <2> QED BY <1>2, <2>1
<1>5. CASE Larger(s, 2, 1) /\ Larger(s, 1, 3)
  <2>1. Turn3(s, 2) = 0 /\ Turn3(s, 1) = 1 /\ Turn3(s, 3) = 2
    BY <1>2, <1>5, TurnsInOrder
  <2> QED BY <1>2, <2>1
<1>6. CASE Larger(s, 2, 3) /\ Larger(s, 3, 1)
  <2>1. Turn3(s, 2) = 0 /\ Turn3(s, 3) = 1 /\ Turn3(s, 1) = 2
    BY <1>2, <1>6, TurnsInOrder
  <2> QED BY <1>2, <2>1
<1>7. CASE Larger(s, 3, 1) /\ Larger(s, 1, 2)
  <2>1. Turn3(s, 3) = 0 /\ Turn3(s, 1) = 1 /\ Turn3(s, 2) = 2
    BY <1>2, <1>7, TurnsInOrder
  <2> QED BY <1>2, <2>1
<1>8. CASE Larger(s, 3, 2) /\ Larger(s, 2, 1)
  <2>1. Turn3(s, 3) = 0 /\ Turn3(s, 2) = 1 /\ Turn3(s, 1) = 2
    BY <1>2, <1>8, TurnsInOrder
  <2> QED BY <1>2, <2>1
<1>9. \/ Larger(s, 1, 2) /\ Larger(s, 2, 3)
      \/ Larger(s, 1, 3) /\ Larger(s, 3, 2)
      \/ Larger(s, 2, 1) /\ Larger(s, 1, 3)
      \/ Larger(s, 2, 3) /\ Larger(s, 3, 1)
      \/ Larger(s, 3, 1) /\ Larger(s, 1, 2)
      \/ Larger(s, 3, 2) /\ Larger(s, 2, 1)
  BY <1>1 DEF Larger
<1> QED BY <1>3, <1>4, <1>5, <1>6, <1>7, <1>8, <1>9

\* What multiplying does to a sum and to an order.
LEMMA Distributed ==
    ASSUME NEW a \in Nat, NEW b \in Nat, NEW c \in Nat, NEW w \in Nat
    PROVE  /\ a * w + b * w + c * w = (a + b + c) * w
           /\ a * w + w + b * w + w + c * w + w = (a + b + c + 3) * w
OBVIOUS

LEMMA Cancelled ==
    ASSUME NEW a \in Nat, NEW b \in Nat, NEW w \in Nat \ {0}
    PROVE  /\ a * w <= b * w => a <= b
           /\ a * w < b * w => a < b
OBVIOUS

\* Three shares that make up the whole fill the grid.
LEMMA GridFilled ==
    ASSUME NEW s \in Shares, NEW whole \in Nat \ {0}, s[1] + s[2] + s[3] = whole
    PROVE  LET cells == HeatGrid(s, whole)
           IN  /\ Total3(cells) = CellCount
               /\ \A i \in 1 .. 3 : /\ cells[i] * whole <= s[i] * CellCount + whole
                                    /\ cells[i] * whole + whole > s[i] * CellCount
<1> DEFINE q(i) == (s[i] * CellCount) \div whole
           cells == WholeCells(s, whole)
           left == Minus(CellCount, Total3(cells))
<1>1. CellCount \in Nat
  BY DEF CellCount
<1>2. s[1] \in Nat /\ s[2] \in Nat /\ s[3] \in Nat /\ DOMAIN s = 1 .. 3
  BY DEF Shares
<1>3. \A i \in 1 .. 3 : /\ q(i) \in Nat /\ q(i) * whole <= s[i] * CellCount
                         /\ s[i] * CellCount < q(i) * whole + whole
  <2> TAKE i \in 1 .. 3
  <2>1. s[i] * CellCount \in Nat
    BY <1>1, <1>2
  <2> QED BY <2>1, RoundedDown
<1>4. /\ DOMAIN cells = 1 .. 3 /\ \A i \in 1 .. 3 : cells[i] = q(i)
      /\ Total3(cells) = q(1) + q(2) + q(3)
  BY <1>2 DEF WholeCells, Total3
<1> HIDE DEF q, cells
<1>5. left \in {0, 1, 2} /\ q(1) + q(2) + q(3) + left = CellCount
  <2> DEFINE t == q(1) + q(2) + q(3)
  <2>1. t \in Nat /\ q(1) \in Nat /\ q(2) \in Nat /\ q(3) \in Nat
    BY <1>3
  <2>2. /\ s[1] * CellCount + s[2] * CellCount + s[3] * CellCount = CellCount * whole
        /\ q(1) * whole + q(2) * whole + q(3) * whole = t * whole
        /\ q(1) * whole + whole + q(2) * whole + whole + q(3) * whole + whole = (t + 3) * whole
    <3>1. s[1] * CellCount + s[2] * CellCount + s[3] * CellCount = (s[1] + s[2] + s[3]) * CellCount
      BY <1>1, <1>2, Distributed
    <3>2. q(1) * whole + q(2) * whole + q(3) * whole = (q(1) + q(2) + q(3)) * whole
      BY <2>1, Distributed
    <3>3. q(1) * whole + whole + q(2) * whole + whole + q(3) * whole + whole = (q(1) + q(2) + q(3) + 3) * whole
      BY <2>1, Distributed
    <3>4. whole * CellCount = CellCount * whole
      BY <1>1
    <3> QED BY <3>1, <3>2, <3>3, <3>4
  <2>3. /\ s[1] * CellCount \in Nat /\ s[2] * CellCount \in Nat /\ s[3] * CellCount \in Nat
        /\ q(1) * whole \in Nat /\ q(2) * whole \in Nat /\ q(3) * whole \in Nat
    BY <1>1, <1>2, <2>1
  <2>4. t * whole <= CellCount * whole /\ CellCount * whole < (t + 3) * whole
    BY <1>3, <2>2, <2>3
  <2> HIDE DEF t
  <2>5. t <= CellCount /\ CellCount < t + 3
    BY <1>1, <2>1, <2>4, Cancelled
  <2>6. left = CellCount - t
    BY <1>1, <1>4, <2>1, <2>5 DEF Minus, t
  <2> HIDE DEF left
  <2>7. left \in {0, 1, 2} /\ t + left = CellCount
    BY <1>1, <2>1, <2>5, <2>6
  <2> QED BY <2>7 DEF t
<1> HIDE DEF left
<1>6. \A i \in 1 .. 3 : HeatGrid(s, whole)[i] = q(i) + IF left > Turn3(s, i) THEN 1 ELSE 0
  <2>1. left \div 3 = 0 /\ left % 3 = left
    BY <1>5
  <2>2. \A i \in 1 .. 3 : HeatGrid(s, whole)[i] = cells[i] + left \div 3 + IF left % 3 > Turn3(s, i) THEN 1 ELSE 0
    BY <1>2 DEF HeatGrid, cells, left
  <2> QED BY <1>3, <1>4, <2>1, <2>2
<1>7. Total3(HeatGrid(s, whole)) = CellCount
  <2> DEFINE one(i) == IF left > Turn3(s, i) THEN 1 ELSE 0
  <2>1. one(1) + one(2) + one(3) = left
    BY <1>5, TurnsDiffer
  <2>2. one(1) \in Nat /\ one(2) \in Nat /\ one(3) \in Nat /\ q(1) \in Nat /\ q(2) \in Nat /\ q(3) \in Nat
    BY <1>3
  <2>3. /\ HeatGrid(s, whole)[1] = q(1) + one(1)
        /\ HeatGrid(s, whole)[2] = q(2) + one(2)
        /\ HeatGrid(s, whole)[3] = q(3) + one(3)
    BY <1>6
  <2> HIDE DEF one
  <2> QED BY <1>1, <1>5, <2>1, <2>2, <2>3 DEF Total3
<1>8. \A i \in 1 .. 3 : /\ HeatGrid(s, whole)[i] * whole <= s[i] * CellCount + whole
                         /\ HeatGrid(s, whole)[i] * whole + whole > s[i] * CellCount
  <2> TAKE i \in 1 .. 3
  <2>1. HeatGrid(s, whole)[i] = q(i) \/ HeatGrid(s, whole)[i] = q(i) + 1
    BY <1>3, <1>6
  <2>2. q(i) \in Nat /\ q(i) * whole \in Nat /\ s[i] * CellCount \in Nat /\ (q(i) + 1) * whole = q(i) * whole + whole
    BY <1>1, <1>2, <1>3
  <2> QED BY <1>3, <2>1, <2>2
<1> QED BY <1>7, <1>8

\* While no more are subscribed or waiting than there are customers, the
\* three segments make up the customers.
LEMMA SegmentsAddUp ==
    ASSUME NEW d \in Counts, d.customers > 0, d.active + d.pending <= d.customers
    PROVE  /\ Segments(d) \in Shares /\ Whole(d) \in Nat \ {0} /\ Whole(d) = d.customers
           /\ Segments(d)[1] + Segments(d)[2] + Segments(d)[3] = Whole(d)
<1>1. d.customers \in Nat /\ d.active \in Nat /\ d.pending \in Nat
  BY DashboardAssumption DEF Counts
<1>2. Uncovered(d) \in Nat /\ d.active + d.pending + Uncovered(d) = d.customers
  <2>1. CASE dbPage = "admin"
    BY <1>1, <2>1 DEF Uncovered, AdminUncovered, AdminCovered, Least, Minus
  <2>2. CASE dbPage # "admin"
    BY <1>1, <2>2 DEF Uncovered, AgentUncovered, Minus
  <2> QED BY <2>1, <2>2
<1> QED BY <1>1, <1>2 DEF Segments, Shares, Whole

\* What the page has are counts the server sent.
Figures == [data : Counts \cup {NoData}, fresh : BOOLEAN, failed : BOOLEAN,
            load : {"idle", "sent", "answered"}, answer : Counts \cup {NoData}, overtaken : BOOLEAN]
FiguresAreCounts == dbCounts \in Counts /\ dbEntry \in Figures

LEMMA FiguresInitially == DashboardInit => FiguresAreCounts
BY DEF DashboardInit, FiguresAreCounts, Figures, Observe, EmptyEntry, Loading, Reload

LEMMA FiguresStepped ==
    ASSUME FiguresAreCounts, [DashboardNext]_dashboardVars
    PROVE  FiguresAreCounts'
<1>1. CASE UNCHANGED dashboardVars
  BY <1>1 DEF dashboardVars, FiguresAreCounts
<1>2. CASE RefreshFigures
  BY <1>2 DEF RefreshFigures, FiguresAreCounts, Figures, Reload
<1>3. CASE LoadFigures
  BY <1>3 DEF LoadFigures, FiguresAreCounts, Figures, Answer, Arrive, Fail
<1>4. ASSUME NEW d \in Counts, ChangeCounts(d)
      PROVE  FiguresAreCounts'
  BY <1>4 DEF ChangeCounts, FiguresAreCounts
<1> QED BY <1>1, <1>2, <1>3, <1>4 DEF DashboardNext

\* For any counts up to any bound: the grid of a dashboard has exactly its
\* cells, and every segment its share of them (HeatGrid, WaffleChart).
THEOREM GridCorrect == DashboardSpec => []GridAddsUp
<1>1. FiguresAreCounts => GridAddsUp
  <2> SUFFICES ASSUME FiguresAreCounts, FiguresShown,
                      dbEntry.data.customers > 0,
                      dbEntry.data.active + dbEntry.data.pending <= dbEntry.data.customers
               PROVE  LET d == dbEntry.data
                          s == Segments(d)
                          cells == CustomerGrid(d)
                      IN  /\ Total3(cells) = CellCount
                          /\ \A i \in DOMAIN s : /\ cells[i] * d.customers <= s[i] * CellCount + d.customers
                                                 /\ cells[i] * d.customers + d.customers > s[i] * CellCount
    BY DEF GridAddsUp
  <2>1. dbEntry.data \in Counts
    BY DEF FiguresAreCounts, Figures, FiguresShown, DetailView, FirstLoad
  <2>2. /\ Segments(dbEntry.data) \in Shares /\ Whole(dbEntry.data) \in Nat \ {0}
        /\ Whole(dbEntry.data) = dbEntry.data.customers
        /\ Segments(dbEntry.data)[1] + Segments(dbEntry.data)[2] + Segments(dbEntry.data)[3] = Whole(dbEntry.data)
    BY <2>1, SegmentsAddUp
  <2>3. CustomerGrid(dbEntry.data) = HeatGrid(Segments(dbEntry.data), Whole(dbEntry.data))
    BY DEF CustomerGrid, WaffleCells
  <2>4. DOMAIN Segments(dbEntry.data) = 1 .. 3
    BY <2>2 DEF Shares
  <2> QED BY <2>2, <2>3, <2>4, GridFilled
<1> QED BY <1>1, FiguresInitially, FiguresStepped, PTL DEF DashboardSpec

-----------------------------------------------------------------------------
(* Payment proofs.  What the cleanup has still to remove was old by its    *)
(* clock, and stays old.  A request that is to keep its proof either came  *)
(* before the run read the references, and its file is out of view, or it  *)
(* refers to a file that is young as long as the run has not looked at the *)
(* clock.  So no such request refers to a file still to be removed.        *)

States == {"none", "young", "old", "gone"}
Proof == Uploads \cup {0}
Request == [proof : Proof, kept : BOOLEAN, status : {"pending", "cancelled", "approved"}]
Call == [kind : {"upload", "submit", "cancel"}, about : Nat \cup Uploads, mount : Nat,
         page : Nat \cup Uploads, state : {"sent", "answered", "done"}, ok : BOOLEAN]

FilesInv == /\ agFiles \in [Uploads -> States]
            /\ agCleanup.files \subseteq Uploads
            /\ agCleanup.pc = "removing" => \A u \in agCleanup.files : agFiles[u] \in {"old", "gone"}

\* A request that is to keep its proof refers to a file that is there and stays.
Safe(u) == /\ u \in Uploads /\ agFiles[u] \in {"young", "old"}
           /\ agCleanup.pc = "referenced" /\ u \in agCleanup.files => agFiles[u] = "young"
           /\ agCleanup.pc = "removing" => u \notin agCleanup.files
RequestsInv == /\ agRequests \in Seq(Request)
               /\ \A r \in DOMAIN agRequests : agRequests[r].kept => Safe(agRequests[r].proof)

PageInv == /\ agShown \in Nat \cup Uploads /\ agMount \in Nat
           /\ agForm \in [filled : BOOLEAN, proof : Proof]

\* A submission names an uploaded file, and so does an upload that succeeded.
CallsInv == /\ agCalls \in Seq(Call)
            /\ \A i \in DOMAIN agCalls :
                   /\ agCalls[i].kind = "submit" /\ agCalls[i].state = "sent" => agCalls[i].about \in Uploads
                   /\ agCalls[i].kind = "upload" /\ agCalls[i].ok => agCalls[i].about \in Uploads

AgentInv == FilesInv /\ RequestsInv /\ PageInv /\ CallsInv

LEMMA AgentInitially == AgentInit => AgentInv
BY DEF AgentInit, AgentInv, FilesInv, RequestsInv, PageInv, CallsInv, EmptyForm, NoCleanup, States, Proof

-----------------------------------------------------------------------------
(* Calls and requests are added and changed one at a time.                 *)

LEMMA EntryAdded ==
    ASSUME NEW S, NEW s \in Seq(S), NEW c \in S
    PROVE  /\ Append(s, c) \in Seq(S)
           /\ \A i \in DOMAIN Append(s, c) : (i \in DOMAIN s /\ Append(s, c)[i] = s[i]) \/ Append(s, c)[i] = c
OBVIOUS

LEMMA EntryChanged ==
    ASSUME NEW S, NEW s \in Seq(S), NEW i \in DOMAIN s, NEW c \in S
    PROVE  /\ [s EXCEPT ![i] = c] \in Seq(S)
           /\ \A j \in DOMAIN [s EXCEPT ![i] = c] :
                  j \in DOMAIN s /\ [s EXCEPT ![i] = c][j] = IF j = i THEN c ELSE s[j]
OBVIOUS

\* A call is sent; a submission with the proof of the form.
LEMMA CallSent ==
    ASSUME AgentInv, NEW kind \in {"upload", "submit", "cancel"}, NEW about \in Nat \cup Uploads,
           kind = "submit" => about \in Uploads, SendCall(kind, about)
    PROVE  CallsInv'
<1> DEFINE c == [kind |-> kind, about |-> about, mount |-> agMount, page |-> agShown, state |-> "sent", ok |-> FALSE]
<1>1. c \in Call
  BY DEF Call, AgentInv, PageInv
<1>2. /\ c.kind = "submit" => c.about \in Uploads
      /\ ~c.ok
  OBVIOUS
<1>3. agCalls' = Append(agCalls, c)
  BY DEF SendCall
<1> HIDE DEF c
<1>4. /\ agCalls' \in Seq(Call)
      /\ \A i \in DOMAIN agCalls' : (i \in DOMAIN agCalls /\ agCalls'[i] = agCalls[i]) \/ agCalls'[i] = c
  BY <1>1, <1>3, EntryAdded DEF AgentInv, CallsInv
<1> QED BY <1>2, <1>4 DEF AgentInv, CallsInv

\* A call is answered, by the server or for the tab: it is not sent any more.
LEMMA CallMoved ==
    ASSUME AgentInv, NEW i \in DOMAIN agCalls, NEW c \in Call, agCalls' = [agCalls EXCEPT ![i] = c],
           c.kind = agCalls[i].kind, c.state # "sent",
           c.kind = "upload" /\ c.ok => c.about \in Uploads
    PROVE  CallsInv'
<1>1. /\ agCalls' \in Seq(Call)
      /\ \A j \in DOMAIN agCalls' : j \in DOMAIN agCalls /\ agCalls'[j] = IF j = i THEN c ELSE agCalls[j]
  BY EntryChanged DEF AgentInv, CallsInv
<1> QED BY <1>1 DEF AgentInv, CallsInv

LEMMA CallOfType ==
    ASSUME AgentInv, NEW i \in DOMAIN agCalls
    PROVE  agCalls[i] \in Call
BY DEF AgentInv, CallsInv

LEMMA ServerAnswers ==
    ASSUME AgentInv, NEW i \in DOMAIN agCalls, NEW about \in Nat \cup Uploads, NEW done \in BOOLEAN,
           agCalls[i].kind = "upload" /\ done => about \in Uploads, Answered(i, about, done)
    PROVE  CallsInv'
<1>1. PICK arrives \in BOOLEAN :
        agCalls' = [agCalls EXCEPT ![i].state = "answered", ![i].about = about, ![i].ok = arrives /\ done]
  BY DEF Answered
<1> DEFINE ok == arrives /\ done
           c == [agCalls[i] EXCEPT !.state = "answered", !.about = about, !.ok = ok]
<1>2. agCalls' = [agCalls EXCEPT ![i] = c]
  BY <1>1
<1>3. ok \in BOOLEAN /\ (ok => done)
  OBVIOUS
<1> HIDE DEF ok
<1>4. c \in Call /\ c.kind = agCalls[i].kind /\ c.state # "sent" /\ c.ok = ok /\ c.about = about
  BY <1>3, CallOfType DEF Call
<1> HIDE DEF c
<1> QED BY <1>2, <1>3, <1>4, CallMoved

LEMMA TabAnswered ==
    ASSUME AgentInv, NEW i \in DOMAIN agCalls, agCalls' = [agCalls EXCEPT ![i].state = "done"]
    PROVE  CallsInv'
<1> DEFINE c == [agCalls[i] EXCEPT !.state = "done"]
<1>1. agCalls' = [agCalls EXCEPT ![i] = c]
  OBVIOUS
<1>2. /\ c \in Call /\ c.kind = agCalls[i].kind /\ c.state # "sent"
      /\ c.about = agCalls[i].about /\ c.ok = agCalls[i].ok
  BY CallOfType DEF Call
<1> HIDE DEF c
<1>3. c.kind = "upload" /\ c.ok => c.about \in Uploads
  BY <1>2 DEF AgentInv, CallsInv
<1> QED BY <1>1, <1>2, <1>3, CallMoved

\* A page that comes to show another request takes its calls along: nothing
\* of them changes but that request.
LEMMA CallsFollowing ==
    ASSUME AgentInv, NEW r \in Nat \cup Uploads
    PROVE  /\ CallsFollow(r) \in Seq(Call) /\ DOMAIN CallsFollow(r) = DOMAIN agCalls
           /\ \A j \in DOMAIN agCalls :
                  /\ CallsFollow(r)[j].kind = agCalls[j].kind /\ CallsFollow(r)[j].about = agCalls[j].about
                  /\ CallsFollow(r)[j].state = agCalls[j].state /\ CallsFollow(r)[j].ok = agCalls[j].ok
                  /\ agCalls[j].state = "done" => CallsFollow(r)[j] = agCalls[j]
<1>1. agCalls \in Seq(Call)
  BY DEF AgentInv, CallsInv
<1>2. \A j \in DOMAIN agCalls : /\ [agCalls[j] EXCEPT !.page = r] \in Call
                                /\ [agCalls[j] EXCEPT !.page = r].kind = agCalls[j].kind
                                /\ [agCalls[j] EXCEPT !.page = r].about = agCalls[j].about
                                /\ [agCalls[j] EXCEPT !.page = r].state = agCalls[j].state
                                /\ [agCalls[j] EXCEPT !.page = r].ok = agCalls[j].ok
  BY CallOfType DEF Call
<1>3. DOMAIN agCalls = 1 .. Len(agCalls) /\ Len(agCalls) \in Nat
  BY <1>1
<1>4. \A j \in DOMAIN agCalls : CallsFollow(r)[j] \in {[agCalls[j] EXCEPT !.page = r], agCalls[j]}
  BY DEF CallsFollow
<1>5. \A j \in DOMAIN agCalls : agCalls[j].state = "done" => CallsFollow(r)[j] = agCalls[j]
  BY DEF CallsFollow
<1>6. CallsFollow(r) \in [1 .. Len(agCalls) -> Call]
  <2>1. CallsFollow(r) = [j \in 1 .. Len(agCalls) |-> CallsFollow(r)[j]]
    BY <1>3 DEF CallsFollow
  <2>2. \A j \in 1 .. Len(agCalls) : CallsFollow(r)[j] \in Call
    BY <1>2, <1>3, <1>4, CallOfType
  <2> QED BY <2>1, <2>2
<1>7. CallsFollow(r) \in Seq(Call) /\ DOMAIN CallsFollow(r) = DOMAIN agCalls
  BY <1>3, <1>6
<1> QED BY <1>2, <1>4, <1>5, <1>7

\* A submission is answered: it is done, and the calls of the page follow it.
LEMMA SubmissionAnswered ==
    ASSUME AgentInv, NEW i \in DOMAIN agCalls, SubmitAnswered(i)
    PROVE  /\ agCalls' \in Seq(Call) /\ DOMAIN agCalls' = DOMAIN agCalls
           /\ \A j \in DOMAIN agCalls :
                  /\ agCalls'[j].kind = agCalls[j].kind /\ agCalls'[j].about = agCalls[j].about
                  /\ agCalls'[j].ok = agCalls[j].ok
                  /\ agCalls[j].state = "done" => agCalls'[j].page = agCalls[j].page
                  /\ agCalls'[j].state = IF j = i THEN "done" ELSE agCalls[j].state
<1>1. agCalls[i].state = "answered" /\ agCalls[i].about \in Nat \cup Uploads
  BY CallOfType DEF SubmitAnswered, Call
<1>2. PICK calls \in {agCalls, CallsFollow(agCalls[i].about)} : agCalls' = [calls EXCEPT ![i].state = "done"]
  BY DEF SubmitAnswered
<1>3. /\ calls \in Seq(Call) /\ DOMAIN calls = DOMAIN agCalls
      /\ \A j \in DOMAIN agCalls :
             /\ calls[j].kind = agCalls[j].kind /\ calls[j].about = agCalls[j].about
             /\ calls[j].state = agCalls[j].state /\ calls[j].ok = agCalls[j].ok
             /\ agCalls[j].state = "done" => calls[j] = agCalls[j]
  BY <1>1, <1>2, CallsFollowing DEF AgentInv, CallsInv
<1> DEFINE c == [calls[i] EXCEPT !.state = "done"]
<1>4. calls[i] \in Call
  BY <1>3
<1>5. /\ c \in Call /\ c.kind = calls[i].kind /\ c.about = calls[i].about /\ c.ok = calls[i].ok
      /\ c.state = "done"
  BY <1>4 DEF Call
<1>6. agCalls' = [calls EXCEPT ![i] = c]
  BY <1>2
<1> HIDE DEF c
<1>7. /\ agCalls' \in Seq(Call)
      /\ \A j \in DOMAIN agCalls' : j \in DOMAIN calls /\ agCalls'[j] = IF j = i THEN c ELSE calls[j]
  BY <1>3, <1>5, <1>6, EntryChanged
<1>8. DOMAIN agCalls' = DOMAIN agCalls
  BY <1>3, <1>6
<1> QED BY <1>1, <1>3, <1>5, <1>7, <1>8

\* A request changes its status only.
LEMMA StatusSet ==
    ASSUME AgentInv, NEW r, NEW status \in {"cancelled", "approved"}, SetStatus(r, status),
           UNCHANGED <<agFiles, agCleanup>>
    PROVE  RequestsInv'
<1>1. CASE r \notin DOMAIN agRequests
  <2>1. agRequests' = agRequests
    BY <1>1 DEF SetStatus, AgentInv, RequestsInv
  <2> QED BY <2>1 DEF AgentInv, RequestsInv, Safe
<1>2. CASE r \in DOMAIN agRequests
  <2> DEFINE q == [agRequests[r] EXCEPT !.status = status]
  <2>1. agRequests[r] \in Request
    BY <1>2 DEF AgentInv, RequestsInv
  <2>2. q \in Request /\ q.proof = agRequests[r].proof /\ q.kept = agRequests[r].kept
    BY <2>1 DEF Request
  <2>3. agRequests' = [agRequests EXCEPT ![r] = q]
    BY DEF SetStatus
  <2> HIDE DEF q
  <2>4. /\ agRequests' \in Seq(Request)
        /\ \A j \in DOMAIN agRequests' :
               j \in DOMAIN agRequests /\ agRequests'[j] = IF j = r THEN q ELSE agRequests[j]
    BY <1>2, <2>2, <2>3, EntryChanged DEF AgentInv, RequestsInv
  <2> QED BY <2>2, <2>4 DEF AgentInv, RequestsInv, Safe
<1> QED BY <1>1, <1>2

-----------------------------------------------------------------------------
(* Steps of the page, of the server and of the cleanup.                    *)

\* What the server holds stays.
LEMMA ServerLeft ==
    ASSUME AgentInv, UNCHANGED agServer
    PROVE  FilesInv' /\ RequestsInv'
BY DEF AgentInv, FilesInv, RequestsInv, Safe, agServer

LEMMA CallsLeft ==
    ASSUME AgentInv, UNCHANGED agCalls
    PROVE  CallsInv'
BY DEF AgentInv, CallsInv

LEMMA PageLeft ==
    ASSUME AgentInv, UNCHANGED agPage
    PROVE  PageInv'
BY DEF AgentInv, PageInv, agPage

LEMMA Gone ==
    ASSUME AgentInv, NEW route, NEW shown \in Nat \cup Uploads, GoTo(route, shown)
    PROVE  PageInv'
BY DEF AgentInv, PageInv, GoTo, EmptyForm, Proof

LEMMA FormOpened ==
    ASSUME AgentInv, NEW carried \in BOOLEAN, OpenForm(carried)
    PROVE  AgentInv'
<1>1. PageInv'
  <2>1. 0 \in Nat \cup Uploads /\ [EmptyForm EXCEPT !.filled = carried] \in [filled : BOOLEAN, proof : Proof]
    BY DEF EmptyForm, Proof
  <2> QED BY <2>1 DEF OpenForm, AgentInv, PageInv
<1> QED BY <1>1, ServerLeft, CallsLeft DEF OpenForm, AgentInv

LEMMA FormSet ==
    ASSUME AgentInv, NEW form \in [filled : BOOLEAN, proof : Proof], SetForm(form)
    PROVE  AgentInv'
<1>1. PageInv'
  BY DEF SetForm, AgentInv, PageInv
<1> QED BY <1>1, ServerLeft, CallsLeft DEF SetForm, AgentInv

LEMMA CancelSet ==
    ASSUME AgentInv, NEW open, SetCancel(open)
    PROVE  AgentInv'
<1>1. PageInv'
  BY DEF SetCancel, AgentInv, PageInv
<1> QED BY <1>1, ServerLeft, CallsLeft DEF SetCancel, AgentInv

\* An upload takes a name nothing is stored under.
LEMMA UploadStored ==
    ASSUME AgentInv, NEW i \in DOMAIN agCalls, StoreUpload(i)
    PROVE  AgentInv'
<1>1. CASE UNCHANGED agFiles /\ Answered(i, 0, FALSE)
  <2>1. CallsInv'
    BY <1>1, ServerAnswers
  <2> QED BY <1>1, <2>1, ServerLeft, PageLeft DEF StoreUpload, AgentInv, agServer
<1>2. ASSUME NEW u \in Uploads, agFiles[u] = "none", agFiles' = [agFiles EXCEPT ![u] = "young"],
             Answered(i, u, TRUE)
      PROVE  AgentInv'
  <2>1. CallsInv'
    BY <1>2, ServerAnswers
  <2>2. agFiles' \in [Uploads -> States] /\ \A v \in Uploads : v # u => agFiles'[v] = agFiles[v]
    BY <1>2 DEF AgentInv, FilesInv, States
  <2>3. FilesInv'
    BY <1>2, <2>2 DEF StoreUpload, AgentInv, FilesInv
  <2>4. \A v : Safe(v) => Safe(v)'
    BY <1>2, <2>2 DEF StoreUpload, Safe
  <2>5. RequestsInv'
    BY <2>4 DEF StoreUpload, AgentInv, RequestsInv
  <2> QED BY <2>1, <2>3, <2>5, PageLeft DEF StoreUpload, AgentInv
<1> QED BY <1>1, <1>2 DEF StoreUpload

\* A request that is to keep its proof: the file is young, so it is not one
\* to be removed, or no run has read the references.
LEMMA RequestMade ==
    ASSUME AgentInv, NEW i \in DOMAIN agCalls, SubmitRequest(i)
    PROVE  AgentInv'
<1>1. CASE UNCHANGED agRequests /\ Answered(i, 0, FALSE)
  <2>1. CallsInv'
    BY <1>1, ServerAnswers
  <2> QED BY <1>1, <2>1, ServerLeft, PageLeft DEF SubmitRequest, AgentInv, agServer
<1>2. ASSUME agRequests' = Append(agRequests, [proof |-> agCalls[i].about, kept |-> Kept(agCalls[i].about),
                                               status |-> "pending"]),
             Answered(i, Len(agRequests'), TRUE)
      PROVE  AgentInv'
  <2> DEFINE kept == Kept(agCalls[i].about)
             q == [proof |-> agCalls[i].about, kept |-> kept, status |-> "pending"]
  <2>1. agCalls[i].about \in Uploads /\ agCalls[i].kind # "upload"
    BY DEF SubmitRequest, AgentInv, CallsInv
  <2>2. kept \in BOOLEAN /\ (kept => Safe(agCalls[i].about))
    BY <2>1 DEF Kept, Safe, AgentInv, FilesInv
  <2> HIDE DEF kept
  <2>3. q \in Request /\ q.proof = agCalls[i].about /\ q.kept = kept
    BY <2>1, <2>2 DEF Request, Proof
  <2>4. agRequests' = Append(agRequests, q)
    BY <1>2 DEF kept
  <2> HIDE DEF q
  <2>5. /\ agRequests' \in Seq(Request)
        /\ \A j \in DOMAIN agRequests' :
               (j \in DOMAIN agRequests /\ agRequests'[j] = agRequests[j]) \/ agRequests'[j] = q
    BY <2>3, <2>4, EntryAdded DEF AgentInv, RequestsInv
  <2>6. /\ q.kept => Safe(q.proof)
        /\ \A v : Safe(v)' = Safe(v)
    BY <2>2, <2>3 DEF SubmitRequest, Safe
  <2>7. RequestsInv'
    BY <2>5, <2>6 DEF AgentInv, RequestsInv
  <2>8. CallsInv'
    <3>1. Len(agRequests') \in Nat
      BY <2>5
    <3> QED BY <1>2, <2>1, <3>1, ServerAnswers
  <2> QED BY <2>7, <2>8, PageLeft DEF SubmitRequest, AgentInv, FilesInv
<1> QED BY <1>1, <1>2 DEF SubmitRequest

LEMMA RequestCancelled ==
    ASSUME AgentInv, NEW i \in DOMAIN agCalls, CancelRequest(i)
    PROVE  AgentInv'
<1> DEFINE done == agRequests[agCalls[i].about].status = "pending"
<1>1. PICK arrives \in BOOLEAN :
        agCalls' = [agCalls EXCEPT ![i].state = "answered", ![i].ok = arrives /\ done]
  BY DEF CancelRequest
<1>2. IF done THEN SetStatus(agCalls[i].about, "cancelled") ELSE UNCHANGED agRequests
  BY DEF CancelRequest
<1>3. CallsInv'
  <2> DEFINE ok == arrives /\ done
             c == [agCalls[i] EXCEPT !.state = "answered", !.ok = ok]
  <2>1. agCalls' = [agCalls EXCEPT ![i] = c]
    BY <1>1
  <2>2. ok \in BOOLEAN
    OBVIOUS
  <2> HIDE DEF ok
  <2>3. c \in Call /\ c.kind = agCalls[i].kind /\ c.kind # "upload" /\ c.state # "sent"
    BY <2>2, CallOfType DEF Call, CancelRequest
  <2> HIDE DEF c
  <2> QED BY <2>1, <2>3, CallMoved
<1> HIDE DEF done
<1>4. RequestsInv'
  <2>1. CASE done
    BY <1>2, <2>1, StatusSet DEF CancelRequest
  <2>2. CASE ~done
    BY <1>2, <2>2 DEF CancelRequest, AgentInv, RequestsInv, Safe
  <2> QED BY <2>1, <2>2
<1> QED BY <1>3, <1>4, PageLeft DEF CancelRequest, AgentInv, FilesInv

\* A file turns old: a request for it that the run has missed is not to keep
\* its proof any more; the others are, and their files stay.
LEMMA RequestsAged ==
    ASSUME AgentInv, NEW u \in Uploads, Age(u)
    PROVE  /\ agRequests' \in Seq(Request) /\ DOMAIN agRequests' = DOMAIN agRequests
           /\ \A r \in DOMAIN agRequests :
                  /\ agRequests'[r].proof = agRequests[r].proof /\ agRequests'[r].status = agRequests[r].status
                  /\ agRequests'[r].kept =>
                        /\ agRequests[r].kept
                        /\ ~(/\ agCleanup.pc = "referenced" /\ u \in agCleanup.files
                             /\ agRequests[r].proof = u)
<1> DEFINE missed(r) == agCleanup.pc = "referenced" /\ u \in agCleanup.files /\ agRequests[r].proof = u
           kept(r) == agRequests[r].kept /\ ~missed(r)
           q(r) == [agRequests[r] EXCEPT !.kept = kept(r)]
<1>1. /\ agRequests \in Seq(Request) /\ DOMAIN agRequests = 1 .. Len(agRequests) /\ Len(agRequests) \in Nat
      /\ \A r \in DOMAIN agRequests : agRequests[r] \in Request
  BY DEF AgentInv, RequestsInv
<1>2. agRequests' = [r \in DOMAIN agRequests |-> q(r)]
  BY DEF Age
<1>3. \A r : kept(r) \in BOOLEAN /\ (kept(r) => agRequests[r].kept /\ ~missed(r))
  OBVIOUS
<1> HIDE DEF kept
<1>4. \A r \in DOMAIN agRequests :
          /\ q(r) \in Request /\ q(r).proof = agRequests[r].proof /\ q(r).status = agRequests[r].status
          /\ q(r).kept = kept(r)
  BY <1>1, <1>3 DEF Request
<1> HIDE DEF q
<1>5. agRequests' \in [1 .. Len(agRequests) -> Request]
  BY <1>1, <1>2, <1>4
<1>6. agRequests' \in Seq(Request) /\ DOMAIN agRequests' = DOMAIN agRequests
  BY <1>1, <1>5
<1>7. \A r \in DOMAIN agRequests : agRequests'[r] = q(r)
  BY <1>2
<1> QED BY <1>3, <1>4, <1>6, <1>7

LEMMA FileAged ==
    ASSUME AgentInv, NEW u \in Uploads, Age(u)
    PROVE  AgentInv'
<1>1. agFiles' \in [Uploads -> States] /\ \A v \in Uploads : agFiles'[v] = IF v = u THEN "old" ELSE agFiles[v]
  BY DEF Age, AgentInv, FilesInv, States
<1>2. FilesInv'
  BY <1>1 DEF Age, AgentInv, FilesInv
<1>3. \A v : Safe(v) /\ ~(agCleanup.pc = "referenced" /\ u \in agCleanup.files /\ v = u) => Safe(v)'
  BY <1>1 DEF Age, Safe
<1>4. RequestsInv'
  BY <1>3, RequestsAged DEF AgentInv, RequestsInv
<1> QED BY <1>2, <1>4, CallsLeft, PageLeft DEF Age, AgentInv

\* The run reads the directory, the references and the clock: it loses view
\* of what a request refers to, and then of what is young.
LEMMA CleanupMoved ==
    ASSUME AgentInv, ReadDirectory \/ PluckReferences \/ ReadClock \/ CleanupStops
    PROVE  AgentInv'
<1>1. UNCHANGED <<agFiles, agRequests, agPage, agCalls>>
  BY DEF ReadDirectory, PluckReferences, ReadClock, CleanupStops, CleanupStep
<1>2. PICK files \in SUBSET Uploads :
        \/ agCleanup' = NoCleanup
        \/ agCleanup' = [pc |-> "listed", files |-> files]
        \/ agCleanup' = [pc |-> "referenced", files |-> files] /\ files \cap Referenced = {}
        \/ /\ agCleanup' = [pc |-> "removing", files |-> files] /\ agCleanup.pc = "referenced"
           /\ files = Overdue(agCleanup.files)
  <2>1. CASE ReadDirectory
    BY <2>1 DEF ReadDirectory, CleanupStep, Stored
  <2>2. CASE PluckReferences
    <3>1. agCleanup.files \ Referenced \in SUBSET Uploads
      BY DEF AgentInv, FilesInv
    <3> QED BY <2>2, <3>1 DEF PluckReferences, CleanupStep
  <2>3. CASE ReadClock
    <3>1. Overdue(agCleanup.files) \in SUBSET Uploads
      BY DEF Overdue, AgentInv, FilesInv
    <3> QED BY <2>3, <3>1 DEF ReadClock, CleanupStep
  <2>4. CASE CleanupStops
    BY <2>4 DEF CleanupStops
  <2> QED BY <2>1, <2>2, <2>3, <2>4
<1>3. FilesInv'
  BY <1>1, <1>2 DEF AgentInv, FilesInv, NoCleanup, Overdue
<1>4. ASSUME NEW r \in DOMAIN agRequests, Safe(agRequests[r].proof)
      PROVE  Safe(agRequests[r].proof)'
  <2>1. agRequests[r].proof \in Referenced
    BY DEF Referenced
  <2> QED BY <1>1, <1>2, <1>4, <2>1 DEF Safe, NoCleanup, Overdue
<1>5. RequestsInv'
  BY <1>1, <1>4 DEF AgentInv, RequestsInv
<1> QED BY <1>1, <1>3, <1>5, CallsLeft, PageLeft DEF AgentInv

LEMMA ProofRemoved ==
    ASSUME AgentInv, NEW u \in Uploads, RemoveProof(u)
    PROVE  AgentInv'
<1>1. agFiles' \in [Uploads -> States] /\ \A v \in Uploads : agFiles'[v] = agFiles[v] \/ (v = u /\ agFiles'[v] = "gone")
  BY DEF RemoveProof, AgentInv, FilesInv, States
<1>2. /\ agCleanup.pc = "removing" /\ u \in agCleanup.files
      /\ agCleanup' \in {NoCleanup, [pc |-> "removing", files |-> agCleanup.files \ {u}]}
      /\ UNCHANGED <<agRequests, agPage, agCalls>>
  BY DEF RemoveProof, CleanupStep
<1>3. FilesInv'
  BY <1>1, <1>2 DEF AgentInv, FilesInv, NoCleanup
<1>4. \A v : Safe(v) => Safe(v)'
  BY <1>1, <1>2 DEF Safe, NoCleanup
<1>5. RequestsInv'
  BY <1>2, <1>4 DEF AgentInv, RequestsInv
<1> QED BY <1>2, <1>3, <1>5, CallsLeft, PageLeft DEF AgentInv

\* A late answer to an upload leaves the form of another visit alone; one
\* that succeeded brings the name of an uploaded file.
LEMMA AnswerTaken ==
    ASSUME AgentInv, NEW i \in DOMAIN agCalls, UploadAnswered(i) \/ SubmitAnswered(i) \/ CancelAnswered(i)
    PROVE  AgentInv'
<1>1. CallsInv'
  <2>1. CASE UploadAnswered(i) \/ CancelAnswered(i)
    BY <2>1, TabAnswered DEF UploadAnswered, CancelAnswered, CallAnswered
  <2>2. CASE SubmitAnswered(i)
    BY <2>2, SubmissionAnswered DEF AgentInv, CallsInv
  <2> QED BY <2>1, <2>2
<1>2. UNCHANGED agServer
  BY DEF UploadAnswered, SubmitAnswered, CancelAnswered, CallAnswered
<1>3. CASE UploadAnswered(i)
  <2>1. agCalls[i].ok => agCalls[i].about \in Uploads
    BY <1>3 DEF UploadAnswered, AgentInv, CallsInv
  <2>2. agForm' \in [filled : BOOLEAN, proof : Proof]
    BY <1>3, <2>1 DEF UploadAnswered, AgentInv, PageInv, Proof
  <2> QED BY <1>1, <1>2, <1>3, <2>2, ServerLeft DEF UploadAnswered, AgentInv, PageInv
<1>4. CASE SubmitAnswered(i)
  <2>1. agCalls[i].about \in Nat \cup Uploads
    BY CallOfType DEF Call
  <2>2. PageInv'
    BY <1>4, <2>1, Gone, PageLeft DEF SubmitAnswered
  <2> QED BY <1>1, <1>2, <2>2, ServerLeft DEF AgentInv
<1>5. CASE CancelAnswered(i)
  BY <1>1, <1>2, <1>5, ServerLeft DEF CancelAnswered, AgentInv, PageInv
<1> QED BY <1>3, <1>4, <1>5

LEMMA AgentStepped ==
    ASSUME AgentInv, [AgentNext]_agentVars
    PROVE  AgentInv'
<1>1. CASE UNCHANGED agentVars
  BY <1>1, ServerLeft, CallsLeft, PageLeft DEF agentVars, AgentInv
<1>2. ASSUME NEW r \in DOMAIN agRequests, OpenRequest(r)
      PROVE  AgentInv'
  <2>1. r \in Nat \cup Uploads
    BY DEF AgentInv, RequestsInv
  <2> QED BY <1>2, <2>1, Gone, ServerLeft, CallsLeft DEF OpenRequest, AgentInv
<1>3. ASSUME NEW r, DecideByAdmin(r)
      PROVE  AgentInv'
  <2>1. RequestsInv'
    BY <1>3, StatusSet DEF DecideByAdmin
  <2> QED BY <1>3, <2>1, CallsLeft, PageLeft DEF DecideByAdmin, AgentInv, FilesInv
<1>4. ASSUME NEW r, LoadRequest(r) \/ LoadRequests(r)
      PROVE  AgentInv'
  BY <1>4, ServerLeft, CallsLeft, PageLeft DEF LoadRequest, LoadRequests, AgentInv
<1>5. ASSUME NEW k, TurnRequests(k)
      PROVE  AgentInv'
  BY <1>5, ServerLeft, CallsLeft DEF TurnRequests, AgentInv, PageInv
<1>6. ASSUME NEW u \in Uploads, Age(u) \/ RemoveProof(u)
      PROVE  AgentInv'
  BY <1>6, FileAged, ProofRemoved
<1>7. ASSUME NEW i \in DOMAIN agCalls, \/ StoreUpload(i) \/ SubmitRequest(i) \/ CancelRequest(i)
                                      \/ UploadAnswered(i) \/ SubmitAnswered(i) \/ CancelAnswered(i)
      PROVE  AgentInv'
  BY <1>7, UploadStored, RequestMade, RequestCancelled, AnswerTaken
<1>8. CASE OpenRequests
  <2>1. 0 \in Nat \cup Uploads
    OBVIOUS
  <2> QED BY <1>8, <2>1, Gone, ServerLeft, CallsLeft DEF OpenRequests, AgentInv
<1>9. CASE NewRequest \/ RequestForCustomer
  BY <1>9, FormOpened DEF NewRequest, RequestForCustomer
<1>10. CASE FillForm
  <2>1. [agForm EXCEPT !.filled = TRUE] \in [filled : BOOLEAN, proof : Proof]
    BY DEF AgentInv, PageInv
  <2> QED BY <1>10, <2>1, FormSet DEF FillForm
<1>11. CASE ClearProof
  <2>1. [agForm EXCEPT !.proof = 0] \in [filled : BOOLEAN, proof : Proof]
    BY DEF AgentInv, PageInv, Proof
  <2> QED BY <1>11, <2>1, FormSet DEF ClearProof
<1>12. CASE UploadFile
  <2>1. CallsInv'
    BY <1>12, CallSent DEF UploadFile
  <2> QED BY <1>12, <2>1, ServerLeft, PageLeft DEF UploadFile, AgentInv
<1>13. CASE SubmitForm
  <2>1. agForm.proof \in Uploads
    BY <1>13 DEF SubmitForm, AgentInv, PageInv, Proof
  <2>2. CallsInv'
    BY <1>13, <2>1, CallSent DEF SubmitForm
  <2> QED BY <1>13, <2>2, ServerLeft, PageLeft DEF SubmitForm, AgentInv
<1>14. CASE AskCancel \/ DismissCancel
  BY <1>14, CancelSet DEF AskCancel, DismissCancel
<1>15. CASE ConfirmCancel
  <2>1. CallsInv'
    BY <1>15, CallSent DEF ConfirmCancel, AgentInv, PageInv
  <2> QED BY <1>15, <2>1, ServerLeft, PageLeft DEF ConfirmCancel, AgentInv
<1>16. CASE ReloadRequest
  BY <1>16, ServerLeft, CallsLeft, PageLeft DEF ReloadRequest, AgentInv
<1>17. CASE ReadDirectory \/ PluckReferences \/ ReadClock \/ CleanupStops
  BY <1>17, CleanupMoved
<1> QED BY <1>1, <1>2, <1>3, <1>4, <1>5, <1>6, <1>7, <1>8, <1>9, <1>10, <1>11, <1>12, <1>13, <1>14,
           <1>15, <1>16, <1>17 DEF AgentNext

\* However uploads, requests, the passing of time and the cleanup interleave,
\* a request made within a day of its upload keeps its payment proof
\* (PaymentProofService.CleanupOrphans against CreateRequest), unless the day
\* ends, and the request is made, between the run's references and its clock.
THEOREM ProofsKept == AgentSpec => []FreshProofKept
<1>1. AgentInv => FreshProofKept
  BY DEF AgentInv, RequestsInv, Safe, FreshProofKept, Stored
<1> QED BY <1>1, AgentInitially, AgentStepped, PTL DEF AgentSpec

-----------------------------------------------------------------------------
(* Lists the browser divides into pages.                                   *)

\* The pages of a list: one for each of its places.
LEMMA Multiplied ==
    ASSUME NEW a \in Int, NEW b \in Int, NEW n \in Nat \ {0}, a <= b
    PROVE  a * n <= b * n /\ a * n \in Int /\ b * n \in Int /\ (a + 1) * n = a * n + n /\ (a - 1) * n = a * n - n
OBVIOUS

LEMMA PagesCounted ==
    ASSUME NEW count \in Nat, NEW n \in Nat \ {0}
    PROVE  /\ PageCount(count, n) \in Nat \ {0}
           /\ count <= PageCount(count, n) * n
           /\ count # 0 => (PageCount(count, n) - 1) * n < count
<1>1. CASE count = 0
  BY <1>1 DEF PageCount
<1>2. CASE count # 0
  <2> DEFINE c == (count + n - 1) \div n
  <2>1. c \in Nat /\ c * n <= count + n - 1 /\ count + n - 1 < c * n + n
    BY <1>2, RoundedDown
  <2>2. PageCount(count, n) = c
    BY <1>2 DEF PageCount
  <2> HIDE DEF c
  <2>3. c # 0
    BY <1>2, <2>1
  <2>4. (c - 1) * n = c * n - n /\ c * n \in Int
    BY <2>1, Multiplied
  <2> QED BY <1>2, <2>1, <2>2, <2>3, <2>4
<1> QED BY <1>1, <1>2

LEMMA PageOfPlace ==
    ASSUME NEW count \in Nat, NEW n \in Nat \ {0}, NEW k \in 1 .. count
    PROVE  \E p \in 1 .. PageCount(count, n) : k \in (p - 1) * n + 1 .. p * n
<1> DEFINE q == (k - 1) \div n
           c == PageCount(count, n)
<1>1. q \in Nat /\ q * n <= k - 1 /\ k - 1 < q * n + n
  BY RoundedDown
<1>2. c \in Nat \ {0} /\ count <= c * n
  BY PagesCounted
<1> HIDE DEF q, c
<1>3. q * n \in Int /\ c * n \in Int /\ (q + 1) * n = q * n + n
  BY <1>1, <1>2, Multiplied
<1>4. q + 1 <= c
  <2>1. ASSUME c <= q
        PROVE  FALSE
    <3>1. c * n <= q * n
      BY <1>1, <1>2, <2>1, Multiplied
    <3> QED BY <1>1, <1>2, <1>3, <3>1
  <2> QED BY <1>1, <1>2, <2>1
<1>5. q + 1 \in 1 .. c /\ (q + 1) - 1 = q
  BY <1>1, <1>2, <1>4
<1>6. k \in ((q + 1) - 1) * n + 1 .. (q + 1) * n
  BY <1>1, <1>3, <1>5
<1> QED BY <1>5, <1>6 DEF c

LEMMA PagesApart ==
    ASSUME NEW n \in Nat \ {0}, NEW p \in Nat, NEW q \in Nat, NEW k \in Int,
           k \in (p - 1) * n + 1 .. p * n, k \in (q - 1) * n + 1 .. q * n
    PROVE  p = q
<1>1. ASSUME NEW a \in Nat, NEW b \in Nat, a < b, k \in (a - 1) * n + 1 .. a * n, k \in (b - 1) * n + 1 .. b * n
      PROVE  FALSE
  <2>1. a * n <= (b - 1) * n /\ a * n \in Int /\ (b - 1) * n \in Int
    BY <1>1, Multiplied
  <2> QED BY <1>1, <2>1
<1> QED BY <1>1

\* The order of a list is strict and total, so that each place is taken.
LEMMA InOrder ==
    ASSUME NEW x \in Items, NEW y \in Items
    PROVE  /\ ~ (Before(x, y) /\ Before(y, x)) /\ ~ Before(x, x)
           /\ x # y => Before(x, y) \/ Before(y, x)
           /\ \A z \in Items : Before(x, y) /\ Before(y, z) => Before(x, z)
<1>1. Items \subseteq Nat /\ Price \in [Items -> Nat]
  BY ClientAssumption
<1>2. \A z \in Items : Price[z] \in Nat /\ z \in Nat
  BY <1>1
<1>3. CASE clSort = "monthly_asc"
  BY <1>2, <1>3 DEF Before
<1>4. CASE clSort = "monthly_desc"
  BY <1>2, <1>4 DEF Before
<1>5. CASE clSort # "monthly_asc" /\ clSort # "monthly_desc"
  BY <1>2, <1>5 DEF Before
<1> QED BY <1>3, <1>4, <1>5

LEMMA PlacesTaken ==
    ASSUME NEW set \in SUBSET Items
    PROVE  /\ Cardinality(set) \in Nat
           /\ \A x \in set : Place(x, set) \in 1 .. Cardinality(set)
           /\ \A k \in 1 .. Cardinality(set) : \E x \in set : Place(x, set) = k
<1> DEFINE N == Cardinality(set)
           Prior(x) == {y \in set : Before(y, x)}
           f == [x \in set |-> Place(x, set)]
<1>1. IsFiniteSet(set) /\ N \in Nat
  BY FS_Subset, FS_CardinalityType, ClientAssumption
<1>2. \A x \in set : IsFiniteSet(Prior(x)) /\ Cardinality(Prior(x)) \in Nat
  BY <1>1, FS_Subset, FS_CardinalityType, \A x \in set : Prior(x) \in SUBSET set
<1>3. \A x \in set : Place(x, set) = Cardinality(Prior(x)) + 1
  BY DEF Place
<1>4. ASSUME NEW x \in set
      PROVE  Cardinality(Prior(x)) < N
  <2>1. x \notin Prior(x) /\ Prior(x) \in SUBSET set
    BY InOrder
  <2>2. Cardinality(Prior(x)) <= N /\ (N = Cardinality(Prior(x)) => set = Prior(x))
    BY <1>1, <2>1, FS_Subset
  <2> HIDE DEF Prior
  <2> QED BY <1>1, <1>2, <2>1, <2>2
<1>5. ASSUME NEW x \in set, NEW y \in set, Before(x, y)
      PROVE  Cardinality(Prior(x)) < Cardinality(Prior(y))
  <2>1. Prior(x) \in SUBSET Prior(y) /\ x \in Prior(y) /\ x \notin Prior(x)
    BY <1>5, InOrder
  <2>2. IsFiniteSet(Prior(y)) /\ Cardinality(Prior(x)) \in Nat /\ Cardinality(Prior(y)) \in Nat
    BY <1>2
  <2> HIDE DEF Prior
  <2>3. Cardinality(Prior(x)) <= Cardinality(Prior(y))
        /\ (Cardinality(Prior(y)) = Cardinality(Prior(x)) => Prior(y) = Prior(x))
    BY <2>1, <2>2, FS_Subset
  <2> QED BY <2>1, <2>2, <2>3
<1> HIDE DEF Prior
<1>6. \A x \in set : Place(x, set) \in 1 .. N
  BY <1>1, <1>2, <1>3, <1>4
<1>7. \A x, y \in set : Place(x, set) = Place(y, set) => x = y
  <2> SUFFICES ASSUME NEW x \in set, NEW y \in set, Place(x, set) = Place(y, set), x # y
               PROVE  FALSE
    OBVIOUS
  <2>1. Cardinality(Prior(x)) = Cardinality(Prior(y))
    BY <1>2, <1>3
  <2>2. Before(x, y) \/ Before(y, x)
    BY InOrder
  <2> QED BY <1>2, <1>5, <2>1, <2>2
<1>8. f \in Injection(set, 1 .. N)
  <2>1. f \in [set -> 1 .. N]
    BY <1>6
  <2>2. \A x, y \in set : f[x] = f[y] => x = y
    BY <1>7
  <2> HIDE DEF f, N
  <2> QED BY <2>1, <2>2 DEF Injection, IsInjective
<1>9. f \in Surjection(set, 1 .. N)
  <2>1. IsFiniteSet(1 .. N) /\ Cardinality(1 .. N) = N
    BY <1>1, FS_Interval
  <2> HIDE DEF f
  <2> QED BY <1>8, <2>1, FS_Injection
<1>10. \A k \in 1 .. N : \E x \in set : f[x] = k
  <2> HIDE DEF f, N
  <2> QED BY <1>9 DEF Surjection
<1> QED BY <1>1, <1>6, <1>10

\* The page number is one of the list as it is matched.
ClientInv ==
    /\ clEntry \in Entry(SUBSET Items) /\ clItems \in SUBSET Items
    /\ clMatch \in SUBSET Items /\ clSize \in Nat \ {0}
    /\ clAt \in 1 .. PageCount(Cardinality(Matched(clEntry, clMatch)), clSize)

LEMMA MatchedIs == \A e, match : e \in Entry(SUBSET Items) => Matched(e, match) \in SUBSET Items
BY DEF Entry, Matched, Listed

LEMMA Clamped ==
    ASSUME NEW set \in SUBSET Items, NEW n \in Nat \ {0}, NEW p \in Nat \ {0}
    PROVE  ClampPage(p, Cardinality(set), n) \in 1 .. PageCount(Cardinality(set), n)
<1>1. PageCount(Cardinality(set), n) \in Nat \ {0}
  BY PlacesTaken, PagesCounted
<1> QED BY <1>1 DEF ClampPage

LEMMA SmallestSize == DefaultSize \in ViewSizes
<1> DEFINE Less == {ss \in Nat \X Nat : ss[1] < ss[2]}
<1>1. IsWellFoundedOn(Less, Nat)
  BY NatLessThanWellFounded DEF OpToRel
<1>2. ViewSizes \subseteq Nat /\ ViewSizes # {}
  BY ClientAssumption
<1>3. PICK n \in ViewSizes : \A m \in ViewSizes : ~ (<<m, n>> \in Less)
  <2> HIDE DEF Less
  <2> QED BY <1>1, <1>2, WFMin
<1>4. ASSUME NEW m \in ViewSizes
      PROVE  n <= m
  <2>1. n \in Nat /\ m \in Nat
    BY <1>2
  <2>2. ~ (m < n)
    BY <1>3, <2>1
  <2> QED BY <2>1, <2>2
<1>5. \E k \in ViewSizes : \A m \in ViewSizes : k <= m
  BY <1>4
<1> QED BY <1>5, Zenon DEF DefaultSize

LEMMA ClientInitially == ClientInit => ClientInv
<1> SUFFICES ASSUME ClientInit PROVE ClientInv
  OBVIOUS
<1>1. clEntry \in Entry(SUBSET Items)
  BY EntryKept, EmptyIsEntry DEF ClientInit
<1>2. clSize \in Nat \ {0}
  BY SmallestSize, ClientAssumption DEF ClientInit
<1>3. 1 <= PageCount(Cardinality(Matched(clEntry, clMatch)), clSize)
      /\ PageCount(Cardinality(Matched(clEntry, clMatch)), clSize) \in Nat
  <2>1. Matched(clEntry, clMatch) \in SUBSET Items
    BY <1>1, MatchedIs
  <2>2. Cardinality(Matched(clEntry, clMatch)) \in Nat
    BY <2>1, PlacesTaken
  <2> QED BY <1>2, <2>2, PagesCounted
<1> QED BY <1>1, <1>2, <1>3, ClientAssumption DEF ClientInit, ClientInv

LEMMA Viewed ==
    ASSUME ClientInv, NEW match \in SUBSET Items, NEW sort, NEW at \in Nat \ {0}, NEW size \in Nat \ {0},
           View(match, sort, at, size)
    PROVE  ClientInv'
<1>1. /\ clMatch' = match /\ clSize' = size /\ UNCHANGED <<clEntry, clItems>>
      /\ clAt' = ClampPage(at, Cardinality(Matched(clEntry, match)), size)
  BY DEF View
<1>2. clAt' \in 1 .. PageCount(Cardinality(Matched(clEntry, match)), size)
  BY <1>1, MatchedIs, Clamped DEF ClientInv
<1> QED BY <1>1, <1>2 DEF ClientInv

LEMMA ClientStepped ==
    ASSUME ClientInv, [ClientNext]_clientVars
    PROVE  ClientInv'
<1>1. clMatch \in SUBSET Items /\ clSize \in Nat \ {0} /\ \A match \in Matches : match \in SUBSET Items
  BY ClientAssumption DEF ClientInv
<1>2. ASSUME NEW match \in Matches, FilterAgentScripts(match) \/ FilterUsers(match)
      PROVE  ClientInv'
  BY <1>1, <1>2, Viewed DEF FilterAgentScripts, FilterUsers
<1>3. ASSUME NEW sort \in Sorts, SortScripts(sort)
      PROVE  ClientInv'
  BY <1>1, <1>3, Viewed DEF SortScripts
<1>4. ASSUME NEW p, TurnView(p)
      PROVE  ClientInv'
  <2>1. p \in Nat \ {0} /\ View(clMatch, clSort, p, clSize)
    BY <1>1, <1>4, MatchedIs, PlacesTaken, PagesCounted DEF TurnView, ClientInv
  <2> QED BY <1>1, <2>1, Viewed
<1>5. ASSUME NEW n \in ViewSizes, ResizeView(n)
      PROVE  ClientInv'
  <2>1. n \in Nat \ {0} /\ View(clMatch, clSort, 1, n)
    BY <1>5, ClientAssumption DEF ResizeView
  <2> QED BY <1>1, <2>1, Viewed
<1>6. CASE ResetFilters
  BY <1>1, <1>6, Viewed, ClientAssumption DEF ResetFilters
<1>7. ASSUME NEW items \in SUBSET Items, ChangeItems(items)
      PROVE  ClientInv'
  BY <1>7 DEF ChangeItems, clientView, ClientInv
<1>8. CASE ReloadList
  <2>1. clEntry' = Reload(clEntry) /\ UNCHANGED <<clItems, clMatch, clSize, clAt>>
    BY <1>8 DEF ReloadList, clientView
  <2>2. clEntry' \in Entry(SUBSET Items)
    BY <2>1, EntryKept DEF ClientInv
  <2>3. clEntry'.data = clEntry.data
    BY <2>1 DEF ClientInv, Entry, Reload
  <2> QED BY <2>1, <2>2, <2>3 DEF ClientInv, Matched, Listed
<1>9. CASE LoadItems
  <2>1. PICK e : e = clEntry'
    OBVIOUS
  <2>2. e \in Entry(SUBSET Items)
    BY <1>9, <2>1, EntryKept DEF LoadItems, ClientInv
  <2>3. /\ clAt' = ClampPage(clAt, Cardinality(Matched(e, clMatch)), clSize)
        /\ UNCHANGED <<clItems, clMatch, clSize>>
    BY <1>9, <2>1 DEF LoadItems
  <2>4. clAt \in Nat \ {0}
    BY MatchedIs, PlacesTaken, PagesCounted DEF ClientInv
  <2>5. clAt' \in 1 .. PageCount(Cardinality(Matched(e, clMatch)), clSize)
    BY <1>1, <2>2, <2>3, <2>4, MatchedIs, Clamped
  <2> QED BY <2>1, <2>2, <2>3, <2>5 DEF ClientInv
<1>10. CASE UNCHANGED clientVars
  BY <1>10 DEF clientVars, clientView, ClientInv
<1> QED BY <1>2, <1>3, <1>4, <1>5, <1>6, <1>7, <1>8, <1>9, <1>10 DEF ClientNext

\* Whatever was filtered, sorted, resized or loaded, the pages cut what
\* matches without gaps or overlaps, and the page in view shows something if
\* anything matches (the effects of AgentScriptListPage and
\* AuthorizedUsersPanel that bring the page number back into range).
THEOREM PagesCorrect == ClientSpec => []PagesCoverMatches
<1>1. ASSUME ClientInv
      PROVE  PagesCoverMatches
  <2> DEFINE set == Matched(clEntry, clMatch)
             n == clSize
             pages == 1 .. PageCount(Cardinality(set), n)
  <2>1. set \in SUBSET Items /\ n \in Nat \ {0} /\ clAt \in pages
    BY <1>1, MatchedIs DEF ClientInv
  <2> HIDE DEF set, n
  <2>2. /\ Cardinality(set) \in Nat
        /\ \A x \in set : Place(x, set) \in 1 .. Cardinality(set)
        /\ \A k \in 1 .. Cardinality(set) : \E x \in set : Place(x, set) = k
    BY <2>1, PlacesTaken
  <2>3. /\ PageCount(Cardinality(set), n) \in Nat \ {0}
        /\ Cardinality(set) # 0 => (PageCount(Cardinality(set), n) - 1) * n < Cardinality(set)
    BY <2>1, <2>2, PagesCounted
  <2>4. \A x \in set : \E p \in pages : x \in PageSlice(set, p, n)
    BY <2>1, <2>2, PageOfPlace DEF PageSlice
  <2>5. ASSUME NEW p \in pages, NEW q \in pages, NEW x \in PageSlice(set, p, n) \cap PageSlice(set, q, n)
        PROVE  p = q
    <3>1. p \in Nat /\ q \in Nat /\ Place(x, set) \in Int
      BY <2>2, <2>3, <2>5 DEF PageSlice
    <3> QED BY <2>1, <2>5, <3>1, PagesApart DEF PageSlice
  <2>6. ASSUME set # {}
        PROVE  PageSlice(set, clAt, n) # {}
    <3>1. Cardinality(set) # 0
      <4>1. IsFiniteSet(set)
        BY <2>1, FS_Subset, ClientAssumption
      <4> QED BY <2>6, <4>1, FS_EmptySet
    <3>2. clAt \in Nat /\ clAt - 1 <= PageCount(Cardinality(set), n) - 1 /\ clAt - 1 \in Nat
      BY <2>1, <2>3
    <3>3. (clAt - 1) * n <= (PageCount(Cardinality(set), n) - 1) * n
          /\ (clAt - 1) * n \in Int /\ (clAt - 1) * n = clAt * n - n /\ clAt * n \in Int
          /\ (PageCount(Cardinality(set), n) - 1) * n \in Int
      BY <2>1, <2>3, <3>2, Multiplied
    <3>4. (clAt - 1) * n + 1 \in 1 .. Cardinality(set)
      <4>1. 0 <= (clAt - 1) * n
        BY <2>1, <3>2
      <4> QED BY <2>2, <2>3, <3>1, <3>3, <4>1
    <3>5. PICK x \in set : Place(x, set) = (clAt - 1) * n + 1
      BY <2>2, <3>4
    <3>6. Place(x, set) \in (clAt - 1) * n + 1 .. clAt * n
      BY <2>1, <3>3, <3>5
    <3> QED BY <3>6 DEF PageSlice
  <2> QED BY <2>4, <2>5, <2>6 DEF PagesCoverMatches, ShownItems, set, n
<1>2. ClientInv => PagesCoverMatches
  BY <1>1
<1> QED BY <1>2, ClientInitially, ClientStepped, PTL DEF ClientSpec

-----------------------------------------------------------------------------
(* What the tab has done is what it shows.  A success invalidates the       *)
(* queries it made old.  From then on whatever such a query awaits or shows *)
(* was read later, unless the invalidation could not restart its load: in   *)
(* use it has been loaded again, and unused it is not fresh any more and    *)
(* will be loaded when a page turns to it.                                  *)

\* What is awaited, and what is shown or may be shown without a new load, is
\* of the set good.
Known(e, inUse, good) ==
    /\ ~e.overtaken /\ e.load = "answered" => e.answer \in good
    /\ Settled(e) /\ (e.fresh \/ inUse) => e.data \in good

LEMMA KnownMoved ==
    ASSUME NEW values, NEW e \in Entry(values), NEW good
    PROVE  /\ \A inUse \in BOOLEAN : Known(Reload(e), inUse, good) /\ Known(Fail(e), inUse, good)
           /\ \A inUse \in BOOLEAN, v \in good : Known(Answer(e, v), inUse, good)
           /\ \A inUse \in BOOLEAN :
                 e.load = "answered" /\ Known(e, inUse, good) => Known(Arrive(e), inUse, good)
           /\ Known(e, FALSE, good) => Known(Observe(e), TRUE, good)
           /\ Known(e, TRUE, good) => Known(e, FALSE, good)
<1>1. /\ \A inUse \in BOOLEAN : Known(Reload(e), inUse, good) /\ Known(Fail(e), inUse, good)
      /\ \A inUse \in BOOLEAN, v \in good : Known(Answer(e, v), inUse, good)
  BY DEF Known, Reload, Fail, Answer, Settled, Loading, Entry
<1>2. \A inUse \in BOOLEAN :
         e.load = "answered" /\ Known(e, inUse, good) => Known(Arrive(e), inUse, good)
  BY DEF Known, Arrive, Settled, Loading, Entry
<1>3. Known(e, FALSE, good) => Known(Observe(e), TRUE, good)
  BY <1>1 DEF Known, Observe, Settled, Loading, Entry
<1> QED BY <1>1, <1>2, <1>3 DEF Known

\* After an invalidation nothing read before it counts.
LEMMA KnownInvalidated ==
    ASSUME NEW values, NEW e \in Entry(values), NEW inUse \in BOOLEAN, NEW good
    PROVE  Known(Invalidate(e, inUse), inUse, good)
<1>1. CASE Loading(e) /\ (~inUse \/ e.data = NoData)
  <2>1. Invalidate(e, inUse) = [e EXCEPT !.fresh = FALSE, !.overtaken = TRUE]
    BY <1>1 DEF Invalidate
  <2> QED BY <2>1 DEF Known, Settled, Entry
<1>2. CASE ~(Loading(e) /\ (~inUse \/ e.data = NoData)) /\ inUse
  <2>1. Invalidate(e, inUse) = [Reload(e) EXCEPT !.fresh = FALSE]
    BY <1>2 DEF Invalidate
  <2> QED BY <2>1 DEF Known, Settled, Loading, Reload, Entry
<1>3. CASE ~(Loading(e) /\ (~inUse \/ e.data = NoData)) /\ ~inUse
  <2>1. Invalidate(e, inUse) = [e EXCEPT !.fresh = FALSE] /\ e.load = "idle"
    BY <1>3 DEF Invalidate, Loading
  <2> QED BY <1>3, <2>1 DEF Known, Settled, Entry
<1> QED BY <1>1, <1>2, <1>3

\* A cache: a function from the keys used so far to entries.
Cache(c, values) == /\ c = [k \in DOMAIN c |-> c[k]]
                    /\ \A k \in DOMAIN c : c[k] \in Entry(values)

\* A page turns to a key: the entry of that key is loaded if it has to be.
LEMMA KeyAdded ==
    ASSUME NEW c, NEW key
    PROVE  DOMAIN Use(c, key) = DOMAIN c \cup {key}
BY DEF Use

LEMMA KeyCached ==
    ASSUME NEW values, NEW c, Cache(c, values), NEW key
    PROVE  Cache(Use(c, key), values)
<1>1. /\ DOMAIN Use(c, key) = DOMAIN c \cup {key}
      /\ Use(c, key) = [k \in DOMAIN Use(c, key) |-> Use(c, key)[k]]
      /\ \A k \in DOMAIN c \cup {key} :
            Use(c, key)[k] = IF k = key THEN Observe(EntryAt(c, key)) ELSE c[k]
  BY DEF Use
<1>2. EntryAt(c, key) \in Entry(values)
  BY EmptyIsEntry DEF EntryAt, Cache
<1> QED BY <1>1, <1>2, EntryKept DEF Cache

\* What was known of an entry that need not be in use is so of the one used.
LEMMA KeyKnown ==
    ASSUME NEW values, NEW c, Cache(c, values), NEW key, NEW good, NEW k \in DOMAIN Use(c, key),
           k \in DOMAIN c => Known(c[k], FALSE, good)
    PROVE  Known(Use(c, key)[k], k = key, good)
<1>1. /\ k \in DOMAIN c \cup {key}
      /\ Use(c, key)[k] = IF k = key THEN Observe(EntryAt(c, key)) ELSE c[k]
  BY DEF Use
<1>2. CASE k = key
  <2>1. EntryAt(c, key) \in Entry(values)
    BY EmptyIsEntry DEF EntryAt, Cache
  <2>2. Known(EntryAt(c, key), FALSE, good)
    BY <1>2 DEF EntryAt, EmptyEntry, Known, Settled
  <2>3. Known(Observe(EntryAt(c, key)), TRUE, good)
    BY <2>1, <2>2, KnownMoved
  <2> QED BY <1>1, <1>2, <2>3
<1>3. CASE k # key
  <2>1. k \in DOMAIN c /\ Use(c, key)[k] = c[k] /\ (k = key) = FALSE
    BY <1>1, <1>3
  <2> QED BY <2>1
<1> QED BY <1>2, <1>3

\* One entry changes.
LEMMA EntryStepped ==
    ASSUME NEW values, NEW c, Cache(c, values), NEW key, NEW n, key \in DOMAIN c => n \in Entry(values)
    PROVE  /\ Cache([c EXCEPT ![key] = n], values)
           /\ DOMAIN [c EXCEPT ![key] = n] = DOMAIN c
           /\ \A k \in DOMAIN c : [c EXCEPT ![key] = n][k] = IF k = key THEN n ELSE c[k]
BY DEF Cache

\* ---- the list pages

ListValues == [rows : SUBSET [id : Records, on : BOOLEAN], total : Nat, asOf : Nat]
ReadSince(n) == {v \in ListValues : v.asOf >= n}
Refreshed(c) == c.state = "done" /\ c.ok /\ c.kind # "password"

SavesShown ==
    /\ lpKey \in DOMAIN lpLists /\ Cache(lpLists, ListValues)
    /\ \A i \in DOMAIN lpCalls : lpCalls[i].at <= lpWrites
    /\ \A i \in DOMAIN lpCalls : Refreshed(lpCalls[i]) =>
           \A k \in DOMAIN lpLists : Known(lpLists[k], k = lpKey, ReadSince(lpCalls[i].at))

\* A part of the records can be counted.
LEMMA Counted ==
    ASSUME NEW S, IsFiniteSet(S), NEW T \in SUBSET S
    PROVE  Cardinality(T) \in Nat
BY FS_Subset, FS_CardinalityType

\* A page is read at the present state of the database.
LEMMA PageRead ==
    ASSUME ListPagesInv, NEW key
    PROVE  PageOf(key) \in ListValues /\ PageOf(key).asOf = lpWrites
<1> DEFINE match == {r \in Records : lpRecord[r] = "on" \/ (key.filter = "all" /\ lpRecord[r] # "none")}
           rank(r) == Cardinality({q \in match : q >= r})
           first == (key.page - 1) * RowsPerPage
           rows == {[id |-> r, on |-> lpRecord[r] = "on"] :
                      r \in {q \in match : rank(q) \in first + 1 .. first + RowsPerPage}}
<1>1. PageOf(key) = [rows |-> rows, total |-> Cardinality(match), asOf |-> lpWrites]
  BY DEF PageOf
<1>2. rows \in SUBSET [id : Records, on : BOOLEAN]
  <2> DEFINE row(r) == [id |-> r, on |-> lpRecord[r] = "on"]
             listed == {q \in match : rank(q) \in first + 1 .. first + RowsPerPage}
  <2>1. \A r \in Records : row(r) \in [id : Records, on : BOOLEAN]
    BY Zenon
  <2>2. listed \subseteq Records /\ rows = {row(r) : r \in listed}
    OBVIOUS
  <2> HIDE DEF row, rows, listed
  <2> QED BY <2>1, <2>2
<1>3. Cardinality(match) \in Nat
  BY Counted, ListAssumption
<1>4. lpWrites \in Nat
  BY DEF ListPagesInv
<1> HIDE DEF rows, match
<1> QED BY <1>1, <1>2, <1>3, <1>4 DEF ListValues

LEMMA ListsInitially == ListInit => SavesShown
<1> SUFFICES ASSUME ListInit PROVE SavesShown
  OBVIOUS
<1>1. Cache(<<>>, ListValues)
  BY DEF Cache
<1>2. Cache(lpLists, ListValues) /\ lpKey \in DOMAIN lpLists
  BY <1>1, KeyAdded, KeyCached DEF ListInit
<1>3. DOMAIN lpCalls = {}
  BY DEF ListInit
<1> QED BY <1>2, <1>3 DEF SavesShown

LEMMA SavesTimed ==
    ASSUME ListPagesInv, NEW i \in DOMAIN lpCalls
    PROVE  lpCalls[i] \in Saving /\ lpCalls[i].at \in Nat /\ lpWrites \in Nat
<1>1. lpCalls[i] \in Saving
  BY DEF ListPagesInv
<1> QED BY <1>1 DEF Saving, ListPagesInv

\* The lists stay; no call has its answer that had not before.
LEMMA ListsLeft ==
    ASSUME SavesShown, UNCHANGED <<lpKey, lpLists>>,
           \A i \in DOMAIN lpCalls' : lpCalls'[i].at <= lpWrites',
           \A i \in DOMAIN lpCalls' : Refreshed(lpCalls'[i]) =>
               i \in DOMAIN lpCalls /\ Refreshed(lpCalls[i]) /\ lpCalls'[i].at = lpCalls[i].at
    PROVE  SavesShown'
BY DEF SavesShown

LEMMA ListsSent ==
    ASSUME ListPagesInv, SavesShown, NEW kind, NEW id, NEW from, NEW value,
           Send(kind, id, from, value), UNCHANGED <<lpKey, lpLists, lpWrites>>
    PROVE  SavesShown'
<1> DEFINE c == [kind |-> kind, id |-> id, from |-> from, value |-> value,
                 mount |-> lpMount, state |-> "sent", ok |-> FALSE, at |-> 0]
<1>1. lpCalls' = Append(lpCalls, c) /\ c.at = 0 /\ ~c.ok
  BY DEF Send
<1> HIDE DEF c
<1>2. \A i \in DOMAIN lpCalls' : (i \in DOMAIN lpCalls /\ lpCalls'[i] = lpCalls[i]) \/ lpCalls'[i] = c
  <2>1. lpCalls \in Seq(Saving \cup {c}) /\ c \in Saving \cup {c}
    BY DEF ListPagesInv
  <2> QED BY <1>1, <2>1, EntryAdded
<1>3. 0 <= lpWrites
  BY DEF ListPagesInv
<1> QED BY <1>1, <1>2, <1>3, ListsLeft DEF SavesShown, Refreshed

LEMMA ListsServed ==
    ASSUME ListPagesInv, SavesShown, NEW i \in DOMAIN lpCalls, Serve(i)
    PROVE  SavesShown'
<1>1. PICK accepted \in BOOLEAN, arrives \in BOOLEAN :
        LET written == IF accepted THEN Written(lpCalls[i]) ELSE {}
        IN  /\ lpWrites' = IF written = {} THEN lpWrites ELSE lpWrites + 1
            /\ lpCalls' = [lpCalls EXCEPT ![i].state = "answered", ![i].at = lpWrites',
                             ![i].ok = arrives /\ accepted /\ (written # {} \/ lpCalls[i].kind = "sync")]
  BY DEF Serve
<1> DEFINE written == IF accepted THEN Written(lpCalls[i]) ELSE {}
<1>2. lpWrites' \in Nat /\ lpWrites <= lpWrites' /\ lpWrites \in Nat
  <2>1. lpWrites \in Nat
    BY DEF ListPagesInv
  <2>2. lpWrites' = lpWrites \/ lpWrites' = lpWrites + 1
    BY <1>1
  <2> QED BY <2>1, <2>2
<1>3. /\ DOMAIN lpCalls' = DOMAIN lpCalls
      /\ \A j \in DOMAIN lpCalls : j # i => lpCalls'[j] = lpCalls[j]
  BY <1>1 DEF ListPagesInv
<1>4. lpCalls'[i].state = "answered" /\ lpCalls'[i].at = lpWrites'
  <2>1. lpCalls[i] \in Saving
    BY SavesTimed
  <2> HIDE DEF written
  <2> QED BY <1>1, <2>1 DEF ListPagesInv, Saving
<1>5. \A j \in DOMAIN lpCalls' : lpCalls'[j].at <= lpWrites'
  <2> TAKE j \in DOMAIN lpCalls'
  <2>1. CASE j = i
    BY <1>2, <1>4, <2>1
  <2>2. CASE j # i
    <3>1. j \in DOMAIN lpCalls /\ lpCalls'[j] = lpCalls[j]
      BY <1>3, <2>2
    <3>2. lpCalls[j].at <= lpWrites /\ lpCalls[j].at \in Nat
      BY <3>1, SavesTimed DEF SavesShown
    <3> QED BY <1>2, <3>1, <3>2
  <2> QED BY <2>1, <2>2
<1>6. \A j \in DOMAIN lpCalls' : Refreshed(lpCalls'[j]) => j # i
  BY <1>4 DEF Refreshed
<1> QED BY <1>3, <1>5, <1>6, ListsLeft DEF Serve, lpView

\* Another key is used: what it does not use any more stays known.
LEMMA ListsTurned ==
    ASSUME SavesShown, UNCHANGED <<lpCalls, lpWrites>>, lpLists' = Use(lpLists, lpKey')
    PROVE  SavesShown'
<1>1. lpKey' \in DOMAIN lpLists' /\ Cache(lpLists', ListValues)
  BY KeyAdded, KeyCached DEF SavesShown
<1>2. ASSUME NEW i \in DOMAIN lpCalls, Refreshed(lpCalls[i]), NEW k \in DOMAIN lpLists'
      PROVE  Known(lpLists'[k], k = lpKey', ReadSince(lpCalls[i].at))
  <2>1. k \in DOMAIN lpLists => Known(lpLists[k], FALSE, ReadSince(lpCalls[i].at))
    BY <1>2 DEF SavesShown, Known
  <2> QED BY <2>1, KeyKnown DEF SavesShown
<1> QED BY <1>1, <1>2 DEF SavesShown

\* One list is loaded.
LEMMA ListMoved ==
    ASSUME SavesShown, UNCHANGED <<lpKey, lpCalls, lpWrites>>, NEW k \in DOMAIN lpLists,
           NEW n \in Entry(ListValues), lpLists' = [lpLists EXCEPT ![k] = n],
           \A i \in DOMAIN lpCalls : Known(lpLists[k], k = lpKey, ReadSince(lpCalls[i].at)) =>
                                         Known(n, k = lpKey, ReadSince(lpCalls[i].at))
    PROVE  SavesShown'
<1>1. /\ Cache(lpLists', ListValues) /\ DOMAIN lpLists' = DOMAIN lpLists
      /\ \A j \in DOMAIN lpLists : lpLists'[j] = IF j = k THEN n ELSE lpLists[j]
  BY EntryStepped DEF SavesShown
<1> QED BY <1>1 DEF SavesShown

LEMMA ListLoaded ==
    ASSUME ListPagesInv, SavesShown, NEW k \in DOMAIN lpLists, LoadPage(k)
    PROVE  SavesShown'
<1>1. lpLists[k] \in Entry(ListValues) /\ UNCHANGED <<lpKey, lpCalls, lpWrites>>
  BY DEF SavesShown, Cache, LoadPage, lpView, lpServer
<1>2. CASE lpLists' = [lpLists EXCEPT ![k] = Answer(@, PageOf(k))]
  <2> DEFINE n == Answer(lpLists[k], PageOf(k))
  <2>1. n \in Entry(ListValues)
    BY <1>1, PageRead, EntryKept
  <2>2. \A i \in DOMAIN lpCalls : PageOf(k) \in ReadSince(lpCalls[i].at)
    BY PageRead, SavesTimed DEF ReadSince, SavesShown
  <2>3. \A i \in DOMAIN lpCalls : Known(n, k = lpKey, ReadSince(lpCalls[i].at))
    BY <1>1, <2>2, KnownMoved
  <2> HIDE DEF n
  <2>4. lpLists' = [lpLists EXCEPT ![k] = n]
    BY <1>2 DEF n
  <2> QED BY <1>1, <2>1, <2>3, <2>4, ListMoved
<1>3. CASE lpLists[k].load = "answered" /\ lpLists' = [lpLists EXCEPT ![k] = Arrive(@)]
  <2> DEFINE n == Arrive(lpLists[k])
  <2>1. n \in Entry(ListValues)
    BY <1>1, EntryKept
  <2>2. \A i \in DOMAIN lpCalls : Known(lpLists[k], k = lpKey, ReadSince(lpCalls[i].at)) =>
                                      Known(n, k = lpKey, ReadSince(lpCalls[i].at))
    BY <1>1, <1>3, KnownMoved
  <2> HIDE DEF n
  <2>3. lpLists' = [lpLists EXCEPT ![k] = n]
    BY <1>3 DEF n
  <2> QED BY <1>1, <2>1, <2>2, <2>3, ListMoved
<1>4. CASE lpLists' = [lpLists EXCEPT ![k] = Fail(@)]
  <2> DEFINE n == Fail(lpLists[k])
  <2>1. n \in Entry(ListValues)
    BY <1>1, EntryKept
  <2>2. \A i \in DOMAIN lpCalls : Known(n, k = lpKey, ReadSince(lpCalls[i].at))
    BY <1>1, KnownMoved
  <2> HIDE DEF n
  <2>3. lpLists' = [lpLists EXCEPT ![k] = n]
    BY <1>4 DEF n
  <2> QED BY <1>1, <2>1, <2>2, <2>3, ListMoved
<1> QED BY <1>2, <1>3, <1>4 DEF LoadPage

LEMMA OverviewReloaded ==
    ASSUME SavesShown, RefreshOverview
    PROVE  SavesShown'
<1> DEFINE n == Reload(lpLists[lpKey])
<1>1. lpLists[lpKey] \in Entry(ListValues) /\ UNCHANGED <<lpKey, lpCalls, lpWrites>>
  BY DEF SavesShown, Cache, RefreshOverview, lpView, lpServer
<1>2. n \in Entry(ListValues) /\ \A good : Known(n, TRUE, good)
  BY <1>1, EntryKept, KnownMoved
<1> HIDE DEF n
<1>3. lpLists' = [lpLists EXCEPT ![lpKey] = n]
  BY DEF RefreshOverview, n
<1> QED BY <1>1, <1>2, <1>3, ListMoved DEF SavesShown

\* A success makes every list old, and loads the one in view.
LEMMA ListsDelivered ==
    ASSUME ListPagesInv, SavesShown, NEW i \in DOMAIN lpCalls, Delivered(i)
    PROVE  SavesShown'
<1> DEFINE c == lpCalls[i]
           lists == IF c.ok THEN InvalidatePages(lpLists, c) ELSE lpLists
<1>1. /\ UNCHANGED lpWrites
      /\ lpCalls' = [lpCalls EXCEPT ![i].state = "done"]
      /\ lpLists' = IF lpKey' = lpKey THEN lists ELSE Use(lists, lpKey')
  BY DEF Delivered, lpServer
<1>2. /\ DOMAIN lpCalls' = DOMAIN lpCalls
      /\ \A j \in DOMAIN lpCalls : /\ lpCalls'[j].at = lpCalls[j].at
                                   /\ Refreshed(lpCalls'[j]) =>
                                         Refreshed(lpCalls[j]) \/ (j = i /\ c.ok /\ c.kind # "password")
  BY <1>1, SavesTimed DEF ListPagesInv, Saving, Refreshed
<1>3. /\ Cache(lists, ListValues) /\ DOMAIN lists = DOMAIN lpLists
      /\ \A j \in DOMAIN lpCalls, k \in DOMAIN lists :
            Refreshed(lpCalls'[j]) => Known(lists[k], k = lpKey, ReadSince(lpCalls[j].at))
  <2>1. CASE lists = lpLists /\ ~(c.ok /\ c.kind # "password")
    BY <1>2, <2>1 DEF SavesShown
  <2>2. CASE lists = [k \in DOMAIN lpLists |-> Invalidate(lpLists[k], k = lpKey)]
    <3>1. \A k \in DOMAIN lpLists : lists[k] = Invalidate(lpLists[k], k = lpKey)
      BY <2>2
    <3>2. \A k \in DOMAIN lpLists : lists[k] \in Entry(ListValues) /\ \A good : Known(lists[k], k = lpKey, good)
      <4> TAKE k \in DOMAIN lpLists
      <4>1. lpLists[k] \in Entry(ListValues) /\ (k = lpKey) \in BOOLEAN
        BY DEF SavesShown, Cache
      <4> HIDE DEF lists
      <4> QED BY <3>1, <4>1, EntryKept, KnownInvalidated
    <3>3. lists = [k \in DOMAIN lists |-> lists[k]] /\ DOMAIN lists = DOMAIN lpLists
      BY <2>2
    <3> HIDE DEF lists
    <3> QED BY <3>2, <3>3 DEF Cache
  <2> QED BY <2>1, <2>2 DEF InvalidatePages
<1> HIDE DEF lists, c
<1>4. CASE lpKey' = lpKey
  BY <1>1, <1>2, <1>3, <1>4 DEF SavesShown
<1>5. CASE lpKey' # lpKey
  <2>1. lpLists' = Use(lists, lpKey')
    BY <1>1, <1>5
  <2>2. lpKey' \in DOMAIN lpLists' /\ Cache(lpLists', ListValues)
    <3>1. DOMAIN lpLists' = DOMAIN lists \cup {lpKey'}
      BY <2>1, KeyAdded
    <3>2. Cache(Use(lists, lpKey'), ListValues)
      BY <1>3, KeyCached
    <3> QED BY <2>1, <3>1, <3>2
  <2>3. ASSUME NEW j \in DOMAIN lpCalls, Refreshed(lpCalls'[j]), NEW k \in DOMAIN lpLists'
        PROVE  Known(lpLists'[k], k = lpKey', ReadSince(lpCalls[j].at))
    <3>1. k \in DOMAIN lists => Known(lists[k], FALSE, ReadSince(lpCalls[j].at))
      BY <1>3, <2>3 DEF Known
    <3> QED BY <1>3, <2>1, <3>1, KeyKnown
  <2> QED BY <1>1, <1>2, <2>2, <2>3 DEF SavesShown
<1> QED BY <1>4, <1>5

\* Of all the steps of a list page only these touch a list or a call.
LEMMA ListSteps ==
    ASSUME ListPagesNext
    PROVE  \/ UNCHANGED <<lpKey, lpLists, lpCalls>> /\ (UNCHANGED lpWrites \/ \E r \in Records : WriteElsewhere(r))
           \/ (\E kind, id, from, value : Send(kind, id, from, value)) /\ UNCHANGED <<lpKey, lpLists, lpWrites>>
           \/ (\E key : Turn(key)) \/ (\E editor : ArriveWith(editor))
           \/ (\E k \in DOMAIN lpLists : LoadPage(k)) \/ RefreshOverview
           \/ \E i \in DOMAIN lpCalls : Serve(i) \/ Delivered(i)
<1> DEFINE Still == UNCHANGED <<lpKey, lpLists, lpCalls>>
                    /\ (UNCHANGED lpWrites \/ \E r \in Records : WriteElsewhere(r))
           Sends == (\E kind, id, from, value : Send(kind, id, from, value)) /\ UNCHANGED <<lpKey, lpLists, lpWrites>>
<1>1. ASSUME NEW f, \/ FilterAgents(f) \/ FilterSubAdmins(f) \/ SearchCustomers(f) \/ FilterSubscriptions(f)
                    \/ FilterScripts(f) \/ FilterAgentCustomers(f) \/ FilterOverview(f)
      PROVE  \E key : Turn(key)
  BY <1>1 DEF FilterAgents, FilterSubAdmins, SearchCustomers, FilterSubscriptions, FilterScripts,
              FilterAgentCustomers, FilterOverview, FilterList
<1>2. ASSUME NEW p, TurnPage(p) PROVE \E key : Turn(key)
  BY <1>2 DEF TurnPage
<1>3. CASE Revisit \/ ArriveFromRegistration
  BY <1>3 DEF Revisit, ArriveFromRegistration
<1>4. ASSUME NEW r \in Records, \/ EditAgent(r) \/ EditSubAdmin(r) \/ QuickView(r)
                                \/ ResetAgentPassword(r) \/ ResetSubAdminPassword(r)
                                \/ OpenRenew(r) \/ OpenRevoke(r) \/ WriteElsewhere(r)
      PROVE  Still
  BY <1>4 DEF EditAgent, EditSubAdmin, QuickView, ResetAgentPassword, ResetSubAdminPassword, OpenRenew,
              OpenRevoke, WriteElsewhere, OpenEditor, SetQuick, OpenReset, SetReset, SetRenew, SetRevoke,
              lpView, lpServer
<1>5. ASSUME \/ CreateAgent \/ CreateSubAdmin \/ FillEditor \/ CancelAgent \/ DismissEditor \/ OpenCreate
             \/ CloseCreate \/ CloseQuickView \/ TypePassword \/ CloseReset \/ CloseRenew \/ CloseRevoke
      PROVE  Still
  BY <1>5 DEF CreateAgent, CreateSubAdmin, FillEditor, CancelAgent, DismissEditor, OpenCreate, CloseCreate,
              CloseQuickView, TypePassword, CloseReset, CloseRenew, CloseRevoke, OpenEditor, SetEditor, SetQuick,
              SetReset, SetRenew, SetRevoke, lpView, lpServer
<1>6. ASSUME SaveAgent \/ SaveSubAdmin \/ SaveCustomer \/ SaveAgentCustomer \/ GrantSubscription
      PROVE  Sends
  <2>1. SaveEditor
    BY <1>6 DEF SaveAgent, SaveSubAdmin, SaveCustomer, SaveAgentCustomer, GrantSubscription
  <2> QED BY <2>1 DEF SaveEditor, lpView, lpServer
<1>7. ASSUME SubmitPassword \/ SubmitRenew \/ ConfirmRevoke \/ SyncScripts \/ SyncOverview
      PROVE  Sends
  BY <1>7 DEF SubmitPassword, SubmitRenew, ConfirmRevoke, SyncScripts, SyncOverview, Sync, lpView, lpServer
<1>8. ASSUME NEW r \in Records, ToggleScript(r) PROVE Sends
  BY <1>8 DEF ToggleScript, lpView, lpServer
<1> QED BY <1>1, <1>2, <1>3, <1>4, <1>5, <1>6, <1>7, <1>8 DEF ListPagesNext

LEMMA ListsStepped ==
    ASSUME ListPagesInv, SavesShown, [ListPagesNext]_listVars
    PROVE  SavesShown'
<1>1. CASE UNCHANGED listVars
  BY <1>1, ListsLeft DEF listVars, lpView, lpServer, SavesShown
<1>2. CASE UNCHANGED <<lpKey, lpLists, lpCalls, lpWrites>>
  BY <1>2, ListsLeft DEF SavesShown
<1>3. ASSUME NEW r \in Records, WriteElsewhere(r) PROVE SavesShown'
  <2>1. \A i \in DOMAIN lpCalls : lpCalls[i].at <= lpWrites'
    BY <1>3, SavesTimed DEF WriteElsewhere, SavesShown
  <2> QED BY <1>3, <2>1, ListsLeft DEF WriteElsewhere, lpView
<1>4. ASSUME NEW kind, NEW id, NEW from, NEW value, Send(kind, id, from, value),
             UNCHANGED <<lpKey, lpLists, lpWrites>>
      PROVE  SavesShown'
  BY <1>4, ListsSent
<1>5. ASSUME NEW key, Turn(key) PROVE SavesShown'
  BY <1>5, ListsTurned DEF Turn, lpServer
<1>6. ASSUME NEW editor, ArriveWith(editor) PROVE SavesShown'
  BY <1>6, ListsTurned DEF ArriveWith, lpServer
<1>7. ASSUME NEW k \in DOMAIN lpLists, LoadPage(k) PROVE SavesShown'
  BY <1>7, ListLoaded
<1>8. CASE RefreshOverview
  BY <1>8, OverviewReloaded
<1>9. ASSUME NEW i \in DOMAIN lpCalls, Serve(i) \/ Delivered(i) PROVE SavesShown'
  BY <1>9, ListsServed, ListsDelivered
<1> QED BY <1>1, <1>2, <1>3, <1>4, <1>5, <1>6, <1>7, <1>8, <1>9, ListSteps

\* For any records, pages, late answers and writes of others: the list in
\* view knows of every write of this tab that succeeded.
LEMMA ListsCorrect == ListPagesSpec => []OwnSaveShown
<1>1. SavesShown => OwnSaveShown
  BY DEF SavesShown, OwnSaveShown, Refreshed, ReadSince, Known, ListNow
<1> QED BY <1>1, ListInitially, ListStepped, ListsInitially, ListsStepped, PTL DEF ListPagesSpec

\* ---- the review pages

Statuses == {"pending", "approved", "rejected", "cancelled"}
ReviewValues == [rows : SUBSET [id : Requests, status : Statuses], total : Nat]
RequestValues == [status : Statuses, reason : Requests \cup {0}]
NotOffering(r) == {v \in ReviewValues : [id |-> r, status |-> "pending"] \notin v.rows}
Decided == {v \in RequestValues : v.status # "pending"}

Succeeded(c) == c.state = "done" /\ c.ok
ListUsed(k) == rvRoute = 0 /\ k = rvKey

ReviewCaches ==
    /\ rvKey \in DOMAIN rvLists /\ FirstKey \in DOMAIN rvLists /\ Cache(rvLists, ReviewValues)
    /\ DOMAIN rvDetails \subseteq Requests /\ Cache(rvDetails, RequestValues)
    /\ rvRoute # 0 => rvRoute \in DOMAIN rvDetails

\* What a call decided stays decided, and what it made old is known to be so.
DecisionsStand == \A i \in DOMAIN rvCalls : \A r \in rvCalls[i].did : request[r].status # "pending"
ListsDecided == \A i \in DOMAIN rvCalls : Succeeded(rvCalls[i]) =>
                    \A r \in rvCalls[i].did : \A k \in DOMAIN rvLists : Known(rvLists[k], ListUsed(k), NotOffering(r))
DetailsDecided == \A i \in DOMAIN rvCalls : Succeeded(rvCalls[i]) =>
                      \A r \in rvCalls[i].did \cap DOMAIN rvDetails :
                          rvCalls[i].route = r => Known(rvDetails[r], rvRoute = r, Decided)

DecisionsShown == ReviewCaches /\ DecisionsStand /\ ListsDecided /\ DetailsDecided

LEMMA DecisionsInitially == ReviewInit => DecisionsShown
<1> SUFFICES ASSUME ReviewInit PROVE DecisionsShown
  OBVIOUS
<1>1. Cache(<<>>, ReviewValues) /\ Cache(<<>>, RequestValues) /\ DOMAIN <<>> = {}
  BY DEF Cache
<1>2. rvLists = Use(<<>>, FirstKey) /\ rvKey = FirstKey /\ rvDetails = <<>> /\ rvRoute = 0 /\ rvCalls = <<>>
  BY DEF ReviewInit
<1>3. Cache(rvLists, ReviewValues)
  BY <1>1, <1>2, KeyCached
<1>4. DOMAIN rvLists = DOMAIN <<>> \cup {FirstKey}
  BY <1>2, KeyAdded
<1> QED BY <1>1, <1>2, <1>3, <1>4
        DEF DecisionsShown, ReviewCaches, DecisionsStand, ListsDecided, DetailsDecided

LEMMA DecisionTyped ==
    ASSUME ReviewInv, NEW i \in DOMAIN rvCalls
    PROVE  rvCalls[i] \in Decision /\ rvCalls[i].did \subseteq Requests
<1>1. rvCalls[i] \in Decision
  BY DEF ReviewInv
<1> QED BY <1>1 DEF Decision

LEMMA ListingRead ==
    ASSUME ReviewInv, NEW key
    PROVE  /\ Listing(key) \in ReviewValues
           /\ \A r \in Requests : request[r].status # "pending" => Listing(key) \in NotOffering(r)
<1> DEFINE match == Matching(key.filter)
           rank(r) == Cardinality({q \in match : q >= r})
           first == (key.page - 1) * key.size
           listed == {q \in match : rank(q) \in first + 1 .. first + key.size}
           row(r) == [id |-> r, status |-> request[r].status]
           rows == {row(r) : r \in listed}
<1>1. Listing(key) = [rows |-> rows, total |-> Cardinality(match)]
  BY DEF Listing
<1>2. match \subseteq Requests /\ listed \subseteq Requests
  BY DEF Matching
<1>3. Cardinality(match) \in Nat
  BY <1>2, Counted, ReviewAssumption
<1>4. \A r \in Requests : row(r) \in [id : Requests, status : Statuses]
  BY DEF ReviewInv, Statuses
<1>5. \A q \in Requests, r \in Requests :
        row(q) = [id |-> r, status |-> "pending"] => request[r].status = "pending"
  OBVIOUS
<1> HIDE DEF match, listed, row
<1>6. /\ rows \in SUBSET [id : Requests, status : Statuses]
      /\ \A r \in Requests : request[r].status # "pending" => [id |-> r, status |-> "pending"] \notin rows
  BY <1>2, <1>4, <1>5
<1> HIDE DEF rows
<1> QED BY <1>1, <1>3, <1>6 DEF ReviewValues, NotOffering

\* Pages, caches and the database stay; no call has an answer or an effect
\* that had none.
LEMMA DecisionsLeft ==
    ASSUME DecisionsShown, UNCHANGED <<request, rvRoute, rvKey, rvLists, rvDetails>>,
           \A i \in DOMAIN rvCalls' : rvCalls'[i].did = {} \/ (i \in DOMAIN rvCalls /\ rvCalls'[i] = rvCalls[i])
    PROVE  DecisionsShown'
BY DEF DecisionsShown, ReviewCaches, DecisionsStand, ListsDecided, DetailsDecided, ListUsed

LEMMA DecisionsSent ==
    ASSUME ReviewInv, DecisionsShown, NEW kind, NEW ids, SendDecision(kind, ids),
           UNCHANGED <<request, rvRoute, rvKey, rvLists, rvDetails>>
    PROVE  DecisionsShown'
<1> DEFINE c == [kind |-> kind, ids |-> ids, reason |-> rvReason, route |-> rvRoute,
                 mount |-> rvMount, state |-> "sent", ok |-> FALSE, did |-> {}]
<1>1. rvCalls' = Append(rvCalls, c) /\ c.did = {}
  BY DEF SendDecision
<1> HIDE DEF c
<1>2. \A i \in DOMAIN rvCalls' : (i \in DOMAIN rvCalls /\ rvCalls'[i] = rvCalls[i]) \/ rvCalls'[i] = c
  <2>1. rvCalls \in Seq(Decision \cup {c}) /\ c \in Decision \cup {c}
    BY DEF ReviewInv
  <2> QED BY <1>1, <2>1, EntryAdded
<1> QED BY <1>1, <1>2, DecisionsLeft

\* The database or the calls change: no request becomes pending again.
LEMMA DecisionsTaken ==
    ASSUME ReviewInv, DecisionsShown, UNCHANGED <<rvRoute, rvKey, rvLists, rvDetails>>,
           \A r \in Requests : request[r].status # "pending" => request'[r].status # "pending",
           \A i \in DOMAIN rvCalls' :
               i \in DOMAIN rvCalls /\ \/ rvCalls'[i] = rvCalls[i]
                                       \/ /\ rvCalls'[i].state = "answered"
                                          /\ \A r \in rvCalls'[i].did : request'[r].status # "pending"
    PROVE  DecisionsShown'
<1>1. \A i \in DOMAIN rvCalls : rvCalls[i].did \subseteq Requests
  BY DecisionTyped
<1>2. DecisionsStand'
  BY <1>1 DEF DecisionsShown, DecisionsStand
<1> QED BY <1>2 DEF DecisionsShown, ReviewCaches, ListsDecided, DetailsDecided, ListUsed, Succeeded

LEMMA DecisionsMade ==
    ASSUME ReviewInv, DecisionsShown, NEW i \in DOMAIN rvCalls, Decide(i)
    PROVE  DecisionsShown'
<1> DEFINE did == {r \in rvCalls[i].ids : request[r].status = "pending"}
<1>1. PICK ok : rvCalls' = [rvCalls EXCEPT ![i].state = "answered", ![i].did = did, ![i].ok = ok]
  BY DEF Decide
<1>2. request' = [r \in Requests |->
                    IF r \notin did THEN request[r]
                    ELSE IF rvCalls[i].kind = "reject" THEN [status |-> "rejected", reason |-> rvCalls[i].reason]
                    ELSE [request[r] EXCEPT !.status = "approved"]]
  BY DEF Decide
<1>3. rvCalls[i] \in Decision /\ did \subseteq Requests
  BY DecisionTyped DEF Decision
<1> HIDE DEF did
<1>4. \A r \in Requests : request[r] \in RequestValues
  BY DEF ReviewInv, RequestValues, Statuses
<1>5. \A r \in Requests : /\ request[r].status # "pending" => request'[r].status # "pending"
                          /\ r \in did => request'[r].status # "pending"
  BY <1>2, <1>4 DEF RequestValues
<1>6. /\ DOMAIN rvCalls' = DOMAIN rvCalls
      /\ \A j \in DOMAIN rvCalls : j # i => rvCalls'[j] = rvCalls[j]
      /\ rvCalls'[i].state = "answered" /\ rvCalls'[i].did = did
  BY <1>1, <1>3 DEF ReviewInv, Decision
<1> QED BY <1>3, <1>5, <1>6, DecisionsTaken DEF Decide, pageState

LEMMA DecidedElsewhere ==
    ASSUME ReviewInv, DecisionsShown, NEW r \in Requests, DecideElsewhere(r)
    PROVE  DecisionsShown'
<1>1. \A q \in Requests : request[q] \in RequestValues
  BY DEF ReviewInv, RequestValues, Statuses
<1>2. \A q \in Requests : request[q].status # "pending" => request'[q].status # "pending"
  BY <1>1 DEF DecideElsewhere, RequestValues, ReviewInv
<1> QED BY <1>2, DecisionsTaken DEF DecideElsewhere, pageState

\* The list turns to another key.
LEMMA ReviewTurned ==
    ASSUME ReviewInv, DecisionsShown, NEW key, TurnTo(key), rvRoute = 0
    PROVE  DecisionsShown'
<1>1. UNCHANGED <<request, rvRoute, rvDetails, rvCalls>> /\ rvKey' = key /\ rvLists' = Use(rvLists, key)
  BY DEF TurnTo
<1>2. DOMAIN rvLists' = DOMAIN rvLists \cup {key}
  BY <1>1, KeyAdded
<1>3. Cache(rvLists', ReviewValues)
  BY <1>1, KeyCached DEF DecisionsShown, ReviewCaches
<1>4. ASSUME NEW i \in DOMAIN rvCalls, Succeeded(rvCalls[i]), NEW r \in rvCalls[i].did, NEW k \in DOMAIN rvLists'
      PROVE  Known(rvLists'[k], k = key, NotOffering(r))
  <2>1. k \in DOMAIN rvLists => Known(rvLists[k], FALSE, NotOffering(r))
    BY <1>4 DEF DecisionsShown, ListsDecided, Known
  <2> QED BY <1>1, <2>1, KeyKnown DEF DecisionsShown, ReviewCaches
<1> QED BY <1>1, <1>2, <1>3, <1>4
        DEF DecisionsShown, ReviewCaches, DecisionsStand, ListsDecided, DetailsDecided, ListUsed

\* A page is left for another: its queries are not in use any more.
LEMMA DetailOpened ==
    ASSUME ReviewInv, DecisionsShown, NEW r \in Requests, OpenDetail(r)
    PROVE  DecisionsShown'
<1>1. /\ UNCHANGED <<request, rvLists, rvCalls>> /\ rvKey' = FirstKey /\ rvRoute' = r
      /\ rvDetails' = Use(rvDetails, r) /\ r # 0
  BY ReviewAssumption DEF OpenDetail, Mount
<1>2. DOMAIN rvDetails' = DOMAIN rvDetails \cup {r}
  BY <1>1, KeyAdded
<1>3. Cache(rvDetails', RequestValues)
  BY <1>1, KeyCached DEF DecisionsShown, ReviewCaches
<1>4. ASSUME NEW i \in DOMAIN rvCalls, Succeeded(rvCalls[i]),
             NEW q \in rvCalls[i].did \cap DOMAIN rvDetails', rvCalls[i].route = q
      PROVE  Known(rvDetails'[q], rvRoute' = q, Decided)
  <2>1. q \in DOMAIN rvDetails => Known(rvDetails[q], FALSE, Decided)
    BY <1>4 DEF DecisionsShown, DetailsDecided, Known
  <2>2. Known(rvDetails'[q], q = r, Decided)
    BY <1>1, <2>1, KeyKnown DEF DecisionsShown, ReviewCaches
  <2> QED BY <1>1, <2>2 DEF Known
<1>5. ASSUME NEW i \in DOMAIN rvCalls, Succeeded(rvCalls[i]), NEW q \in rvCalls[i].did, NEW k \in DOMAIN rvLists
      PROVE  Known(rvLists[k], ListUsed(k)', NotOffering(q))
  BY <1>1, <1>5 DEF DecisionsShown, ListsDecided, ListUsed, Known
<1> QED BY <1>1, <1>2, <1>3, <1>4, <1>5 DEF DecisionsShown, ReviewCaches, DecisionsStand, ListsDecided, DetailsDecided

LEMMA ListOpened ==
    ASSUME ReviewInv, DecisionsShown, OpenList
    PROVE  DecisionsShown'
<1>1. /\ UNCHANGED <<request, rvDetails, rvCalls>> /\ rvKey' = FirstKey /\ rvRoute' = 0
      /\ rvLists' = Use(rvLists, FirstKey)
  BY DEF OpenList, Mount
<1>2. DOMAIN rvLists' = DOMAIN rvLists \cup {FirstKey}
  BY <1>1, KeyAdded
<1>3. Cache(rvLists', ReviewValues)
  BY <1>1, KeyCached DEF DecisionsShown, ReviewCaches
<1>4. ASSUME NEW i \in DOMAIN rvCalls, Succeeded(rvCalls[i]), NEW r \in rvCalls[i].did, NEW k \in DOMAIN rvLists'
      PROVE  Known(rvLists'[k], k = FirstKey, NotOffering(r))
  <2>1. k \in DOMAIN rvLists => Known(rvLists[k], FALSE, NotOffering(r))
    BY <1>4 DEF DecisionsShown, ListsDecided, Known
  <2> QED BY <1>1, <2>1, KeyKnown DEF DecisionsShown, ReviewCaches
<1>5. ASSUME NEW i \in DOMAIN rvCalls, Succeeded(rvCalls[i]),
             NEW q \in rvCalls[i].did \cap DOMAIN rvDetails, rvCalls[i].route = q
      PROVE  Known(rvDetails[q], rvRoute' = q, Decided)
  <2>1. q # 0
    BY DecisionTyped, ReviewAssumption
  <2> QED BY <1>1, <1>5, <2>1 DEF DecisionsShown, DetailsDecided, Known
<1> QED BY <1>1, <1>2, <1>3, <1>4, <1>5
        DEF DecisionsShown, ReviewCaches, DecisionsStand, ListsDecided, DetailsDecided, ListUsed

\* One list, or one request, is loaded.
LEMMA ReviewListMoved ==
    ASSUME DecisionsShown, UNCHANGED <<request, rvRoute, rvKey, rvCalls, rvDetails>>, NEW k \in DOMAIN rvLists,
           NEW n \in Entry(ReviewValues), rvLists' = [rvLists EXCEPT ![k] = n],
           \A i \in DOMAIN rvCalls : \A r \in rvCalls[i].did :
               Known(rvLists[k], ListUsed(k), NotOffering(r)) => Known(n, ListUsed(k), NotOffering(r))
    PROVE  DecisionsShown'
<1>1. /\ Cache(rvLists', ReviewValues) /\ DOMAIN rvLists' = DOMAIN rvLists
      /\ \A j \in DOMAIN rvLists : rvLists'[j] = IF j = k THEN n ELSE rvLists[j]
  BY EntryStepped DEF DecisionsShown, ReviewCaches
<1>2. \A j \in DOMAIN rvLists : ListUsed(j)' = ListUsed(j)
  BY DEF ListUsed
<1> QED BY <1>1, <1>2 DEF DecisionsShown, ReviewCaches, DecisionsStand, ListsDecided, DetailsDecided

LEMMA ReviewDetailMoved ==
    ASSUME DecisionsShown, UNCHANGED <<request, rvRoute, rvKey, rvCalls, rvLists>>, NEW r \in DOMAIN rvDetails,
           NEW n \in Entry(RequestValues), rvDetails' = [rvDetails EXCEPT ![r] = n],
           \A i \in DOMAIN rvCalls : r \in rvCalls[i].did /\ Known(rvDetails[r], rvRoute = r, Decided)
                                         => Known(n, rvRoute = r, Decided)
    PROVE  DecisionsShown'
<1>1. /\ Cache(rvDetails', RequestValues) /\ DOMAIN rvDetails' = DOMAIN rvDetails
      /\ \A j \in DOMAIN rvDetails : rvDetails'[j] = IF j = r THEN n ELSE rvDetails[j]
  BY EntryStepped DEF DecisionsShown, ReviewCaches
<1>2. \A j \in DOMAIN rvLists : ListUsed(j)' = ListUsed(j)
  BY DEF ListUsed
<1> QED BY <1>1, <1>2 DEF DecisionsShown, ReviewCaches, DecisionsStand, ListsDecided, DetailsDecided

LEMMA ReviewListLoaded ==
    ASSUME ReviewInv, DecisionsShown, NEW k \in DOMAIN rvLists, LoadList(k)
    PROVE  DecisionsShown'
<1>1. /\ rvLists[k] \in Entry(ReviewValues) /\ UNCHANGED <<request, rvRoute, rvKey, rvCalls, rvDetails>>
      /\ ListUsed(k) \in BOOLEAN
  BY DEF DecisionsShown, ReviewCaches, Cache, LoadList, pageState, ListUsed
<1>2. CASE rvLists' = [rvLists EXCEPT ![k] = Answer(@, Listing(k))]
  <2> DEFINE n == Answer(rvLists[k], Listing(k))
  <2>1. n \in Entry(ReviewValues)
    BY <1>1, ListingRead, EntryKept
  <2>2. \A i \in DOMAIN rvCalls : \A r \in rvCalls[i].did : Listing(k) \in NotOffering(r)
    BY ListingRead, DecisionTyped DEF DecisionsShown, DecisionsStand
  <2>3. \A i \in DOMAIN rvCalls : \A r \in rvCalls[i].did : Known(n, ListUsed(k), NotOffering(r))
    BY <1>1, <2>2, KnownMoved
  <2> HIDE DEF n
  <2>4. rvLists' = [rvLists EXCEPT ![k] = n]
    BY <1>2 DEF n
  <2> QED BY <1>1, <2>1, <2>3, <2>4, ReviewListMoved
<1>3. CASE rvLists[k].load = "answered" /\ rvLists' = [rvLists EXCEPT ![k] = Arrive(@)]
  <2> DEFINE n == Arrive(rvLists[k])
  <2>1. n \in Entry(ReviewValues)
    BY <1>1, EntryKept
  <2>2. \A good : Known(rvLists[k], ListUsed(k), good) => Known(n, ListUsed(k), good)
    BY <1>1, <1>3, KnownMoved
  <2> HIDE DEF n
  <2>3. rvLists' = [rvLists EXCEPT ![k] = n]
    BY <1>3 DEF n
  <2> QED BY <1>1, <2>1, <2>2, <2>3, ReviewListMoved
<1>4. CASE rvLists' = [rvLists EXCEPT ![k] = Fail(@)]
  <2> DEFINE n == Fail(rvLists[k])
  <2>1. n \in Entry(ReviewValues)
    BY <1>1, EntryKept
  <2>2. \A good : Known(n, ListUsed(k), good)
    BY <1>1, KnownMoved
  <2> HIDE DEF n
  <2>3. rvLists' = [rvLists EXCEPT ![k] = n]
    BY <1>4 DEF n
  <2> QED BY <1>1, <2>1, <2>2, <2>3, ReviewListMoved
<1> QED BY <1>2, <1>3, <1>4 DEF LoadList

LEMMA ReviewDetailLoaded ==
    ASSUME ReviewInv, DecisionsShown, NEW r \in DOMAIN rvDetails, LoadDetail(r)
    PROVE  DecisionsShown'
<1>1. /\ rvDetails[r] \in Entry(RequestValues) /\ UNCHANGED <<request, rvRoute, rvKey, rvCalls, rvLists>>
      /\ (rvRoute = r) \in BOOLEAN /\ r \in Requests
  BY DEF DecisionsShown, ReviewCaches, Cache, LoadDetail, pageState
<1>2. CASE rvDetails' = [rvDetails EXCEPT ![r] = Answer(@, request[r])]
  <2> DEFINE n == Answer(rvDetails[r], request[r])
  <2>1. request[r] \in RequestValues
    BY <1>1 DEF ReviewInv, RequestValues, Statuses
  <2>2. n \in Entry(RequestValues)
    BY <1>1, <2>1, EntryKept
  <2>3. \A i \in DOMAIN rvCalls : r \in rvCalls[i].did => request[r] \in Decided
    BY <2>1 DEF DecisionsShown, DecisionsStand, Decided
  <2>4. \A i \in DOMAIN rvCalls : r \in rvCalls[i].did => Known(n, rvRoute = r, Decided)
    BY <1>1, <2>3, KnownMoved
  <2> HIDE DEF n
  <2>5. rvDetails' = [rvDetails EXCEPT ![r] = n]
    BY <1>2 DEF n
  <2> QED BY <1>1, <2>2, <2>4, <2>5, ReviewDetailMoved
<1>3. CASE rvDetails[r].load = "answered" /\ rvDetails' = [rvDetails EXCEPT ![r] = Arrive(@)]
  <2> DEFINE n == Arrive(rvDetails[r])
  <2>1. n \in Entry(RequestValues)
    BY <1>1, EntryKept
  <2>2. Known(rvDetails[r], rvRoute = r, Decided) => Known(n, rvRoute = r, Decided)
    BY <1>1, <1>3, KnownMoved
  <2> HIDE DEF n
  <2>3. rvDetails' = [rvDetails EXCEPT ![r] = n]
    BY <1>3 DEF n
  <2> QED BY <1>1, <2>1, <2>2, <2>3, ReviewDetailMoved
<1>4. CASE rvDetails' = [rvDetails EXCEPT ![r] = Fail(@)]
  <2> DEFINE n == Fail(rvDetails[r])
  <2>1. n \in Entry(RequestValues)
    BY <1>1, EntryKept
  <2>2. Known(n, rvRoute = r, Decided)
    BY <1>1, KnownMoved
  <2> HIDE DEF n
  <2>3. rvDetails' = [rvDetails EXCEPT ![r] = n]
    BY <1>4 DEF n
  <2> QED BY <1>1, <2>1, <2>2, <2>3, ReviewDetailMoved
<1> QED BY <1>2, <1>3, <1>4 DEF LoadDetail

LEMMA DetailRefetched ==
    ASSUME ReviewInv, DecisionsShown, RefetchDetail
    PROVE  DecisionsShown'
<1> DEFINE n == Reload(rvDetails[rvRoute])
<1>1. /\ UNCHANGED <<request, rvRoute, rvKey, rvCalls, rvLists>> /\ rvRoute \in DOMAIN rvDetails
      /\ rvDetails[rvRoute] \in Entry(RequestValues)
  BY DEF DecisionsShown, ReviewCaches, Cache, RefetchDetail, pageState
<1>2. n \in Entry(RequestValues) /\ Known(n, TRUE, Decided)
  BY <1>1, EntryKept, KnownMoved
<1> HIDE DEF n
<1>3. rvDetails' = [rvDetails EXCEPT ![rvRoute] = n]
  BY DEF RefetchDetail, n
<1> QED BY <1>1, <1>2, <1>3, ReviewDetailMoved

\* A success makes the lists and the request of its page old.
LEMMA DecisionDelivered ==
    ASSUME ReviewInv, DecisionsShown, NEW i \in DOMAIN rvCalls, Deliver(i)
    PROVE  DecisionsShown'
<1> DEFINE c == rvCalls[i]
<1>1. /\ UNCHANGED <<request, rvRoute, rvKey>>
      /\ rvCalls' = [rvCalls EXCEPT ![i].state = "done"]
      /\ rvLists' = IF c.ok THEN InvalidateLists(rvLists) ELSE rvLists
      /\ rvDetails' = IF c.ok /\ c.route # 0 THEN InvalidateDetail(rvDetails, c.route) ELSE rvDetails
  BY DEF Deliver
<1>2. /\ DOMAIN rvCalls' = DOMAIN rvCalls
      /\ \A j \in DOMAIN rvCalls : /\ rvCalls'[j].did = rvCalls[j].did /\ rvCalls'[j].route = rvCalls[j].route
                                   /\ Succeeded(rvCalls'[j]) => Succeeded(rvCalls[j]) \/ (j = i /\ c.ok)
  BY <1>1, DecisionTyped DEF ReviewInv, Decision, Succeeded
<1>3. \A j \in DOMAIN rvCalls : rvCalls[j].did \subseteq Requests
  BY DecisionTyped
<1> HIDE DEF c
<1>4. /\ Cache(rvLists', ReviewValues) /\ DOMAIN rvLists' = DOMAIN rvLists
      /\ IF c.ok THEN \A good : \A k \in DOMAIN rvLists : Known(rvLists'[k], ListUsed(k), good)
         ELSE rvLists' = rvLists
  <2>1. CASE c.ok
    <3>1. rvLists' = [k \in DOMAIN rvLists |-> Invalidate(rvLists[k], ListUsed(k))]
      BY <1>1, <2>1 DEF InvalidateLists, ListUsed
    <3>2. \A k \in DOMAIN rvLists : rvLists'[k] \in Entry(ReviewValues) /\ \A good : Known(rvLists'[k], ListUsed(k), good)
      <4> TAKE k \in DOMAIN rvLists
      <4>1. rvLists[k] \in Entry(ReviewValues) /\ ListUsed(k) \in BOOLEAN
        BY DEF DecisionsShown, ReviewCaches, Cache, ListUsed
      <4>2. rvLists'[k] = Invalidate(rvLists[k], ListUsed(k))
        BY <3>1
      <4> QED BY <4>1, <4>2, EntryKept, KnownInvalidated
    <3>3. DOMAIN rvLists' = DOMAIN rvLists /\ rvLists' = [k \in DOMAIN rvLists' |-> rvLists'[k]]
      BY <3>1
    <3> QED BY <2>1, <3>2, <3>3 DEF Cache
  <2>2. CASE ~c.ok
    BY <1>1, <2>2 DEF DecisionsShown, ReviewCaches
  <2> QED BY <2>1, <2>2
<1>5. /\ Cache(rvDetails', RequestValues) /\ DOMAIN rvDetails' = DOMAIN rvDetails
      /\ \A r \in DOMAIN rvDetails : \A good :
            \/ c.ok /\ c.route = r /\ Known(rvDetails'[r], rvRoute = r, good)
            \/ rvDetails'[r] = rvDetails[r] /\ ~(c.ok /\ c.route = r)
  <2>1. CASE c.ok /\ c.route # 0
    <3> DEFINE n == Invalidate(rvDetails[c.route], rvRoute = c.route)
    <3>1. c.route \in DOMAIN rvDetails => /\ n \in Entry(RequestValues)
                                          /\ \A good : Known(n, rvRoute = c.route, good)
      <4> SUFFICES ASSUME c.route \in DOMAIN rvDetails
                   PROVE  n \in Entry(RequestValues) /\ \A good : Known(n, rvRoute = c.route, good)
        OBVIOUS
      <4>1. rvDetails[c.route] \in Entry(RequestValues) /\ (rvRoute = c.route) \in BOOLEAN
        BY DEF DecisionsShown, ReviewCaches, Cache
      <4> QED BY <4>1, EntryKept, KnownInvalidated
    <3> HIDE DEF n
    <3>2. rvDetails' = [rvDetails EXCEPT ![c.route] = n]
      BY <1>1, <2>1 DEF InvalidateDetail, n
    <3>3. Cache(rvDetails, RequestValues)
      BY DEF DecisionsShown, ReviewCaches
    <3>4. /\ Cache(rvDetails', RequestValues) /\ DOMAIN rvDetails' = DOMAIN rvDetails
          /\ \A r \in DOMAIN rvDetails : rvDetails'[r] = IF r = c.route THEN n ELSE rvDetails[r]
      BY <3>1, <3>2, <3>3, EntryStepped
    <3> QED BY <2>1, <3>1, <3>4
  <2>2. CASE ~(c.ok /\ c.route # 0)
    BY <1>1, <2>2, ReviewAssumption DEF DecisionsShown, ReviewCaches
  <2> QED BY <2>1, <2>2
<1>6. ReviewCaches' /\ DecisionsStand'
  BY <1>1, <1>2, <1>4, <1>5 DEF DecisionsShown, ReviewCaches, DecisionsStand
<1>7. ListsDecided'
  <2>1. \A k \in DOMAIN rvLists : ListUsed(k)' = ListUsed(k)
    BY <1>1 DEF ListUsed
  <2>2. ASSUME NEW j \in DOMAIN rvCalls, Succeeded(rvCalls'[j]), NEW r \in rvCalls[j].did, NEW k \in DOMAIN rvLists
        PROVE  Known(rvLists'[k], ListUsed(k), NotOffering(r))
    <3>1. CASE c.ok
      BY <1>4, <3>1
    <3>2. CASE ~c.ok
      BY <1>2, <1>4, <2>2, <3>2 DEF DecisionsShown, ListsDecided
    <3> QED BY <3>1, <3>2
  <2> QED BY <1>2, <1>4, <2>1, <2>2 DEF ListsDecided
<1>8. DetailsDecided'
  <2>1. ASSUME NEW j \in DOMAIN rvCalls, Succeeded(rvCalls'[j]),
               NEW r \in rvCalls[j].did \cap DOMAIN rvDetails, rvCalls[j].route = r
        PROVE  Known(rvDetails'[r], rvRoute = r, Decided)
    <3>1. CASE rvDetails'[r] = rvDetails[r] /\ ~(c.ok /\ c.route = r)
      <4>1. Succeeded(rvCalls[j])
        BY <1>2, <2>1, <3>1 DEF c
      <4> QED BY <2>1, <3>1, <4>1 DEF DecisionsShown, DetailsDecided
    <3> QED BY <1>5, <3>1
  <2> QED BY <1>1, <1>2, <1>5, <2>1 DEF DetailsDecided
<1> QED BY <1>6, <1>7, <1>8 DEF DecisionsShown

LEMMA DecisionsStepped ==
    ASSUME ReviewInv, DecisionsShown, [ReviewNext]_reviewVars
    PROVE  DecisionsShown'
<1> USE DEF pageState
<1>1. ASSUME UNCHANGED <<request, rvRoute, rvKey, rvLists, rvDetails, rvCalls>> PROVE DecisionsShown'
  BY <1>1, DecisionsLeft
<1>2. CASE UNCHANGED reviewVars
  BY <1>1, <1>2 DEF reviewVars
<1>3. ASSUME NEW r \in Requests, Tick(r) \/ OpenReject(r) PROVE DecisionsShown'
  BY <1>1, <1>3 DEF Tick, OpenReject
<1>4. CASE TypeReason \/ CloseReject
  BY <1>1, <1>4 DEF TypeReason, CloseReject
<1>5. ASSUME NEW r \in Requests, ApproveRow(r) PROVE DecisionsShown'
  BY <1>5, DecisionsSent DEF ApproveRow
<1>6. CASE ApproveBatch \/ ConfirmReject \/ ApproveDetail
  BY <1>6, DecisionsSent DEF ApproveBatch, ConfirmReject, ApproveDetail
<1>7. ASSUME NEW r \in Requests, OpenDetail(r) \/ DecideElsewhere(r) PROVE DecisionsShown'
  BY <1>7, DetailOpened, DecidedElsewhere
<1>8. ASSUME NEW r \in DOMAIN rvDetails, LoadDetail(r) PROVE DecisionsShown'
  BY <1>8, ReviewDetailLoaded
<1>9. ASSUME NEW k \in DOMAIN rvLists, LoadList(k) PROVE DecisionsShown'
  BY <1>9, ReviewListLoaded
<1>10. ASSUME NEW x, ChangeFilter(x) \/ ChangePage(x) \/ ChangePageSize(x) PROVE DecisionsShown'
  <2>1. rvRoute = 0 /\ \E key : TurnTo(key)
    BY <1>10 DEF ChangeFilter, ChangePage, ChangePageSize, BarOffers
  <2> QED BY <2>1, ReviewTurned
<1>11. ASSUME NEW i \in DOMAIN rvCalls, Decide(i) \/ Deliver(i) PROVE DecisionsShown'
  BY <1>11, DecisionsMade, DecisionDelivered
<1>12. CASE OpenList \/ RefetchDetail
  BY <1>12, ListOpened, DetailRefetched
<1> QED BY <1>2, <1>3, <1>4, <1>5, <1>6, <1>7, <1>8, <1>9, <1>10, <1>11, <1>12 DEF ReviewNext

\* For any requests, decisions, late answers and decisions of others: what a
\* decision of this tab took off the list is not offered any more.
LEMMA DecisionsCorrect == ReviewSpec => []OwnDecisionShown
<1>1. ASSUME ReviewInv, DecisionsShown PROVE OwnDecisionShown
  <2> SUFFICES ASSUME NEW i \in DOMAIN rvCalls, rvCalls[i].state = "done", rvCalls[i].ok, NEW r \in rvCalls[i].did
               PROVE  /\ rvRoute = 0 /\ Settled(ListEntry) => [id |-> r, status |-> "pending"] \notin Rows
                      /\ rvRoute = r /\ rvCalls[i].route = r /\ Settled(rvDetails[r]) =>
                             rvDetails[r].data.status # "pending"
    BY DEF OwnDecisionShown
  <2>1. r \in Requests /\ r # 0
    BY <1>1, DecisionTyped, ReviewAssumption
  <2>2. ASSUME rvRoute = 0, Settled(ListEntry) PROVE [id |-> r, status |-> "pending"] \notin Rows
    <3>1. Known(ListEntry, ListUsed(rvKey), NotOffering(r)) /\ ListUsed(rvKey)
      BY <1>1, <2>2 DEF DecisionsShown, ReviewCaches, ListsDecided, Succeeded, ListEntry, ListUsed
    <3>2. ListEntry.data \in NotOffering(r)
      BY <2>2, <3>1 DEF Known
    <3> QED BY <3>2 DEF Rows, NotOffering
  <2>3. ASSUME rvRoute = r, rvCalls[i].route = r, Settled(rvDetails[r])
        PROVE  rvDetails[r].data.status # "pending"
    BY <1>1, <2>1, <2>3 DEF DecisionsShown, ReviewCaches, DetailsDecided, Succeeded, Known, Decided
  <2> QED BY <2>2, <2>3
<1> QED BY <1>1, ReviewInitially, ReviewStepped, DecisionsInitially, DecisionsStepped, PTL DEF ReviewSpec

\* ---- an agent's requests

RequestStatuses == {"pending", "cancelled", "approved"}
RequestListValues == [rows : SUBSET [id : Nat, status : RequestStatuses], total : Nat]
CountingTo(n) == {v \in RequestListValues : v.total >= n}
Ended == RequestStatuses \ {"pending"}

RequestsUsed(k) == agRoute = "list" /\ k = agListKey
RequestUsed(r) == agRoute = "detail" /\ agShown = r

RequestCaches ==
    /\ agListKey \in DOMAIN agList /\ FirstRequests \in DOMAIN agList /\ Cache(agList, RequestListValues)
    /\ DOMAIN agDetails \subseteq DOMAIN agRequests /\ Cache(agDetails, RequestStatuses)
    /\ agRoute = "detail" => agShown \in DOMAIN agDetails
    /\ agCancel => agRoute = "detail"

\* What the calls of the tab made or cancelled.
CallStands(c, requests) ==
    /\ c.kind = "submit" /\ c.ok => c.about \in DOMAIN requests
    /\ c.kind = "cancel" => c.about \in DOMAIN requests
    /\ c.kind = "cancel" /\ c.ok => requests[c.about].status # "pending"
CallsStand == \A i \in DOMAIN agCalls : CallStands(agCalls[i], agRequests)

SubmissionsCounted ==
    \A i \in DOMAIN agCalls : Succeeded(agCalls[i]) /\ agCalls[i].kind = "submit" =>
        \A k \in DOMAIN agList : k.filter = "" => Known(agList[k], RequestsUsed(k), CountingTo(agCalls[i].about))
CancellationsKnown ==
    \A i \in DOMAIN agCalls : Succeeded(agCalls[i]) /\ agCalls[i].kind = "cancel" =>
        \A r \in DOMAIN agDetails :
            agCalls[i].about = r /\ agCalls[i].page = r => Known(agDetails[r], RequestUsed(r), Ended)

RequestsShown == RequestCaches /\ CallsStand /\ SubmissionsCounted /\ CancellationsKnown

LEMMA RequestsInitially == AgentInit => RequestsShown
<1> SUFFICES ASSUME AgentInit PROVE RequestsShown
  OBVIOUS
<1>1. Cache(<<>>, RequestListValues) /\ Cache(<<>>, RequestStatuses) /\ DOMAIN <<>> = {}
  BY DEF Cache
<1>2. /\ agList = Use(<<>>, FirstRequests) /\ agListKey = FirstRequests /\ agDetails = <<>>
      /\ agRoute = "list" /\ ~agCancel /\ agCalls = <<>>
  BY DEF AgentInit
<1>3. Cache(agList, RequestListValues)
  BY <1>1, <1>2, KeyCached
<1>4. DOMAIN agList = DOMAIN <<>> \cup {FirstRequests}
  BY <1>2, KeyAdded
<1> QED BY <1>1, <1>2, <1>3, <1>4
        DEF RequestsShown, RequestCaches, CallsStand, SubmissionsCounted, CancellationsKnown

\* The whole list counts every request.
LEMMA RequestPageRead ==
    ASSUME AgentInv, NEW key
    PROVE  /\ RequestPage(key) \in RequestListValues
           /\ key.filter = "" => \A r \in DOMAIN agRequests : RequestPage(key) \in CountingTo(r)
<1> DEFINE match == RequestsMatching(key.filter)
           listed == {q \in match : Cardinality({p \in match : p >= q}) = key.page}
           row(r) == [id |-> r, status |-> agRequests[r].status]
           rows == {row(r) : r \in listed}
<1>1. RequestPage(key) = [rows |-> rows, total |-> Cardinality(match)]
  BY DEF RequestPage
<1>2. /\ agRequests \in Seq(Request) /\ Len(agRequests) \in Nat /\ DOMAIN agRequests = 1 .. Len(agRequests)
      /\ \A r \in DOMAIN agRequests : agRequests[r] \in Request
  <2>1. agRequests \in Seq(Request)
    BY DEF AgentInv, RequestsInv
  <2> QED BY <2>1
<1>3. /\ match \subseteq DOMAIN agRequests /\ listed \subseteq DOMAIN agRequests
      /\ key.filter = "" => match = DOMAIN agRequests
  <2>1. match \subseteq DOMAIN agRequests /\ listed \subseteq match
    BY DEF RequestsMatching
  <2>2. key.filter = "" => match = DOMAIN agRequests
    BY DEF RequestsMatching
  <2> QED BY <2>1, <2>2
<1>4. IsFiniteSet(1 .. Len(agRequests)) /\ Cardinality(1 .. Len(agRequests)) = Len(agRequests)
  <2> DEFINE n == Len(agRequests)
  <2>1. n \in Nat
    BY <1>2
  <2> HIDE DEF n
  <2>2. IsFiniteSet(1 .. n) /\ Cardinality(1 .. n) = IF 1 > n THEN 0 ELSE n - 1 + 1
    BY <2>1, FS_Interval
  <2>3. IsFiniteSet(1 .. n) /\ Cardinality(1 .. n) = n
    BY <2>1, <2>2
  <2> QED BY <2>3 DEF n
<1>5. Cardinality(match) \in Nat
  BY <1>2, <1>3, <1>4, Counted
<1>6. \A r \in DOMAIN agRequests : row(r) \in [id : Nat, status : RequestStatuses]
  <2>1. \A r \in DOMAIN agRequests : r \in Nat /\ agRequests[r].status \in RequestStatuses
    BY <1>2 DEF Request, RequestStatuses
  <2> QED BY <2>1
<1> HIDE DEF row, listed, match
<1>7. rows \in SUBSET [id : Nat, status : RequestStatuses]
  BY <1>3, <1>6
<1> HIDE DEF rows
<1>8. RequestPage(key) \in RequestListValues /\ RequestPage(key).total = Cardinality(match)
  BY <1>1, <1>5, <1>7 DEF RequestListValues
<1>9. ASSUME key.filter = "", NEW r \in DOMAIN agRequests
      PROVE  RequestPage(key) \in CountingTo(r)
  <2>1. r \in 1 .. Len(agRequests) /\ Len(agRequests) \in Nat
    BY <1>2, <1>9
  <2>2. match = 1 .. Len(agRequests)
    BY <1>2, <1>3, <1>9
  <2>3. Cardinality(match) = Len(agRequests)
    BY <1>4, <2>2
  <2>4. Len(agRequests) >= r
    BY <2>1
  <2> QED BY <1>8, <2>3, <2>4 DEF CountingTo
<1> QED BY <1>8, <1>9

\* Pages and caches stay, requests are made and decided, calls sent and
\* answered: a call the tab has no answer of says nothing yet.
LEMMA RequestsLeft ==
    ASSUME RequestsShown, UNCHANGED <<agRoute, agShown, agListKey, agList, agDetails>>, agCancel' => agRoute = "detail",
           DOMAIN agRequests \subseteq DOMAIN agRequests',
           \A r \in DOMAIN agRequests : agRequests[r].status # "pending" => agRequests'[r].status # "pending",
           \A i \in DOMAIN agCalls' :
               \/ i \in DOMAIN agCalls /\ agCalls'[i] = agCalls[i]
               \/ ~Succeeded(agCalls'[i]) /\ CallStands(agCalls'[i], agRequests')
               \/ i \in DOMAIN agCalls /\ agCalls'[i].kind \notin {"submit", "cancel"}
    PROVE  RequestsShown'
<1>1. RequestCaches'
  BY DEF RequestsShown, RequestCaches
<1>2. CallsStand'
  BY DEF RequestsShown, CallsStand, CallStands
<1>3. SubmissionsCounted' /\ CancellationsKnown'
  BY DEF RequestsShown, SubmissionsCounted, CancellationsKnown, RequestsUsed, RequestUsed
<1> QED BY <1>1, <1>2, <1>3 DEF RequestsShown

LEMMA RequestsSent ==
    ASSUME AgentInv, RequestsShown, NEW kind, NEW about, SendCall(kind, about), UNCHANGED <<agServer, agPage, agCache>>,
           kind = "cancel" => about \in DOMAIN agRequests
    PROVE  RequestsShown'
<1> DEFINE c == [kind |-> kind, about |-> about, mount |-> agMount, page |-> agShown, state |-> "sent", ok |-> FALSE]
<1>1. agCalls' = Append(agCalls, c) /\ ~Succeeded(c) /\ CallStands(c, agRequests)
  BY DEF SendCall, Succeeded, CallStands
<1> HIDE DEF c
<1>2. \A i \in DOMAIN agCalls' : (i \in DOMAIN agCalls /\ agCalls'[i] = agCalls[i]) \/ agCalls'[i] = c
  <2>1. agCalls \in Seq(Call \cup {c}) /\ c \in Call \cup {c}
    BY DEF AgentInv, CallsInv
  <2> QED BY <1>1, <2>1, EntryAdded
<1> QED BY <1>1, <1>2, RequestsLeft DEF agServer, agPage, agCache, RequestsShown, RequestCaches

\* The server answers one call.
LEMMA RequestsAnswered ==
    ASSUME AgentInv, RequestsShown, NEW i \in DOMAIN agCalls, NEW c,
           agCalls' = [agCalls EXCEPT ![i] = c], ~Succeeded(c), CallStands(c, agRequests'),
           UNCHANGED <<agPage, agCache>>,
           DOMAIN agRequests \subseteq DOMAIN agRequests',
           \A r \in DOMAIN agRequests : agRequests[r].status # "pending" => agRequests'[r].status # "pending"
    PROVE  RequestsShown'
<1>1. \A j \in DOMAIN agCalls' : j \in DOMAIN agCalls /\ agCalls'[j] = IF j = i THEN c ELSE agCalls[j]
  BY DEF AgentInv, CallsInv
<1> QED BY <1>1, RequestsLeft DEF agPage, agCache, RequestsShown, RequestCaches

LEMMA UploadsServed ==
    ASSUME AgentInv, RequestsShown, NEW i \in DOMAIN agCalls, StoreUpload(i)
    PROVE  RequestsShown'
<1>1. PICK about, ok : agCalls' = [agCalls EXCEPT ![i].state = "answered", ![i].about = about, ![i].ok = ok]
  <2>1. PICK about, done : Answered(i, about, done)
    BY DEF StoreUpload
  <2>2. PICK arrives \in BOOLEAN :
          agCalls' = [agCalls EXCEPT ![i].state = "answered", ![i].about = about, ![i].ok = arrives /\ done]
    BY <2>1 DEF Answered
  <2> WITNESS about, arrives /\ done
  <2> QED BY <2>2
<1> DEFINE c == [agCalls[i] EXCEPT !.state = "answered", !.about = about, !.ok = ok]
<1>2. agCalls' = [agCalls EXCEPT ![i] = c]
  BY <1>1
<1>3. c.state = "answered" /\ c.kind = "upload"
  BY CallOfType DEF Call, StoreUpload
<1> HIDE DEF c
<1>4. ~Succeeded(c) /\ CallStands(c, agRequests')
  BY <1>3 DEF Succeeded, CallStands
<1> QED BY <1>2, <1>4, RequestsAnswered DEF StoreUpload

LEMMA SubmissionsServed ==
    ASSUME AgentInv, RequestsShown, NEW i \in DOMAIN agCalls, SubmitRequest(i)
    PROVE  RequestsShown'
<1> DEFINE q == [proof |-> agCalls[i].about, kept |-> Kept(agCalls[i].about), status |-> "pending"]
<1>1. PICK about, ok :
        /\ agCalls' = [agCalls EXCEPT ![i].state = "answered", ![i].about = about, ![i].ok = ok]
        /\ \/ agRequests' = Append(agRequests, q) /\ about = Len(agRequests')
           \/ agRequests' = agRequests /\ ~ok
  <2>1. CASE agRequests' = Append(agRequests, q) /\ Answered(i, Len(agRequests'), TRUE)
    BY <2>1 DEF Answered
  <2>2. CASE UNCHANGED agRequests /\ Answered(i, 0, FALSE)
    BY <2>2 DEF Answered
  <2> QED BY <2>1, <2>2 DEF SubmitRequest
<1> HIDE DEF q
<1> DEFINE c == [agCalls[i] EXCEPT !.state = "answered", !.about = about, !.ok = ok]
<1>2. agCalls' = [agCalls EXCEPT ![i] = c]
  BY <1>1
<1>3. c.state = "answered" /\ c.kind = "submit" /\ c.about = about /\ c.ok = ok
  BY CallOfType DEF Call, SubmitRequest
<1> HIDE DEF c
<1>4. agRequests \in Seq(Request \cup {q})
  BY DEF AgentInv, RequestsInv
<1>5. CASE agRequests' = Append(agRequests, q) /\ about = Len(agRequests')
  <2>1. /\ DOMAIN agRequests' = DOMAIN agRequests \cup {Len(agRequests')}
        /\ \A r \in DOMAIN agRequests : agRequests'[r] = agRequests[r]
    BY <1>4, <1>5
  <2>2. ~Succeeded(c) /\ CallStands(c, agRequests')
    BY <1>3, <1>5, <2>1 DEF Succeeded, CallStands
  <2> QED BY <1>2, <2>1, <2>2, RequestsAnswered DEF SubmitRequest
<1>6. CASE agRequests' = agRequests /\ ~ok
  BY <1>2, <1>3, <1>6, RequestsAnswered DEF SubmitRequest, Succeeded, CallStands
<1> QED BY <1>1, <1>5, <1>6

\* A request that is decided is not pending any more, and never again.
LEMMA StatusDecided ==
    ASSUME AgentInv, NEW r \in DOMAIN agRequests, NEW status \in Ended, SetStatus(r, status)
    PROVE  /\ DOMAIN agRequests' = DOMAIN agRequests /\ agRequests'[r].status # "pending"
           /\ \A q \in DOMAIN agRequests : agRequests[q].status # "pending" => agRequests'[q].status # "pending"
<1>1. agRequests[r] \in Request
  BY DEF AgentInv, RequestsInv
<1>2. [agRequests[r] EXCEPT !.status = status].status = status /\ status # "pending"
  BY <1>1 DEF Request, Ended
<1>3. agRequests' = [agRequests EXCEPT ![r] = [agRequests[r] EXCEPT !.status = status]]
  BY DEF SetStatus
<1> QED BY <1>2, <1>3 DEF AgentInv, RequestsInv

LEMMA CancellationsServed ==
    ASSUME AgentInv, RequestsShown, NEW i \in DOMAIN agCalls, CancelRequest(i)
    PROVE  RequestsShown'
<1> DEFINE r == agCalls[i].about
           done == agRequests[r].status = "pending"
<1>1. PICK arrives \in BOOLEAN : agCalls' = [agCalls EXCEPT ![i].state = "answered", ![i].ok = arrives /\ done]
  BY DEF CancelRequest
<1>2. agCalls[i].kind = "cancel" /\ r \in DOMAIN agRequests
  BY DEF CancelRequest, RequestsShown, CallsStand, CallStands
<1>3. /\ DOMAIN agRequests' = DOMAIN agRequests
      /\ \A q \in DOMAIN agRequests : agRequests[q].status # "pending" => agRequests'[q].status # "pending"
      /\ done => agRequests'[r].status # "pending"
  <2>1. CASE done
    BY <1>2, <2>1, StatusDecided DEF CancelRequest, Ended, RequestStatuses
  <2>2. CASE ~done
    BY <2>2 DEF CancelRequest
  <2> QED BY <2>1, <2>2
<1> DEFINE ok == arrives /\ done
           c == [agCalls[i] EXCEPT !.state = "answered", !.ok = ok]
<1>4. agCalls' = [agCalls EXCEPT ![i] = c]
  BY <1>1
<1>5. ok => done
  OBVIOUS
<1> HIDE DEF ok, done
<1>6. c.state = "answered" /\ c.kind = "cancel" /\ c.about = r /\ c.ok = ok
  BY <1>2, CallOfType DEF Call
<1> HIDE DEF c
<1>7. ~Succeeded(c) /\ CallStands(c, agRequests')
  BY <1>2, <1>3, <1>5, <1>6 DEF Succeeded, CallStands
<1> QED BY <1>3, <1>4, <1>7, RequestsAnswered DEF CancelRequest

LEMMA DecidedByAdmin ==
    ASSUME AgentInv, RequestsShown, NEW r \in DOMAIN agRequests, DecideByAdmin(r)
    PROVE  RequestsShown'
<1>1. /\ DOMAIN agRequests' = DOMAIN agRequests
      /\ \A q \in DOMAIN agRequests : agRequests[q].status # "pending" => agRequests'[q].status # "pending"
  BY StatusDecided DEF DecideByAdmin, Ended, RequestStatuses
<1> QED BY <1>1, RequestsLeft DEF DecideByAdmin, agPage, agCache, RequestsShown, RequestCaches

\* One list, or one request, is loaded.
LEMMA RequestListMoved ==
    ASSUME RequestsShown, UNCHANGED <<agServer, agPage, agCalls, agDetails>>, NEW k \in DOMAIN agList,
           NEW n \in Entry(RequestListValues), agList' = [agList EXCEPT ![k] = n],
           k.filter = "" => \A i \in DOMAIN agCalls : Succeeded(agCalls[i]) /\ agCalls[i].kind = "submit" =>
               (Known(agList[k], RequestsUsed(k), CountingTo(agCalls[i].about))
                   => Known(n, RequestsUsed(k), CountingTo(agCalls[i].about)))
    PROVE  RequestsShown'
<1>1. Cache(agList, RequestListValues)
  BY DEF RequestsShown, RequestCaches
<1>2. /\ Cache(agList', RequestListValues) /\ DOMAIN agList' = DOMAIN agList
      /\ \A j \in DOMAIN agList : agList'[j] = IF j = k THEN n ELSE agList[j]
  BY <1>1, EntryStepped
<1>3. \A j : RequestsUsed(j)' = RequestsUsed(j) /\ RequestUsed(j)' = RequestUsed(j)
  BY DEF RequestsUsed, RequestUsed, agPage
<1>4. RequestCaches' /\ CallsStand'
  BY <1>2 DEF RequestsShown, RequestCaches, CallsStand, agServer, agPage
<1>5. SubmissionsCounted' /\ CancellationsKnown'
  BY <1>2, <1>3 DEF RequestsShown, SubmissionsCounted, CancellationsKnown
<1> QED BY <1>4, <1>5 DEF RequestsShown

LEMMA RequestMoved ==
    ASSUME RequestsShown, UNCHANGED <<agServer, agPage, agCalls, agList>>, NEW r \in DOMAIN agDetails,
           NEW n \in Entry(RequestStatuses), agDetails' = [agDetails EXCEPT ![r] = n],
           \A i \in DOMAIN agCalls : Succeeded(agCalls[i]) /\ agCalls[i].kind = "cancel" /\ agCalls[i].about = r
                                      /\ agCalls[i].page = r =>
               (Known(agDetails[r], RequestUsed(r), Ended) => Known(n, RequestUsed(r), Ended))
    PROVE  RequestsShown'
<1>1. Cache(agDetails, RequestStatuses)
  BY DEF RequestsShown, RequestCaches
<1>2. /\ Cache(agDetails', RequestStatuses) /\ DOMAIN agDetails' = DOMAIN agDetails
      /\ \A j \in DOMAIN agDetails : agDetails'[j] = IF j = r THEN n ELSE agDetails[j]
  BY <1>1, EntryStepped
<1>3. \A j : RequestsUsed(j)' = RequestsUsed(j) /\ RequestUsed(j)' = RequestUsed(j)
  BY DEF RequestsUsed, RequestUsed, agPage
<1>4. RequestCaches' /\ CallsStand'
  BY <1>2 DEF RequestsShown, RequestCaches, CallsStand, agServer, agPage
<1>5. SubmissionsCounted' /\ CancellationsKnown'
  BY <1>2, <1>3 DEF RequestsShown, SubmissionsCounted, CancellationsKnown
<1> QED BY <1>4, <1>5 DEF RequestsShown

LEMMA RequestListLoaded ==
    ASSUME AgentInv, RequestsShown, NEW k \in DOMAIN agList, LoadRequests(k)
    PROVE  RequestsShown'
<1>1. /\ agList[k] \in Entry(RequestListValues) /\ UNCHANGED <<agServer, agPage, agCalls, agDetails>>
      /\ RequestsUsed(k) \in BOOLEAN
  BY DEF RequestsShown, RequestCaches, Cache, LoadRequests, RequestsUsed
<1>2. CASE agList' = [agList EXCEPT ![k] = Answer(@, RequestPage(k))]
  <2> DEFINE n == Answer(agList[k], RequestPage(k))
  <2>1. n \in Entry(RequestListValues)
    BY <1>1, RequestPageRead, EntryKept
  <2>2. ASSUME k.filter = "", NEW i \in DOMAIN agCalls, Succeeded(agCalls[i]), agCalls[i].kind = "submit"
        PROVE  Known(n, RequestsUsed(k), CountingTo(agCalls[i].about))
    <3>1. agCalls[i].about \in DOMAIN agRequests
      BY <2>2 DEF RequestsShown, CallsStand, CallStands, Succeeded
    <3>2. RequestPage(k) \in CountingTo(agCalls[i].about)
      BY <2>2, <3>1, RequestPageRead
    <3> QED BY <1>1, <3>2, KnownMoved
  <2> HIDE DEF n
  <2>3. agList' = [agList EXCEPT ![k] = n]
    BY <1>2 DEF n
  <2> QED BY <1>1, <2>1, <2>2, <2>3, RequestListMoved
<1>3. CASE agList[k].load = "answered" /\ agList' = [agList EXCEPT ![k] = Arrive(@)]
  <2> DEFINE n == Arrive(agList[k])
  <2>1. n \in Entry(RequestListValues)
    BY <1>1, EntryKept
  <2>2. \A good : Known(agList[k], RequestsUsed(k), good) => Known(n, RequestsUsed(k), good)
    BY <1>1, <1>3, KnownMoved
  <2> HIDE DEF n
  <2>3. agList' = [agList EXCEPT ![k] = n]
    BY <1>3 DEF n
  <2> QED BY <1>1, <2>1, <2>2, <2>3, RequestListMoved
<1>4. CASE agList' = [agList EXCEPT ![k] = Fail(@)]
  <2> DEFINE n == Fail(agList[k])
  <2>1. n \in Entry(RequestListValues)
    BY <1>1, EntryKept
  <2>2. \A good : Known(n, RequestsUsed(k), good)
    BY <1>1, KnownMoved
  <2> HIDE DEF n
  <2>3. agList' = [agList EXCEPT ![k] = n]
    BY <1>4 DEF n
  <2> QED BY <1>1, <2>1, <2>2, <2>3, RequestListMoved
<1> QED BY <1>2, <1>3, <1>4 DEF LoadRequests

LEMMA RequestLoaded ==
    ASSUME AgentInv, RequestsShown, NEW r \in DOMAIN agDetails, LoadRequest(r)
    PROVE  RequestsShown'
<1>1. /\ agDetails[r] \in Entry(RequestStatuses) /\ UNCHANGED <<agServer, agPage, agCalls, agList>>
      /\ RequestUsed(r) \in BOOLEAN /\ r \in DOMAIN agRequests
  BY DEF RequestsShown, RequestCaches, Cache, LoadRequest, RequestUsed
<1>2. CASE agDetails' = [agDetails EXCEPT ![r] = Answer(@, agRequests[r].status)]
  <2> DEFINE n == Answer(agDetails[r], agRequests[r].status)
  <2>1. agRequests[r].status \in RequestStatuses
    <3>1. agRequests[r] \in Request
      BY <1>1 DEF AgentInv, RequestsInv
    <3> QED BY <3>1 DEF Request, RequestStatuses
  <2>2. n \in Entry(RequestStatuses)
    BY <1>1, <2>1, EntryKept
  <2>3. ASSUME NEW i \in DOMAIN agCalls, Succeeded(agCalls[i]), agCalls[i].kind = "cancel", agCalls[i].about = r
        PROVE  Known(n, RequestUsed(r), Ended)
    <3>1. agRequests[r].status \in Ended
      BY <2>1, <2>3 DEF RequestsShown, CallsStand, CallStands, Succeeded, Ended
    <3> QED BY <1>1, <3>1, KnownMoved
  <2> HIDE DEF n
  <2>4. agDetails' = [agDetails EXCEPT ![r] = n]
    BY <1>2 DEF n
  <2> QED BY <1>1, <2>2, <2>3, <2>4, RequestMoved
<1>3. CASE agDetails[r].load = "answered" /\ agDetails' = [agDetails EXCEPT ![r] = Arrive(@)]
  <2> DEFINE n == Arrive(agDetails[r])
  <2>1. n \in Entry(RequestStatuses)
    BY <1>1, EntryKept
  <2>2. Known(agDetails[r], RequestUsed(r), Ended) => Known(n, RequestUsed(r), Ended)
    BY <1>1, <1>3, KnownMoved
  <2> HIDE DEF n
  <2>3. agDetails' = [agDetails EXCEPT ![r] = n]
    BY <1>3 DEF n
  <2> QED BY <1>1, <2>1, <2>2, <2>3, RequestMoved
<1>4. CASE agDetails' = [agDetails EXCEPT ![r] = Fail(@)]
  <2> DEFINE n == Fail(agDetails[r])
  <2>1. n \in Entry(RequestStatuses)
    BY <1>1, EntryKept
  <2>2. Known(n, RequestUsed(r), Ended)
    BY <1>1, KnownMoved
  <2> HIDE DEF n
  <2>3. agDetails' = [agDetails EXCEPT ![r] = n]
    BY <1>4 DEF n
  <2> QED BY <1>1, <2>1, <2>2, <2>3, RequestMoved
<1> QED BY <1>2, <1>3, <1>4 DEF LoadRequest

LEMMA RequestReloaded ==
    ASSUME AgentInv, RequestsShown, ReloadRequest
    PROVE  RequestsShown'
<1> DEFINE n == Reload(agDetails[agShown])
<1>1. /\ UNCHANGED <<agServer, agPage, agCalls, agList>> /\ agShown \in DOMAIN agDetails
      /\ agDetails[agShown] \in Entry(RequestStatuses) /\ RequestUsed(agShown) \in BOOLEAN
  BY DEF RequestsShown, RequestCaches, Cache, ReloadRequest, RequestUsed
<1>2. n \in Entry(RequestStatuses) /\ Known(n, RequestUsed(agShown), Ended)
  BY <1>1, EntryKept, KnownMoved
<1> HIDE DEF n
<1>3. agDetails' = [agDetails EXCEPT ![agShown] = n]
  BY DEF ReloadRequest, n
<1> QED BY <1>1, <1>2, <1>3, RequestMoved

\* The tab turns to a list: the request it showed is not in use any more.
LEMMA RequestsTurned ==
    ASSUME AgentInv, RequestsShown, NEW key, UNCHANGED <<agServer, agCalls, agDetails>>,
           agRoute' = "list", agListKey' = key, agList' = Use(agList, key), ~agCancel'
    PROVE  RequestsShown'
<1>1. Cache(agList, RequestListValues)
  BY DEF RequestsShown, RequestCaches
<1>2. Cache(agList', RequestListValues)
  BY <1>1, KeyCached
<1>3. DOMAIN agList' = DOMAIN agList \cup {key}
  BY KeyAdded
<1>4. RequestCaches' /\ CallsStand'
  BY <1>2, <1>3 DEF RequestsShown, RequestCaches, CallsStand, agServer
<1>5. ASSUME NEW i \in DOMAIN agCalls, Succeeded(agCalls[i]), agCalls[i].kind = "submit",
             NEW k \in DOMAIN agList', k.filter = ""
      PROVE  Known(agList'[k], RequestsUsed(k)', CountingTo(agCalls[i].about))
  <2>1. k \in DOMAIN agList => Known(agList[k], FALSE, CountingTo(agCalls[i].about))
    BY <1>5 DEF RequestsShown, SubmissionsCounted, Known
  <2>2. Known(agList'[k], k = key, CountingTo(agCalls[i].about))
    BY <1>1, <2>1, KeyKnown
  <2> QED BY <2>2 DEF RequestsUsed
<1>6. ASSUME NEW i \in DOMAIN agCalls, Succeeded(agCalls[i]), agCalls[i].kind = "cancel",
             NEW r \in DOMAIN agDetails, agCalls[i].about = r, agCalls[i].page = r
      PROVE  Known(agDetails[r], RequestUsed(r)', Ended)
  BY <1>6 DEF RequestsShown, CancellationsKnown, RequestUsed, Known
<1> QED BY <1>4, <1>5, <1>6 DEF RequestsShown, SubmissionsCounted, CancellationsKnown

\* The tab turns to a request; a submission answered before has made the
\* lists old.
LEMMA RequestTurned ==
    ASSUME AgentInv, RequestsShown, NEW r \in DOMAIN agRequests, NEW lists,
           Cache(lists, RequestListValues), DOMAIN lists = DOMAIN agList, UNCHANGED agServer,
           GoTo("detail", r), agList' = lists, agDetails' = Use(agDetails, r),
           DOMAIN agCalls' = DOMAIN agCalls,
           \A i \in DOMAIN agCalls : /\ agCalls'[i].kind = agCalls[i].kind /\ agCalls'[i].about = agCalls[i].about
                                     /\ agCalls'[i].ok = agCalls[i].ok,
           \A i \in DOMAIN agCalls : Succeeded(agCalls'[i]) /\ agCalls[i].kind = "cancel" =>
               Succeeded(agCalls[i]) /\ agCalls'[i].page = agCalls[i].page,
           \A i \in DOMAIN agCalls : Succeeded(agCalls'[i]) /\ agCalls[i].kind = "submit" =>
               \A k \in DOMAIN lists : k.filter = "" => Known(lists[k], FALSE, CountingTo(agCalls[i].about))
    PROVE  RequestsShown'
<1>1. Cache(agDetails, RequestStatuses)
  BY DEF RequestsShown, RequestCaches
<1>2. Cache(agDetails', RequestStatuses)
  BY <1>1, KeyCached
<1>3. DOMAIN agDetails' = DOMAIN agDetails \cup {r}
  BY KeyAdded
<1>4. agRoute' = "detail" /\ agShown' = r /\ agListKey' = FirstRequests
  BY DEF GoTo
<1>5. RequestCaches'
  BY <1>2, <1>3, <1>4 DEF RequestsShown, RequestCaches, agServer
<1>6. CallsStand'
  BY DEF RequestsShown, CallsStand, CallStands, agServer
<1>7. ASSUME NEW i \in DOMAIN agCalls, Succeeded(agCalls'[i]), agCalls[i].kind = "cancel",
             NEW q \in DOMAIN agDetails', agCalls[i].about = q, agCalls'[i].page = q
      PROVE  Known(agDetails'[q], RequestUsed(q)', Ended)
  <2>1. q \in DOMAIN agDetails => Known(agDetails[q], FALSE, Ended)
    BY <1>7 DEF RequestsShown, CancellationsKnown, Known
  <2>2. Known(agDetails'[q], q = r, Ended)
    BY <1>1, <2>1, KeyKnown
  <2> QED BY <1>4, <2>2 DEF RequestUsed, Known
<1>8. SubmissionsCounted'
  BY <1>4 DEF SubmissionsCounted, RequestsUsed, Known
<1>9. CancellationsKnown'
  BY <1>7 DEF CancellationsKnown
<1> QED BY <1>5, <1>6, <1>8, <1>9 DEF RequestsShown

LEMMA RequestOpened ==
    ASSUME AgentInv, RequestsShown, NEW r \in DOMAIN agRequests, OpenRequest(r)
    PROVE  RequestsShown'
<1>1. GoTo("detail", r) /\ agList' = agList /\ agDetails' = Use(agDetails, r) /\ UNCHANGED <<agServer, agCalls>>
  BY DEF OpenRequest, UseRoute, GoTo
<1>2. Cache(agList, RequestListValues)
  BY DEF RequestsShown, RequestCaches
<1>3. \A i \in DOMAIN agCalls : Succeeded(agCalls[i]) /\ agCalls[i].kind = "submit" =>
          \A k \in DOMAIN agList : k.filter = "" => Known(agList[k], FALSE, CountingTo(agCalls[i].about))
  BY DEF RequestsShown, SubmissionsCounted, Known
<1> QED BY <1>1, <1>2, <1>3, RequestTurned

\* The tab turns to a page without a query of its own.
LEMMA FormTurned ==
    ASSUME AgentInv, RequestsShown, NEW carried, OpenForm(carried)
    PROVE  RequestsShown'
<1>1. /\ agRoute' = "create" /\ ~agCancel' /\ agListKey' = FirstRequests
      /\ UNCHANGED <<agServer, agCalls, agList, agDetails>>
  BY DEF OpenForm, agCache
<1>2. RequestCaches' /\ CallsStand'
  BY <1>1 DEF RequestsShown, RequestCaches, CallsStand, agServer
<1>3. SubmissionsCounted' /\ CancellationsKnown'
  BY <1>1 DEF RequestsShown, SubmissionsCounted, CancellationsKnown, RequestsUsed, RequestUsed, Known
<1> QED BY <1>2, <1>3 DEF RequestsShown

\* ---- the answers

LEMMA AnswerKept ==
    ASSUME AgentInv, NEW i \in DOMAIN agCalls, agCalls' = [agCalls EXCEPT ![i].state = "done"]
    PROVE  /\ DOMAIN agCalls' = DOMAIN agCalls
           /\ \A j \in DOMAIN agCalls : /\ agCalls'[j].kind = agCalls[j].kind /\ agCalls'[j].about = agCalls[j].about
                                        /\ agCalls'[j].ok = agCalls[j].ok /\ agCalls'[j].page = agCalls[j].page
                                        /\ Succeeded(agCalls'[j]) =>
                                              Succeeded(agCalls[j]) \/ (j = i /\ agCalls[i].ok)
<1>1. agCalls[i] \in Call
  BY CallOfType
<1>2. agCalls' = [agCalls EXCEPT ![i] = [agCalls[i] EXCEPT !.state = "done"]]
  OBVIOUS
<1> QED BY <1>1, <1>2 DEF AgentInv, CallsInv, Call, Succeeded

LEMMA UploadTaken ==
    ASSUME AgentInv, RequestsShown, NEW i \in DOMAIN agCalls, UploadAnswered(i)
    PROVE  RequestsShown'
<1>1. /\ agCalls[i].kind = "upload" /\ agCalls' = [agCalls EXCEPT ![i].state = "done"]
      /\ UNCHANGED <<agServer, agRoute, agShown, agCancel, agListKey, agList, agDetails>>
  BY DEF UploadAnswered, CallAnswered, agCache
<1>2. \A j \in DOMAIN agCalls' : j \in DOMAIN agCalls /\ (agCalls'[j] = agCalls[j] \/ agCalls'[j].kind = "upload")
  BY <1>1, CallOfType DEF AgentInv, CallsInv, Call
<1> QED BY <1>1, <1>2, RequestsLeft DEF agServer, RequestsShown, RequestCaches

LEMMA SubmissionTaken ==
    ASSUME AgentInv, RequestsShown, NEW i \in DOMAIN agCalls, SubmitAnswered(i)
    PROVE  RequestsShown'
<1>1. agCalls[i].kind = "submit" /\ UNCHANGED agServer
  BY DEF SubmitAnswered
<1>2. CASE agCalls[i].ok
  <2> DEFINE r == agCalls[i].about
             lists == RefreshRequests(agList)
  <2>1. GoTo("detail", r) /\ agList' = lists /\ agDetails' = Use(agDetails, r) /\ r \in DOMAIN agRequests
    BY <1>1, <1>2 DEF SubmitAnswered, UseRoute, GoTo, RequestsShown, CallsStand, CallStands
  <2>2. lists = [k \in DOMAIN agList |-> Invalidate(agList[k], RequestsUsed(k))]
    BY DEF RefreshRequests, RequestsUsed
  <2> HIDE DEF lists
  <2>3. DOMAIN lists = DOMAIN agList /\ lists = [k \in DOMAIN lists |-> lists[k]]
    BY <2>2
  <2>4. \A k \in DOMAIN agList : lists[k] \in Entry(RequestListValues) /\ \A good : Known(lists[k], FALSE, good)
    <3> TAKE k \in DOMAIN agList
    <3>1. agList[k] \in Entry(RequestListValues) /\ RequestsUsed(k) \in BOOLEAN
      BY DEF RequestsShown, RequestCaches, Cache, RequestsUsed
    <3>2. lists[k] = Invalidate(agList[k], RequestsUsed(k))
      BY <2>2
    <3>3. \A good : Known(lists[k], RequestsUsed(k), good)
      BY <3>1, <3>2, KnownInvalidated
    <3> QED BY <3>1, <3>2, <3>3, EntryKept DEF Known
  <2>5. Cache(lists, RequestListValues)
    BY <2>3, <2>4 DEF Cache
  <2>6. /\ DOMAIN agCalls' = DOMAIN agCalls
        /\ \A j \in DOMAIN agCalls : /\ agCalls'[j].kind = agCalls[j].kind /\ agCalls'[j].about = agCalls[j].about
                                     /\ agCalls'[j].ok = agCalls[j].ok
                                     /\ Succeeded(agCalls'[j]) /\ agCalls[j].kind = "cancel" =>
                                           Succeeded(agCalls[j]) /\ agCalls'[j].page = agCalls[j].page
    BY <1>1, SubmissionAnswered DEF Succeeded
  <2> HIDE DEF r
  <2> QED BY <1>1, <2>1, <2>3, <2>4, <2>5, <2>6, RequestTurned
<1>3. CASE ~agCalls[i].ok
  <2>1. UNCHANGED <<agPage, agCache>> /\ agCalls' = [agCalls EXCEPT ![i].state = "done"]
    BY <1>3 DEF SubmitAnswered
  <2>2. /\ DOMAIN agCalls' = DOMAIN agCalls
        /\ \A j \in DOMAIN agCalls : /\ agCalls'[j].kind = agCalls[j].kind /\ agCalls'[j].about = agCalls[j].about
                                     /\ agCalls'[j].ok = agCalls[j].ok /\ agCalls'[j].page = agCalls[j].page
                                     /\ Succeeded(agCalls'[j]) => Succeeded(agCalls[j])
    BY <1>3, <2>1, AnswerKept
  <2>3. RequestCaches' /\ CallsStand'
    BY <1>1, <2>1, <2>2 DEF RequestsShown, RequestCaches, CallsStand, CallStands, agPage, agCache, agServer
  <2>4. SubmissionsCounted'
    BY <2>1, <2>2 DEF RequestsShown, SubmissionsCounted, RequestsUsed, agPage, agCache
  <2>5. CancellationsKnown'
    BY <2>1, <2>2 DEF RequestsShown, CancellationsKnown, RequestUsed, agPage, agCache
  <2> QED BY <2>3, <2>4, <2>5 DEF RequestsShown
<1> QED BY <1>2, <1>3

\* The request the page showed last is refreshed; nothing is said of a
\* cancellation whose page shows another one.
LEMMA CancellationTaken ==
    ASSUME AgentInv, RequestsShown, NEW i \in DOMAIN agCalls, CancelAnswered(i)
    PROVE  RequestsShown'
<1> DEFINE r == agCalls[i].page
<1>1. /\ agCalls[i].kind = "cancel" /\ agCalls' = [agCalls EXCEPT ![i].state = "done"] /\ (agCancel' => agCancel)
      /\ agDetails' = IF agCalls[i].ok THEN RefreshRequest(agDetails, r) ELSE agDetails
      /\ UNCHANGED <<agServer, agRoute, agShown, agListKey, agList>>
  BY DEF CancelAnswered, CallAnswered
<1>2. /\ DOMAIN agCalls' = DOMAIN agCalls
      /\ \A j \in DOMAIN agCalls : /\ agCalls'[j].kind = agCalls[j].kind /\ agCalls'[j].about = agCalls[j].about
                                   /\ agCalls'[j].ok = agCalls[j].ok /\ agCalls'[j].page = agCalls[j].page
                                   /\ Succeeded(agCalls'[j]) =>
                                         Succeeded(agCalls[j]) \/ (j = i /\ r = agCalls[j].page /\ agCalls[i].ok)
  BY <1>1, AnswerKept
<1> HIDE DEF r
<1>3. Cache(agDetails, RequestStatuses)
  BY DEF RequestsShown, RequestCaches
<1>4. /\ Cache(agDetails', RequestStatuses) /\ DOMAIN agDetails' = DOMAIN agDetails
      /\ \A q \in DOMAIN agDetails : \/ agDetails'[q] = agDetails[q] /\ ~(q = r /\ agCalls[i].ok)
                                     \/ \A good : Known(agDetails'[q], RequestUsed(q), good)
  <2>1. CASE agCalls[i].ok
    <3> DEFINE n == Invalidate(agDetails[r], RequestUsed(r))
    <3>1. r \in DOMAIN agDetails => n \in Entry(RequestStatuses) /\ \A good : Known(n, RequestUsed(r), good)
      <4> SUFFICES ASSUME r \in DOMAIN agDetails
                   PROVE  n \in Entry(RequestStatuses) /\ \A good : Known(n, RequestUsed(r), good)
        OBVIOUS
      <4>1. agDetails[r] \in Entry(RequestStatuses) /\ RequestUsed(r) \in BOOLEAN
        BY <1>3 DEF Cache, RequestUsed
      <4> QED BY <4>1, EntryKept, KnownInvalidated
    <3> HIDE DEF n
    <3>2. agDetails' = [agDetails EXCEPT ![r] = n]
      BY <1>1, <2>1 DEF RefreshRequest, RequestUsed, n
    <3>3. /\ Cache(agDetails', RequestStatuses) /\ DOMAIN agDetails' = DOMAIN agDetails
          /\ \A q \in DOMAIN agDetails : agDetails'[q] = IF q = r THEN n ELSE agDetails[q]
      BY <1>3, <3>1, <3>2, EntryStepped
    <3> QED BY <3>1, <3>3
  <2>2. CASE ~agCalls[i].ok
    BY <1>1, <1>3, <2>2
  <2> QED BY <2>1, <2>2
<1>5. RequestCaches' /\ CallsStand'
  BY <1>1, <1>2, <1>4 DEF RequestsShown, RequestCaches, CallsStand, CallStands, agServer
<1>6. \A q : RequestUsed(q)' = RequestUsed(q) /\ RequestsUsed(q)' = RequestsUsed(q)
  BY <1>1 DEF RequestUsed, RequestsUsed
<1>7. SubmissionsCounted'
  <2>1. \A j \in DOMAIN agCalls : Succeeded(agCalls'[j]) /\ agCalls[j].kind = "submit" => Succeeded(agCalls[j])
    BY <1>1, <1>2
  <2> QED BY <1>1, <1>2, <1>6, <2>1 DEF RequestsShown, SubmissionsCounted
<1>8. CancellationsKnown'
  <2>1. ASSUME NEW j \in DOMAIN agCalls, Succeeded(agCalls'[j]), agCalls[j].kind = "cancel",
               NEW q \in DOMAIN agDetails, agCalls[j].about = q, agCalls[j].page = q
        PROVE  Known(agDetails'[q], RequestUsed(q), Ended)
    <3>1. CASE agDetails'[q] = agDetails[q] /\ ~(q = r /\ agCalls[i].ok)
      <4>1. Succeeded(agCalls[j])
        BY <1>2, <2>1, <3>1
      <4> QED BY <2>1, <3>1, <4>1 DEF RequestsShown, CancellationsKnown
    <3> QED BY <1>4, <3>1
  <2> QED BY <1>2, <1>4, <1>6, <2>1 DEF CancellationsKnown
<1> QED BY <1>5, <1>7, <1>8 DEF RequestsShown

LEMMA RequestsStepped ==
    ASSUME AgentInv, RequestsShown, [AgentNext]_agentVars
    PROVE  RequestsShown'
<1>1. ASSUME UNCHANGED <<agRequests, agRoute, agShown, agListKey, agList, agDetails, agCalls>>,
             agCancel' => agRoute = "detail"
      PROVE  RequestsShown'
  BY <1>1, RequestsLeft DEF RequestsShown, RequestCaches
<1>2. agCancel => agRoute = "detail"
  BY DEF RequestsShown, RequestCaches
<1>3. CASE UNCHANGED agentVars
  BY <1>1, <1>2, <1>3 DEF agentVars, agServer, agPage, agCache
<1>4. ASSUME NEW r \in DOMAIN agRequests, OpenRequest(r) \/ DecideByAdmin(r) PROVE RequestsShown'
  BY <1>4, RequestOpened, DecidedByAdmin
<1>5. ASSUME NEW r \in DOMAIN agDetails, LoadRequest(r) PROVE RequestsShown'
  BY <1>5, RequestLoaded
<1>6. ASSUME NEW k \in RequestKeys, TurnRequests(k) PROVE RequestsShown'
  <2>1. ~agCancel
    BY <1>2, <1>6 DEF TurnRequests
  <2> QED BY <1>6, <2>1, RequestsTurned DEF TurnRequests
<1>7. ASSUME NEW k \in DOMAIN agList, LoadRequests(k) PROVE RequestsShown'
  BY <1>7, RequestListLoaded
<1>8. ASSUME NEW u \in Uploads, Age(u) \/ RemoveProof(u) PROVE RequestsShown'
  <2>1. CASE Age(u)
    <3>1. UNCHANGED <<agPage, agCache, agCalls>>
      BY <2>1 DEF Age
    <3> QED BY <1>2, <2>1, <3>1, RequestsAged, RequestsLeft DEF agPage, agCache
  <2>2. CASE RemoveProof(u)
    BY <1>1, <1>2, <2>2 DEF RemoveProof, CleanupStep, agPage, agCache
  <2> QED BY <1>8, <2>1, <2>2
<1>9. ASSUME NEW i \in DOMAIN agCalls, StoreUpload(i) \/ SubmitRequest(i) \/ CancelRequest(i) PROVE RequestsShown'
  BY <1>9, UploadsServed, SubmissionsServed, CancellationsServed
<1>10. ASSUME NEW i \in DOMAIN agCalls, UploadAnswered(i) \/ SubmitAnswered(i) \/ CancelAnswered(i)
       PROVE  RequestsShown'
  BY <1>10, UploadTaken, SubmissionTaken, CancellationTaken
<1>11. CASE OpenRequests
  <2>1. /\ agRoute' = "list" /\ agListKey' = FirstRequests /\ agList' = Use(agList, FirstRequests)
        /\ UNCHANGED <<agServer, agCalls, agDetails>> /\ ~agCancel'
    BY <1>11 DEF OpenRequests, GoTo, UseRoute
  <2> QED BY <2>1, RequestsTurned
<1>12. CASE NewRequest \/ RequestForCustomer
  BY <1>12, FormTurned DEF NewRequest, RequestForCustomer
<1>13. ASSUME NEW form, SetForm(form) PROVE RequestsShown'
  BY <1>1, <1>2, <1>13 DEF SetForm, agServer, agCache
<1>14. CASE UploadFile \/ SubmitForm
  BY <1>14, RequestsSent DEF UploadFile, SubmitForm
<1>15. CASE AskCancel \/ DismissCancel
  BY <1>1, <1>15 DEF AskCancel, DismissCancel, CancelOffered, SetCancel, agServer, agCache
<1>16. CASE ConfirmCancel
  <2>1. agShown \in DOMAIN agRequests
    BY <1>16 DEF ConfirmCancel, RequestsShown, RequestCaches
  <2> QED BY <1>16, <2>1, RequestsSent DEF ConfirmCancel
<1>17. CASE ReloadRequest
  BY <1>17, RequestReloaded
<1>18. CASE ReadDirectory \/ PluckReferences \/ ReadClock \/ CleanupStops
  BY <1>1, <1>2, <1>18 DEF ReadDirectory, PluckReferences, ReadClock, CleanupStops, CleanupStep, agPage, agCache
<1>19. CASE FillForm \/ ClearProof
  BY <1>13, <1>19 DEF FillForm, ClearProof
<1> QED BY <1>3, <1>4, <1>5, <1>6, <1>7, <1>8, <1>9, <1>10, <1>11, <1>12, <1>14, <1>15, <1>16, <1>17,
           <1>18, <1>19 DEF AgentNext

\* OwnRequestShown: for any requests, routes, late answers and decisions of
\* others, the list counts what the agent submitted, and a request the agent
\* cancelled is not offered for cancellation again; except where a late
\* submission led the page to another request before the cancellation was
\* answered (onSuccess of AgentRequestCreatePage and AgentRequestDetailPage).
THEOREM RequestsCorrect == AgentSpec => []OwnRequestShown
<1>1. ASSUME RequestsShown PROVE OwnRequestShown
  <2>1. ASSUME NEW i \in DOMAIN agCalls, Succeeded(agCalls[i]), agCalls[i].kind = "submit",
               agRoute = "list", agListKey.filter = "", Settled(RequestList)
        PROVE  RequestList.data.total >= agCalls[i].about
    <3>1. Known(RequestList, RequestsUsed(agListKey), CountingTo(agCalls[i].about)) /\ RequestsUsed(agListKey)
      BY <1>1, <2>1 DEF RequestsShown, RequestCaches, SubmissionsCounted, RequestList, RequestsUsed
    <3> QED BY <2>1, <3>1 DEF Known, CountingTo
  <2>2. ASSUME NEW i \in DOMAIN agCalls, Succeeded(agCalls[i]), agCalls[i].kind = "cancel",
               agCalls[i].page = agCalls[i].about, agRoute = "detail", agShown = agCalls[i].about,
               Settled(agDetails[agShown])
        PROVE  ~CancelOffered
    <3>1. Known(agDetails[agShown], RequestUsed(agShown), Ended) /\ RequestUsed(agShown)
      BY <1>1, <2>2 DEF RequestsShown, RequestCaches, CancellationsKnown, RequestUsed
    <3> QED BY <2>2, <3>1 DEF Known, Ended, CancelOffered
  <2> QED BY <2>1, <2>2 DEF OwnRequestShown, Succeeded
<1> QED BY <1>1, AgentInitially, AgentStepped, RequestsInitially, RequestsStepped, PTL DEF AgentSpec

-----------------------------------------------------------------------------
(* The tab as a whole.                                                     *)

\* A step of the tab is one of the group in view; the other groups stay.
LEMMA GroupsStepped ==
    ASSUME [Next]_<<tab, reviewVars, listVars, assignmentVars, detailVars, agentVars, clientVars, dashboardVars>>
    PROVE  [ReviewNext]_reviewVars /\ [ListPagesNext]_listVars /\ [DetailNext]_detailVars /\ [AgentNext]_agentVars
BY DEF Next, ReviewStep, ListStep, AssignmentStep, DetailStep, AgentStep, ClientStep, DashboardStep, Others, Keep

\* OwnWritesShown: for any requests, records, pages, fields and faults, a
\* decision, a save and a request whose answer has arrived show in the list
\* and on the page loaded next, however late the answers and whoever else
\* writes (the onSuccess handlers of the pages and their invalidateQueries);
\* a cancellation does unless its page had come to show another request.
THEOREM OwnWritesCorrect == Spec => []OwnWritesShown
<1>1. Init => ReviewInit /\ ListInit /\ DetailInit /\ AgentInit
  BY DEF Init
<1>2. Spec => ReviewSpec /\ ListPagesSpec /\ DetailSpec /\ AgentSpec
  BY <1>1, GroupsStepped, PTL DEF Spec, ReviewSpec, ListPagesSpec, DetailSpec, AgentSpec
<1>3. OwnDecisionShown /\ OwnSaveShown /\ OwnRequestShown /\ FormShowsOwnSave => OwnWritesShown
  BY DEF OwnWritesShown
<1> QED BY <1>2, <1>3, DecisionsCorrect, ListsCorrect, RequestsCorrect, FormCorrect, PTL
=============================================================================
