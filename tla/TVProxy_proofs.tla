--------------------------- MODULE TVProxy_proofs ---------------------------
(***************************************************************************)
(* Proofs about TVProxy, for any number of attempts, operators and pairs   *)
(* of cookies: its type invariant, the two properties of the cookies, and  *)
(* that its calls implement the atomic calls of RemoteAccess.              *)
(***************************************************************************)
EXTENDS TVProxy, TLAPS

\* The answers and the fillers are told apart by TypeOK and by these.
LEMMA IdleTyped == NoCall \in CallState /\ NoUpdate \in UpdateState
BY AttemptsAssumption, PairsAssumption
   DEF NoCall, CallState, NoUpdate, UpdateState, Both, Cookies, Answers

-----------------------------------------------------------------------------
(* Type correctness.                                                       *)

LEMMA InitTyped == Init => TypeOK
BY IdleTyped, PairsAssumption DEF Init, TypeOK, Both, Cookies

\* Every result a call returns is one of the results.
LEMMA ReturnTyped ==
    ASSUME NEW result \in {"none", "ok", "exists", "error"}, Return(result)
    PROVE  call' \in CallState
BY IdleTyped DEF Return, CallState, NoCall

LEMMA RetryTyped ==
    ASSUME TypeOK, call.attempt < MaxAttempts, Retry
    PROVE  call' \in CallState
<1> DEFINE n == call.attempt + 1
<1>1. n \in 0..MaxAttempts
  BY AttemptsAssumption DEF TypeOK, CallState
<1>2. call' = [call EXCEPT !.pc = "send", !.attempt = n]
  BY DEF Retry
<1> HIDE DEF n
<1> QED BY <1>1, <1>2 DEF TypeOK, CallState

LEMMA BeginTyped ==
    ASSUME TypeOK, NEW op \in {"read", "add", "remove", "modify"},
           NEW e \in Ends \cup {NoAccess}, Begin(op, e)
    PROVE  TypeOK'
<1> DEFINE held == remote # NoAccess
<1>1. held \in BOOLEAN
  OBVIOUS
<1>2. call' = [NoCall EXCEPT !.pc = "send", !.op = op, !.end = e,
                             !.attempt = 1, !.held = held]
  BY DEF Begin
<1> HIDE DEF held
<1>3. 1 \in 0..MaxAttempts
  BY AttemptsAssumption
<1>4. call' \in CallState
  BY <1>1, <1>2, <1>3, IdleTyped DEF CallState
<1> QED BY <1>4 DEF TypeOK, Begin, Session

LEMMA StepTyped ==
    ASSUME TypeOK, Step
    PROVE  TypeOK'
<1>1. CASE Send
  BY <1>1 DEF Send, TypeOK, CallState, Session
<1>2. CASE Serve
  <2>1. call' \in CallState
    <3>1. ASSUME NEW answer \in Answers,
                 \/ call' = [call EXCEPT !.answer = answer, !.effect = TRUE]
                 \/ call' = [call EXCEPT !.answer = answer]
          PROVE  call' \in CallState
      BY <3>1 DEF TypeOK, CallState
    <3>2. \E answer \in Answers :
             \/ call' = [call EXCEPT !.answer = answer, !.effect = TRUE]
             \/ call' = [call EXCEPT !.answer = answer]
      BY <1>2 DEF Serve, Answers
    <3> QED BY <3>1, <3>2
  <2>2. remote' \in Ends \cup {NoAccess}
    BY <1>2 DEF Serve, Carry, TypeOK, CallState
  <2> QED BY <1>2, <2>1, <2>2 DEF Serve, TypeOK, Session
<1>3. CASE Receive \/ Lost \/ BodyLost
  <2>1. Result \in {"none", "ok", "exists", "error"}
    BY DEF Result
  <2>2. call' \in CallState
    BY <1>3, <2>1, ReturnTyped, RetryTyped DEF Receive, Lost, BodyLost
  <2> QED BY <1>3, <2>2 DEF Receive, Lost, BodyLost, TypeOK, Session
<1> QED BY <1>1, <1>2, <1>3 DEF Step

LEMMA UpdateTyped ==
    ASSUME TypeOK, NEW q \in Operators, UpdateCookies(q) \/ UpdateStep(q)
    PROVE  TypeOK'
<1>1. CASE UpdateCookies(q)
  <2>1. update' \in [Operators -> UpdateState]
    <3>1. PICK pair \in Pairs :
             update' = [r \in Operators |->
                IF r = q THEN [pc |-> "save", pair |-> pair,
                     alone |-> {i \in Operators : update[i].pc # "idle"} = {}]
                ELSE [update[r] EXCEPT !.alone = FALSE]]
      BY <1>1 DEF UpdateCookies
    <3> DEFINE b == {i \in Operators : update[i].pc # "idle"} = {}
    <3>2. b \in BOOLEAN
      OBVIOUS
    <3>3. update' = [r \in Operators |->
                IF r = q THEN [pc |-> "save", pair |-> pair, alone |-> b]
                ELSE [update[r] EXCEPT !.alone = FALSE]]
      BY <3>1
    <3> HIDE DEF b
    <3> QED BY <3>2, <3>3 DEF TypeOK, UpdateState
  <2> QED BY <1>1, <2>1 DEF UpdateCookies, TypeOK
<1>2. CASE SaveTVCookies(q)
  <2>1. update' \in [Operators -> UpdateState]
    BY <1>2, IdleTyped DEF SaveTVCookies, Done, TypeOK, UpdateState
  <2>2. saved' \in Pairs \cup {NoPair}
    BY <1>2 DEF SaveTVCookies, TypeOK, UpdateState
  <2> QED BY <1>2, <2>1, <2>2 DEF SaveTVCookies, TypeOK
<1>3. CASE AssignID(q)
  <2>1. update' \in [Operators -> UpdateState]
    BY <1>3 DEF AssignID, TypeOK, UpdateState
  <2>2. mem' \in Cookies
    BY <1>3 DEF AssignID, TypeOK, UpdateState, Cookies
  <2> QED BY <1>3, <2>1, <2>2 DEF AssignID, TypeOK
<1>4. CASE AssignSign(q)
  <2>1. update' \in [Operators -> UpdateState]
    BY <1>4, IdleTyped DEF AssignSign, Done, TypeOK
  <2>2. mem' \in Cookies
    BY <1>4 DEF AssignSign, TypeOK, UpdateState, Cookies
  <2>3. current' \in Pairs \cup {NoPair}
    BY <1>4 DEF AssignSign, TypeOK, UpdateState
  <2> QED BY <1>4, <2>1, <2>2, <2>3 DEF AssignSign, TypeOK
<1> QED BY <1>1, <1>2, <1>3, <1>4 DEF UpdateStep

LEMMA RestartTyped ==
    ASSUME TypeOK, Restart
    PROVE  TypeOK'
<1>1. mem' \in Cookies
  BY PairsAssumption DEF Restart, TypeOK, Both, Cookies
<1>2. update' \in [Operators -> UpdateState] /\ call' \in CallState
  BY IdleTyped DEF Restart, TypeOK
<1> QED BY <1>1, <1>2 DEF Restart, TypeOK

LEMMA NextTyped ==
    ASSUME TypeOK, [Next]_vars
    PROVE  TypeOK'
<1>1. CASE UNCHANGED vars
  BY <1>1 DEF vars, TypeOK
<1>2. CASE Next
  BY <1>2, BeginTyped, StepTyped, UpdateTyped, RestartTyped DEF Next
<1> QED BY <1>1, <1>2

\* The type invariant: every variable keeps the values its place in the code
\* has, and a call never makes more than MaxAttempts attempts.
THEOREM TypeCorrect == Spec => []TypeOK
<1>1. Init => TypeOK
  BY InitTyped
<1>2. TypeOK /\ [Next]_vars => TypeOK'
  BY NextTyped
<1> QED BY <1>1, <1>2, PTL DEF Spec

-----------------------------------------------------------------------------
(* The cookies.                                                            *)

\* A writer is between its two assignments exactly while it holds the lock,
\* and only then do the cookies in memory belong to different sessions.
LockInv ==
    /\ \A q \in Operators : update[q].pc = "sign" <=> lock = q
    /\ lock = Nobody => mem.id = mem.sign
    /\ \A q \in Operators : lock = q => mem.id = update[q].pair
    /\ HeaderIsOnePair

\* What a change has stored stays stored as long as no other begins.
AloneInv ==
    /\ \A q \in Operators : update[q].alone =>
         /\ \A r \in Operators \ {q} : update[r].pc = "idle"
         /\ update[q].pc \in {"lock", "sign"} => saved = update[q].pair
    /\ current # NoPair => /\ \A q \in Operators : update[q].pc = "idle"
                           /\ saved = current
                           /\ mem = Both(current)

CookieInv == TypeOK /\ LockInv /\ AloneInv

LEMMA InitCookie == Init => CookieInv
BY InitTyped, FillerAssumption, PairsAssumption
   DEF Init, CookieInv, LockInv, AloneInv, HeaderIsOnePair, NoCall, NoUpdate,
       Both

\* The steps of a call change neither the cookies nor the operators' changes.
LEMMA CallCookie ==
    ASSUME CookieInv, UNCHANGED Session,
           call'.header = call.header \/ call'.header = Both(Configured)
             \/ (lock = Nobody /\ call'.header = mem)
    PROVE  LockInv' /\ AloneInv'
BY DEF CookieInv, LockInv, AloneInv, HeaderIsOnePair, Session, Both

LEMMA StepCookie ==
    ASSUME CookieInv,
           Step \/ \E op \in {"read", "add", "remove", "modify"} :
                     \E e \in Ends \cup {NoAccess} : Begin(op, e)
    PROVE  LockInv' /\ AloneInv'
<1>1. UNCHANGED Session
  BY DEF Step, Send, Serve, Receive, Lost, BodyLost, Begin
<1>2. call'.header = call.header \/ call'.header = Both(Configured)
        \/ (lock = Nobody /\ call'.header = mem)
  BY DEF CookieInv, TypeOK, CallState, Step, Send, cookieHeader, Serve,
         Receive, Lost, BodyLost, Begin, Retry, Return, NoCall
<1> QED BY <1>1, <1>2, CallCookie

LEMMA UpdateCookie ==
    ASSUME CookieInv, NEW q \in Operators, UpdateCookies(q) \/ UpdateStep(q)
    PROVE  LockInv' /\ AloneInv'
<1> USE FillerAssumption, PairsAssumption
<1>1. CASE UpdateCookies(q)
  <2>1. PICK pair \in Pairs :
           update' = [r \in Operators |->
              IF r = q THEN [pc |-> "save", pair |-> pair,
                   alone |-> {i \in Operators : update[i].pc # "idle"} = {}]
              ELSE [update[r] EXCEPT !.alone = FALSE]]
    BY <1>1 DEF UpdateCookies
  <2>2. update[q].pc = "idle" /\ update'[q].pc = "save"
    BY <1>1, <2>1 DEF UpdateCookies
  <2>3. \A r \in Operators \ {q} : /\ update'[r].pc = update[r].pc
                                   /\ update'[r].pair = update[r].pair
                                   /\ update'[r].alone = FALSE
    BY <2>1 DEF CookieInv, TypeOK, UpdateState
  <2>4. update'[q].alone => \A r \in Operators : update[r].pc = "idle"
    BY <2>1
  <2>5. LockInv'
    BY <1>1, <2>2, <2>3
       DEF CookieInv, LockInv, HeaderIsOnePair, UpdateCookies
  <2>6. AloneInv'
    BY <1>1, <2>2, <2>3, <2>4 DEF CookieInv, AloneInv, UpdateCookies
  <2> QED BY <2>5, <2>6
<1>2. CASE SaveTVCookies(q)
  <2>1. /\ update[q].pc = "save"
        /\ update'[q].pc \in {"idle", "lock"}
        /\ \A r \in Operators \ {q} : update'[r] = update[r]
    BY <1>2 DEF SaveTVCookies, Done, NoUpdate, CookieInv, TypeOK, UpdateState
  <2>2. update'[q].alone => /\ update[q].alone
                            /\ saved' = update[q].pair
                            /\ update'[q].pair = update[q].pair
    BY <1>2 DEF SaveTVCookies, Done, NoUpdate, CookieInv, TypeOK, UpdateState
  <2>3. current = NoPair
    BY <2>1 DEF CookieInv, AloneInv
  <2>4. LockInv'
    BY <1>2, <2>1 DEF CookieInv, LockInv, HeaderIsOnePair, SaveTVCookies
  <2>5. AloneInv'
    BY <1>2, <2>1, <2>2, <2>3 DEF CookieInv, AloneInv, SaveTVCookies
  <2> QED BY <2>4, <2>5
<1>3. CASE AssignID(q)
  <2>1. /\ update[q].pc = "lock" /\ update' = [update EXCEPT ![q].pc = "sign"]
        /\ lock = Nobody /\ lock' = q
        /\ mem'.id = update[q].pair
    BY <1>3 DEF AssignID, CookieInv, TypeOK, Cookies
  <2>2. current = NoPair
    BY <2>1 DEF CookieInv, AloneInv
  <2>3. LockInv'
    BY <1>3, <2>1
       DEF CookieInv, TypeOK, UpdateState, LockInv, HeaderIsOnePair, AssignID
  <2>4. AloneInv'
    BY <1>3, <2>1, <2>2
       DEF CookieInv, TypeOK, UpdateState, AloneInv, AssignID
  <2> QED BY <2>3, <2>4
<1>4. CASE AssignSign(q)
  <2>1. /\ update[q].pc = "sign" /\ lock = q /\ lock' = Nobody
        /\ update'[q] = NoUpdate
        /\ \A r \in Operators \ {q} : update'[r] = update[r]
    BY <1>4 DEF AssignSign, Done, CookieInv, TypeOK, LockInv
  <2>2. mem' = Both(update[q].pair)
    BY <1>4, <2>1 DEF AssignSign, CookieInv, TypeOK, Cookies, LockInv, Both
  <2>3. current = NoPair
    BY <2>1 DEF CookieInv, AloneInv
  <2>4. LockInv'
    BY <1>4, <2>1, <2>2
       DEF CookieInv, LockInv, HeaderIsOnePair, AssignSign, NoUpdate, Both
  <2>5. AloneInv'
    BY <1>4, <2>1, <2>2, <2>3
       DEF CookieInv, AloneInv, AssignSign, NoUpdate
  <2> QED BY <2>4, <2>5
<1> QED BY <1>1, <1>2, <1>3, <1>4 DEF UpdateStep

LEMMA RestartCookie ==
    ASSUME CookieInv, Restart
    PROVE  LockInv' /\ AloneInv'
<1> USE FillerAssumption, PairsAssumption
<1>1. \A q \in Operators : update'[q] = NoUpdate
  BY DEF Restart
<1>2. LockInv'
  BY <1>1 DEF Restart, CookieInv, LockInv, HeaderIsOnePair, NoUpdate, NoCall,
              Both
<1>3. AloneInv'
  BY <1>1 DEF Restart, CookieInv, AloneInv, NoUpdate, Both
<1> QED BY <1>2, <1>3

LEMMA NextCookie ==
    ASSUME CookieInv, [Next]_vars
    PROVE  CookieInv'
<1>1. TypeOK'
  BY NextTyped DEF CookieInv
<1>2. CASE UNCHANGED vars
  BY <1>1, <1>2, CallCookie DEF CookieInv, vars, Session
<1>3. CASE Next
  BY <1>1, <1>3, StepCookie, UpdateCookie, RestartCookie DEF Next, CookieInv
<1> QED BY <1>2, <1>3

LEMMA CookieCorrect == Spec => []CookieInv
BY InitCookie, NextCookie, PTL DEF Spec

\* A request never carries the cookies of two sessions, whatever number of
\* operators replace them while calls are sent.
THEOREM HeaderCorrect == Spec => []HeaderIsOnePair
<1>1. CookieInv => HeaderIsOnePair
  BY DEF CookieInv, LockInv
<1> QED BY <1>1, CookieCorrect, PTL

\* A change of the cookies that succeeded, and that no other overlapped, is
\* what the server stores and uses until the next one, through restarts.
THEOREM SessionCorrect == Spec => []SessionSurvives
<1>1. CookieInv => SessionSurvives
  BY DEF CookieInv, AloneInv, SessionSurvives
<1> QED BY <1>1, CookieCorrect, PTL

-----------------------------------------------------------------------------
(* The calls implement RemoteAccess.                                       *)

\* What is known of the access while a call goes on: before the call takes
\* effect it is as it was found, afterwards as the call wants it, and every
\* answer that promises something is backed by one of the two.
CallInv ==
    /\ call.pc = "idle" <=> call.op = "none"
    /\ call.op \in {"add", "modify"} => call.end \in Ends
    /\ call.op \in {"read", "add", "remove", "modify"} /\ ~ call.effect =>
         (call.held <=> remote # NoAccess)
    /\ call.effect /\ call.op \in {"add", "modify"} => remote = call.end
    /\ call.effect /\ call.op = "remove" => remote = NoAccess
    /\ call.op = "none" => ~ call.held /\ ~ call.effect /\ call.end = NoAccess
    /\ call.op # "none" => call.result = "none"
    /\ call.answer \in {"created", "ok"} => call.effect
    /\ call.answer = "exists" =>
         call.op = "add" /\ (call.held \/ call.effect)

\* The call as RemoteAccess sees it.
AbsCall == [op |-> call.op, end |-> call.end, held |-> call.held,
            effect |-> call.effect /\ call.op # "read", result |-> call.result]

LEMMA AbsIdle ==
    ASSUME NEW result \in {"ok", "exists", "error", "none"}, Return(result)
    PROVE  AbsCall' = [Abstract!NoCall EXCEPT !.result = result]
<1>1. /\ call'.op = "none" /\ call'.end = NoAccess /\ call'.held = FALSE
      /\ call'.effect = FALSE /\ call'.result = result
  BY DEF Return, NoCall
<1>2. (call'.effect /\ call'.op # "read") = FALSE
  BY <1>1
<1>3. AbsCall' = [op |-> "none", end |-> NoAccess, held |-> FALSE,
                  effect |-> FALSE, result |-> result]
  BY <1>1, <1>2 DEF AbsCall
<1>4. [Abstract!NoCall EXCEPT !.result = result] =
        [op |-> "none", end |-> NoAccess, held |-> FALSE, effect |-> FALSE,
         result |-> result]
  <2> DEFINE no == Abstract!NoCall
             s == [op |-> "none", end |-> NoAccess, held |-> FALSE,
                   effect |-> FALSE, result |-> result]
             R == [op : {"none"}, end : {NoAccess}, held : BOOLEAN,
                   effect : BOOLEAN, result : {"ok", "exists", "error", "none"}]
  <2>1. /\ no \in R /\ no.op = "none" /\ no.end = NoAccess
        /\ no.held = FALSE /\ no.effect = FALSE
    BY DEF Abstract!NoCall
  <2>2. /\ s \in R /\ s.op = "none" /\ s.end = NoAccess
        /\ s.held = FALSE /\ s.effect = FALSE /\ s.result = result
    OBVIOUS
  <2> HIDE DEF no, s
  <2>3. [no EXCEPT !.result = result] = s
    BY <2>1, <2>2
  <2> QED BY <2>3 DEF no, s
<1> QED BY <1>3, <1>4

LEMMA InitRefines == Init => Abstract!Init /\ CallInv
<1> SUFFICES ASSUME Init PROVE Abstract!Init /\ CallInv
  OBVIOUS
<1>1. /\ call.op = "none" /\ call.end = NoAccess /\ call.held = FALSE
      /\ call.effect = FALSE /\ call.result = "none"
  BY DEF Init, NoCall
<1>2. (call.effect /\ call.op # "read") = FALSE
  BY <1>1
<1>3. AbsCall = Abstract!NoCall
  BY <1>1, <1>2 DEF AbsCall, Abstract!NoCall
<1>4. Abstract!Init
  BY <1>3 DEF Init, Abstract!Init, AbsCall
<1>5. CallInv
  BY <1>1 DEF Init, NoCall, CallInv
<1> QED BY <1>4, <1>5

LEMMA BeginRefines ==
    ASSUME TypeOK, CallInv,
           NEW op \in {"read", "add", "remove", "modify"},
           NEW e \in Ends \cup {NoAccess},
           op \in {"add", "modify"} => e \in Ends,
           Begin(op, e)
    PROVE  Abstract!Begin(op, e) /\ CallInv'
<1>1. call' = [NoCall EXCEPT !.pc = "send", !.op = op, !.end = e,
                             !.attempt = 1, !.held = remote # NoAccess]
  BY DEF Begin
<1>2. AbsCall' = [op |-> op, end |-> e, held |-> remote # NoAccess,
                  effect |-> FALSE, result |-> "none"]
  BY <1>1 DEF AbsCall, NoCall
<1>3. call.op = "none" /\ UNCHANGED remote
  BY DEF Begin, CallInv
<1>4. Abstract!Begin(op, e)
  BY <1>2, <1>3 DEF Abstract!Begin, AbsCall
<1>5. CallInv'
  BY <1>1, <1>3 DEF CallInv, NoCall
<1> QED BY <1>4, <1>5

\* A request that is served takes effect for the first time, or does again
\* what an earlier attempt has done, or does nothing.
LEMMA ServeRefines ==
    ASSUME TypeOK, CallInv, Serve
    PROVE  /\ Abstract!Effect \/ UNCHANGED <<remote, AbsCall>>
           /\ CallInv'
<1>1. call.pc = "wait" /\ call.op \in {"read", "add", "remove", "modify"}
  BY DEF Serve, CallInv, TypeOK, CallState
<1>2. CASE /\ Carry
           /\ \E answer \in {IF call.op = "add" THEN "created" ELSE "ok",
                             "server_error"} :
                call' = [call EXCEPT !.answer = answer, !.effect = TRUE]
  <2>1. PICK answer \in {"created", "ok", "server_error"} :
           call' = [call EXCEPT !.answer = answer, !.effect = TRUE]
    BY <1>2
  <2>2. CallInv'
    BY <1>1, <1>2, <2>1, FillerAssumption DEF CallInv, Carry, TypeOK, CallState
  <2>3. AbsCall' = [AbsCall EXCEPT !.effect = call.op # "read"]
    BY <2>1 DEF AbsCall, TypeOK, CallState
  <2>4. CASE call.op = "read" \/ call.effect
    <3>1. UNCHANGED remote
      BY <1>1, <1>2, <2>4, FillerAssumption DEF Carry, CallInv, TypeOK, CallState
    <3>2. UNCHANGED AbsCall
      BY <2>1, <2>4 DEF AbsCall, TypeOK, CallState
    <3> QED BY <2>2, <3>1, <3>2
  <2>5. CASE call.op # "read" /\ ~ call.effect
    <3>1. AbsCall' = [AbsCall EXCEPT !.effect = TRUE]
      <4>1. (call.op # "read") = TRUE
        BY <2>5
      <4> QED BY <2>3, <4>1
    <3>2. remote' = IF call.op = "remove" THEN NoAccess ELSE call.end
      BY <1>1, <1>2, <2>5 DEF Carry
    <3>3. /\ call.op = "add" => ~ call.held
          /\ call.op = "modify" => call.held
      BY <1>1, <1>2, <2>5 DEF Carry, CallInv
    <3> QED BY <1>1, <2>2, <2>5, <3>1, <3>2, <3>3
            DEF Abstract!Effect, Abstract!NoCall, AbsCall
  <2> QED BY <2>4, <2>5
<1>3. CASE /\ call.op = "add" /\ remote # NoAccess
           /\ call' = [call EXCEPT !.answer = "exists"]
           /\ UNCHANGED remote
  BY <1>1, <1>3 DEF CallInv, AbsCall, TypeOK, CallState
<1>4. CASE /\ \E answer \in {"refused", "denied", "server_error"} :
                call' = [call EXCEPT !.answer = answer]
           /\ UNCHANGED remote
  BY <1>1, <1>4 DEF CallInv, AbsCall, TypeOK, CallState
<1> QED BY <1>2, <1>3, <1>4 DEF Serve

\* A call that returns says no more than what it has done.
LEMMA ReturnRefines ==
    ASSUME TypeOK, CallInv, call.op # "none", UNCHANGED remote,
           NEW result \in {"ok", "exists", "error", "none"}, Return(result),
           result = "ok" /\ call.op # "read" => call.effect,
           result = "exists" => call.op = "add" /\ (call.held \/ call.effect)
    PROVE  Abstract!Next /\ CallInv'
<1>1. Abstract!Return(result)
  BY AbsIdle DEF Abstract!Return, AbsCall
<1>2. CallInv'
  BY DEF Return, CallInv, NoCall
<1> QED BY <1>1, <1>2 DEF Abstract!Next

LEMMA RetryRefines ==
    ASSUME TypeOK, CallInv, call.pc = "wait", UNCHANGED remote, Retry
    PROVE  UNCHANGED <<remote, AbsCall>> /\ CallInv'
BY DEF Retry, AbsCall, CallInv, TypeOK, CallState

LEMMA StepRefines ==
    ASSUME TypeOK, CallInv, Step
    PROVE  (Abstract!Next \/ UNCHANGED <<remote, AbsCall>>) /\ CallInv'
<1>1. CASE Send
  BY <1>1 DEF Send, AbsCall, CallInv, TypeOK, CallState, Session
<1>2. CASE Serve
  BY <1>2, ServeRefines DEF Abstract!Next
<1>3. CASE Receive
  <2>1. call.pc = "wait" /\ call.op # "none" /\ UNCHANGED remote
    BY <1>3 DEF Receive, CallInv
  <2>2. CASE Retry
    BY <2>1, <2>2, RetryRefines
  <2>3. CASE Return(Result)
    <3>1. Result \in {"ok", "exists", "error", "none"}
      BY DEF Result
    <3>2. Result = "ok" => call.answer \in {"created", "ok"}
      BY <1>3 DEF Result, Receive, TypeOK, CallState, Answers
    <3>3. Result = "exists" => call.answer = "exists"
      BY DEF Result
    <3> QED BY <2>1, <2>3, <3>1, <3>2, <3>3, ReturnRefines DEF CallInv
  <2> QED BY <1>3, <2>2, <2>3 DEF Receive
<1>4. CASE Lost \/ BodyLost
  <2>1. call.pc = "wait" /\ call.op # "none" /\ UNCHANGED remote
    BY <1>4 DEF Lost, BodyLost, CallInv
  <2>2. Retry \/ Return("error")
    BY <1>4 DEF Lost, BodyLost
  <2> QED BY <2>1, <2>2, RetryRefines, ReturnRefines
<1> QED BY <1>1, <1>2, <1>3, <1>4 DEF Step

LEMMA RestartRefines ==
    ASSUME TypeOK, CallInv, Restart
    PROVE  (Abstract!Next \/ UNCHANGED <<remote, AbsCall>>) /\ CallInv'
<1>1. CASE call.pc = "idle"
  BY <1>1 DEF Restart, AbsCall, CallInv
<1>2. CASE call.pc # "idle"
  <2>1. call.op # "none" /\ UNCHANGED remote
    BY <1>2 DEF Restart, CallInv
  <2>2. Return("none")
    <3>1. call' = NoCall
      BY <1>2 DEF Restart
    <3>2. NoCall.result = "none"
      BY DEF NoCall
    <3>3. [NoCall EXCEPT !.result = "none"] = NoCall
      BY <3>2, IdleTyped DEF CallState
    <3> QED BY <3>1, <3>3 DEF Return
  <2> QED BY <2>1, <2>2, ReturnRefines
<1> QED BY <1>1, <1>2

LEMMA NextRefines ==
    ASSUME TypeOK, CallInv, [Next]_vars
    PROVE  [Abstract!Next]_(Abstract!vars) /\ CallInv'
<1> SUFFICES (Abstract!Next \/ UNCHANGED <<remote, AbsCall>>) /\ CallInv'
  BY DEF Abstract!vars, AbsCall
<1>1. CASE UNCHANGED vars
  BY <1>1 DEF vars, AbsCall, CallInv
<1>2. CASE \/ \E e \in Ends : Begin("add", e) \/ Begin("modify", e)
           \/ Begin("remove", NoAccess) \/ Begin("read", NoAccess)
  BY <1>2, BeginRefines DEF Abstract!Next
<1>3. CASE Step
  BY <1>3, StepRefines
<1>4. CASE \E q \in Operators : UpdateCookies(q) \/ UpdateStep(q)
  BY <1>4 DEF UpdateCookies, UpdateStep, SaveTVCookies, AssignID, AssignSign,
              AbsCall, CallInv
<1>5. CASE Restart
  BY <1>5, RestartRefines
<1> QED BY <1>1, <1>2, <1>3, <1>4, <1>5 DEF Next

\* Whatever requests and answers are lost and however often a call is sent
\* again, it takes effect once or not at all, and its answer says no more than
\* what it has done: the calls of the proxy are those of RemoteAccess.
THEOREM CallsImplement == Spec => ImplementsRemoteAccess
<1>1. Init => Abstract!Init /\ TypeOK /\ CallInv
  BY InitRefines, InitTyped
<1>2. TypeOK /\ CallInv /\ [Next]_vars =>
        [Abstract!Next]_(Abstract!vars) /\ TypeOK' /\ CallInv'
  BY NextRefines, NextTyped
<1> QED BY <1>1, <1>2, PTL DEF Spec, ImplementsRemoteAccess, Abstract!Spec

=============================================================================
