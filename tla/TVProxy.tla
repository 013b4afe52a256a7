------------------------------ MODULE TVProxy ------------------------------
(***************************************************************************)
(* The way to TradingView: doRequest, which retries a call over HTTP, and  *)
(* the session cookies it sends, which an operator replaces in the         *)
(* database and in memory while calls go on.                               *)
(*                                                                         *)
(* One caller works on the access of one user and script.  TradingView and *)
(* the network are modelled as the code meets them: a request is served or *)
(* not, its answer arrives, arrives in part, or is lost.  A request that   *)
(* was given up on is not served later.                                    *)
(***************************************************************************)
EXTENDS Integers

CONSTANTS
    Ends,         \* expirations of an access
    NoAccess,     \* TradingView holds no access
    MaxAttempts,  \* MaxRetries + 1, at least 1
    Operators,    \* goroutines that serve a change of the cookies
    Pairs,        \* session cookies: sessionid with its sessionid_sign
    Configured,   \* the pair of the configuration file
    NoPair,       \* nothing stored
    Nobody        \* the lock is free

ASSUME AttemptsAssumption == MaxAttempts \in Nat \ {0}
ASSUME PairsAssumption == Configured \in Pairs /\ NoPair \notin Pairs
ASSUME FillerAssumption == NoAccess \notin Ends /\ Nobody \notin Operators

VARIABLES
    remote,  \* TradingView: the end of the access, or NoAccess
    call,    \* the call that is going on
    mem,     \* cfg.SessionID and cfg.SessionIDSign
    lock,    \* mu, as held by a writer
    saved,   \* the row of system_settings
    update,  \* what each operator's request is doing
    current  \* history: the pair of a successful change none has followed

vars == <<remote, call, mem, lock, saved, update, current>>

Cookies == [id : Pairs, sign : Pairs]

Answers == {"created", "ok", "exists", "refused", "denied", "server_error"}

CallState == [pc : {"idle", "send", "wait"},
              op : {"none", "read", "add", "remove", "modify"},
              end : Ends \cup {NoAccess},
              attempt : 0..MaxAttempts,
              header : Cookies,
              answer : Answers \cup {"none"},
              held : BOOLEAN,     \* history: there was an access before
              effect : BOOLEAN,   \* history: an attempt was carried out
              result : {"none", "ok", "exists", "error"}]

UpdateState == [pc : {"idle", "save", "lock", "sign"}, pair : Pairs,
                alone : BOOLEAN]  \* history: no other change overlaps

Both(pair) == [id |-> pair, sign |-> pair]

NoCall == [pc |-> "idle", op |-> "none", end |-> NoAccess, attempt |-> 0,
           header |-> Both(Configured), answer |-> "none", held |-> FALSE,
           effect |-> FALSE, result |-> "none"]

NoUpdate == [pc |-> "idle", pair |-> Configured, alone |-> FALSE]

TypeOK ==
    /\ remote \in Ends \cup {NoAccess}
    /\ call \in CallState
    /\ mem \in Cookies
    /\ lock \in Operators \cup {Nobody}
    /\ saved \in Pairs \cup {NoPair}
    /\ update \in [Operators -> UpdateState]
    /\ current \in Pairs \cup {NoPair}

Init ==
    /\ remote = NoAccess
    /\ call = NoCall
    /\ mem = Both(Configured)
    /\ lock = Nobody
    /\ saved = NoPair
    /\ update = [q \in Operators |-> NoUpdate]
    /\ current = NoPair

Session == <<mem, lock, saved, update, current>>

-----------------------------------------------------------------------------
(* A call: AddAccess, RemoveAccess, ModifyExpiration, or one that reads.   *)

Begin(op, e) ==
    /\ call.pc = "idle"
    /\ call' = [NoCall EXCEPT !.pc = "send", !.op = op, !.end = e,
                              !.attempt = 1, !.held = remote # NoAccess]
    /\ UNCHANGED <<remote, Session>>

\* Mutant: the header is read without the lock.
cookieHeaderUnlocked == TRUE

\* Readers wait while a writer holds the lock.
cookieHeader == lock = Nobody

Send ==
    /\ call.pc = "send"
    /\ cookieHeader
    /\ call' = [call EXCEPT !.pc = "wait", !.header = mem, !.answer = "none"]
    /\ UNCHANGED <<remote, Session>>

\* TradingView carries the request out.
Carry ==
    /\ call.op = "modify" => remote # NoAccess
    /\ call.op = "add" => remote = NoAccess
    /\ remote' = CASE call.op = "remove" -> NoAccess
                   [] call.op = "read" -> remote
                   [] OTHER -> call.end

\* It carries the request out and says so or fails afterwards, finds that the
\* access is there, or does nothing and says why.
Serve ==
    /\ call.pc = "wait" /\ call.answer = "none"
    /\ \/ /\ Carry
          /\ \E answer \in {IF call.op = "add" THEN "created" ELSE "ok",
                            "server_error"} :
               call' = [call EXCEPT !.answer = answer, !.effect = TRUE]
       \/ /\ call.op = "add" /\ remote # NoAccess
          /\ call' = [call EXCEPT !.answer = "exists"]
          /\ UNCHANGED remote
       \/ /\ \E answer \in {"refused", "denied", "server_error"} :
               call' = [call EXCEPT !.answer = answer]
          /\ UNCHANGED remote
    /\ UNCHANGED Session

Return(result) == call' = [NoCall EXCEPT !.result = result]

\* Mutant: the attempts are not counted.
RetryForever == call' = [call EXCEPT !.pc = "send"]

Retry == call' = [call EXCEPT !.pc = "send", !.attempt = @ + 1]

\* Mutant: after the last attempt a failure of the server goes unnoticed.
ResultUnnoticed ==
    CASE call.answer = "exists" -> "exists"
      [] call.answer \in {"refused", "denied"} -> "error"
      [] OTHER -> "ok"

\* What an answer that is not retried comes to.
Result ==
    CASE call.answer = "exists" -> "exists"
      [] call.answer \in {"refused", "denied", "server_error"} -> "error"
      [] OTHER -> "ok"

\* The answer arrives.
Receive ==
    /\ call.pc = "wait" /\ call.answer # "none"
    /\ IF call.answer = "server_error" /\ call.attempt < MaxAttempts
       THEN Retry ELSE Return(Result)
    /\ UNCHANGED <<remote, Session>>

\* Mutant: one attempt too many.
LostOnceMore ==
    /\ call.pc = "wait"
    /\ IF call.attempt <= MaxAttempts THEN Retry ELSE Return("error")
    /\ UNCHANGED <<remote, Session>>

\* client.Do fails, before or after the request was served.
Lost ==
    /\ call.pc = "wait"
    /\ IF call.attempt < MaxAttempts THEN Retry ELSE Return("error")
    /\ UNCHANGED <<remote, Session>>

\* The head of the answer arrives and its body does not: no retry.
BodyLost ==
    /\ call.pc = "wait" /\ call.answer # "none"
    /\ Return("error")
    /\ UNCHANGED <<remote, Session>>

-----------------------------------------------------------------------------
(* Changing the cookies.                                                   *)

UpdateCookies(q) ==
    /\ update[q].pc = "idle"
    /\ \E pair \in Pairs :
         LET busy == {r \in Operators : update[r].pc # "idle"}
         IN  update' = [r \in Operators |->
                IF r = q THEN [pc |-> "save", pair |-> pair, alone |-> busy = {}]
                ELSE [update[r] EXCEPT !.alone = FALSE]]
    /\ current' = NoPair
    /\ UNCHANGED <<remote, call, mem, lock, saved>>

Done(q) == update' = [update EXCEPT ![q] = NoUpdate]

\* Mutant: the row is inserted once and kept from then on.
SaveTVCookiesOnce(q) ==
    /\ update[q].pc = "save"
    /\ saved' = IF saved = NoPair THEN update[q].pair ELSE saved
    /\ update' = [update EXCEPT ![q].pc = "lock"]
    /\ UNCHANGED <<remote, call, mem, lock, current>>

\* Inserts the row or replaces its value; or fails, or seems to.
SaveTVCookies(q) ==
    /\ update[q].pc = "save"
    /\ \/ saved' = update[q].pair /\ update' = [update EXCEPT ![q].pc = "lock"]
       \/ saved' \in {saved, update[q].pair} /\ Done(q)
    /\ UNCHANGED <<remote, call, mem, lock, current>>

\* The two assignments of TradingViewProxy.UpdateCookies, under the lock.
AssignID(q) ==
    /\ update[q].pc = "lock"
    /\ lock = Nobody
    /\ lock' = q
    /\ mem' = [mem EXCEPT !.id = update[q].pair]
    /\ update' = [update EXCEPT ![q].pc = "sign"]
    /\ UNCHANGED <<remote, call, saved, current>>

AssignSign(q) ==
    /\ update[q].pc = "sign"
    /\ lock' = Nobody
    /\ mem' = [mem EXCEPT !.sign = update[q].pair]
    /\ Done(q)
    /\ current' = IF update[q].alone THEN update[q].pair ELSE current
    /\ UNCHANGED <<remote, call, saved>>

\* The server dies and starts again with the stored pair.  If that cannot be
\* read it logs a warning and goes on with the configured one.
Restart ==
    /\ call' = IF call.pc = "idle" THEN call ELSE NoCall
    /\ lock' = Nobody
    /\ update' = [q \in Operators |-> NoUpdate]
    /\ \/ /\ mem' = Both(IF saved = NoPair THEN Configured ELSE saved)
          /\ UNCHANGED current
       \/ mem' = Both(Configured) /\ current' = NoPair
    /\ UNCHANGED <<remote, saved>>

-----------------------------------------------------------------------------
Step == Send \/ Serve \/ Receive \/ Lost \/ BodyLost

UpdateStep(q) == SaveTVCookies(q) \/ AssignID(q) \/ AssignSign(q)

Next ==
    \/ \E e \in Ends : Begin("add", e) \/ Begin("modify", e)
    \/ Begin("remove", NoAccess) \/ Begin("read", NoAccess)
    \/ Step
    \/ \E q \in Operators : UpdateCookies(q) \/ UpdateStep(q)
    \/ Restart

Spec == Init /\ [][Next]_vars

\* The client's timeout ends every wait for an answer, and goroutines run on.
\* A reader that waits for the lock is let in between two writers.
Fairness ==
    /\ WF_vars(Serve \/ Receive \/ Lost \/ BodyLost)
    /\ SF_vars(Send)
    /\ \A q \in Operators : WF_vars(UpdateStep(q))

FairSpec == Spec /\ Fairness

-----------------------------------------------------------------------------
(* Properties.                                                             *)

\* A request carries the two cookies of one session, although operators
\* replace them one after the other while it is put together.
HeaderIsOnePair == call.header.id = call.header.sign

\* Once a change of the cookies has succeeded that no other overlapped, the
\* server uses that pair until the next change begins, restarts included.
SessionSurvives ==
    current # NoPair =>
        saved = current /\ (lock = Nobody => mem = Both(current))

\* The calls do what AccessGrant takes them to do: through all retries a call
\* takes effect at most once, "ok" is said only of a call that did, "exists"
\* only if there is an access, be it of the call's own earlier attempt.
Abstract == INSTANCE RemoteAccess WITH
    call <- [op |-> call.op, end |-> call.end, held |-> call.held,
             effect |-> call.effect /\ call.op # "read", result |-> call.result]

ImplementsRemoteAccess == Abstract!Spec

\* Every call returns, after MaxAttempts attempts at the latest.
CallReturns == call.pc # "idle" ~> call.pc = "idle"
=============================================================================
