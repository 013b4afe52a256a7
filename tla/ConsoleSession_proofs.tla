------------------------ MODULE ConsoleSession_proofs ------------------------
(***************************************************************************)
(* Proofs about ConsoleSession, for any number of calls and any account:   *)
(* refused calls share one refresh, no call takes effect twice, and a call *)
(* fails only for a cause.                                                 *)
(***************************************************************************)
EXTENDS ConsoleSession, TLAPS

Plain == {"idle", "check", "read", "write", "issue", "back"}

\* A call that took effect once is on its way back, and was not refused; a
\* password is written over a version that was read.
Once(t) ==
    /\ \/ t.effects = 0
       \/ /\ t.effects = 1
          /\ t.pc \in {"issue", "back"}
          /\ t.pc = "back" => t.reply # "unauthorized"
    /\ t.pc = "write" => t.version \in Versions

AllOnce == \A c \in Calls : Once(call[c])

\* The lock is held exactly during a refresh; who waits, waits for it.
LockInv ==
    /\ lock <=> \E c \in Calls : Refreshing(c)
    /\ \A c, d \in Calls : Refreshing(c) /\ Refreshing(d) => c = d
    /\ \A c \in Calls : At(c, "wait") => lock

Inv == TypeOK /\ AllOnce /\ LockInv

CallsOK == call \in [Calls -> CallState] /\ AllOnce

-----------------------------------------------------------------------------
(* Changes of the calls.                                                   *)

LEMMA IdleTyped == Idle \in CallState /\ Once(Idle)
BY DEF Idle, CallState, Token, Replies, Once

LEMMA VersionTyped == 1 \in Versions /\ Versions \subseteq Token /\ 0 \in Token
BY VersionAssumption DEF Versions, Token

\* One call changes.
LEMMA SetOK ==
    ASSUME CallsOK, NEW c \in Calls, NEW t \in CallState, Once(t), Set(c, t)
    PROVE  CallsOK'
BY DEF CallsOK, AllOnce, Set

\* Outside the refresh, and into places outside it.
LEMMA PlainLock ==
    ASSUME Inv, NEW c \in Calls, call[c].pc \in Plain, NEW t \in CallState,
           t.pc \in Plain, Set(c, t), UNCHANGED lock
    PROVE  LockInv'
<1>1. \A d \in Calls : call'[d] = IF d = c THEN t ELSE call[d]
  BY DEF Inv, TypeOK, Set
<1>2. \A d \in Calls : Refreshing(d)' <=> Refreshing(d)
  BY <1>1 DEF Refreshing, Plain
<1>3. \A d \in Calls : At(d, "wait")' <=> At(d, "wait")
  BY <1>1 DEF At, Plain
<1> QED BY <1>2, <1>3 DEF Inv, LockInv

\* Within the refresh.
LEMMA RefreshLock ==
    ASSUME Inv, NEW c \in Calls, Refreshing(c), NEW t \in CallState,
           t.pc \in {"reissue", "refreshed"}, Set(c, t), UNCHANGED lock
    PROVE  LockInv'
<1>1. \A d \in Calls : call'[d] = IF d = c THEN t ELSE call[d]
  BY DEF Inv, TypeOK, Set
<1>2. \A d \in Calls : Refreshing(d)' <=> Refreshing(d)
  BY <1>1 DEF Refreshing
<1>3. \A d \in Calls : At(d, "wait")' <=> At(d, "wait")
  BY <1>1 DEF At, Refreshing
<1> QED BY <1>2, <1>3 DEF Inv, LockInv

\* What a cause changes of a call: its history, nothing else.
SameBut(calls, marked) ==
    \A d \in Calls : \E b \in BOOLEAN : marked[d] = [calls[d] EXCEPT !.cause = b]

LEMMA MarkedSame ==
    ASSUME NEW calls
    PROVE  /\ SameBut(calls, Marked(calls))
           /\ Marked(calls) = [d \in Calls |-> Marked(calls)[d]]
<1>1. ASSUME NEW d \in Calls
      PROVE  \E b \in BOOLEAN : Marked(calls)[d] = [calls[d] EXCEPT !.cause = b]
  <2> DEFINE b == calls[d].pc # "idle"
  <2>1. b \in BOOLEAN
    OBVIOUS
  <2>2. Marked(calls)[d] = [calls[d] EXCEPT !.cause = b]
    BY DEF Marked
  <2> HIDE DEF b
  <2> QED BY <2>1, <2>2
<1>2. Marked(calls) = [d \in Calls |-> Marked(calls)[d]]
  BY DEF Marked
<1> QED BY <1>1, <1>2 DEF SameBut

\* Marked calls are typed, and where they were.
LEMMA MarkedOK ==
    ASSUME NEW calls \in [Calls -> CallState]
    PROVE  /\ Marked(calls) \in [Calls -> CallState]
           /\ \A d \in Calls : /\ Marked(calls)[d].pc = calls[d].pc
                               /\ Marked(calls)[d].reply = calls[d].reply
                               /\ Marked(calls)[d].effects = calls[d].effects
                               /\ Marked(calls)[d].version = calls[d].version
<1> DEFINE m == Marked(calls)
<1>1. SameBut(calls, m) /\ m = [d \in Calls |-> m[d]]
  BY MarkedSame
<1> HIDE DEF m
<1>2. ASSUME NEW d \in Calls
      PROVE  /\ m[d] \in CallState
             /\ m[d].pc = calls[d].pc /\ m[d].reply = calls[d].reply
             /\ m[d].effects = calls[d].effects /\ m[d].version = calls[d].version
  <2>1. PICK b \in BOOLEAN : m[d] = [calls[d] EXCEPT !.cause = b]
    BY <1>1 DEF SameBut
  <2> QED BY <2>1 DEF CallState
<1>3. m \in [Calls -> CallState]
  BY <1>1, <1>2
<1> QED BY <1>2, <1>3 DEF m

\* If calls only get a cause, what is known of them stays.
LEMMA MarkedInv ==
    ASSUME Inv, call' = Marked(call), UNCHANGED lock
    PROVE  CallsOK' /\ LockInv'
<1>1. /\ call' \in [Calls -> CallState]
      /\ \A d \in Calls : /\ call'[d].pc = call[d].pc
                          /\ call'[d].reply = call[d].reply
                          /\ call'[d].effects = call[d].effects
                          /\ call'[d].version = call[d].version
  BY MarkedOK DEF Inv, TypeOK
<1>2. CallsOK'
  BY <1>1 DEF Inv, AllOnce, Once, CallsOK
<1>3. LockInv'
  BY <1>1 DEF Inv, LockInv, Refreshing, At
<1> QED BY <1>2, <1>3

-----------------------------------------------------------------------------
(* The server's steps.                                                     *)

LEMMA SetPlain ==
    ASSUME Inv, NEW c \in Calls, call[c].pc \in Plain, NEW t \in CallState,
           t.pc \in Plain, Once(t), Set(c, t), UNCHANGED lock
    PROVE  CallsOK' /\ LockInv'
BY SetOK, PlainLock DEF Inv, TypeOK, CallsOK

\* A refusal is the answer only to a call that has done nothing.
LEMMA AnswerInv ==
    ASSUME Inv, NEW c \in Calls, NEW reply \in {"unauthorized", "error", "none"},
           call[c].pc \in Plain \ {"idle"},
           reply = "unauthorized" => call[c].pc \in {"check", "read"},
           Set(c, [call[c] EXCEPT !.pc = "back", !.reply = reply,
                                  !.token = 0, !.version = 0]),
           UNCHANGED lock
    PROVE  CallsOK' /\ LockInv'
<1> DEFINE t == [call[c] EXCEPT !.pc = "back", !.reply = reply,
                                !.token = 0, !.version = 0]
<1>1. call[c] \in CallState /\ Once(call[c])
  BY DEF Inv, TypeOK, AllOnce
<1>2. t \in CallState /\ t.pc = "back"
  BY <1>1, VersionTyped DEF CallState, Replies
<1>3. Once(t)
  BY <1>1 DEF Once, CallState
<1>4. Set(c, t)
  OBVIOUS
<1> HIDE DEF t
<1> QED BY <1>2, <1>3, <1>4, SetPlain DEF Plain

LEMMA JWTAuthInv ==
    ASSUME Inv, NEW c \in Calls, JWTAuth(c)
    PROVE  CallsOK' /\ LockInv'
<1>1. call[c] \in CallState /\ Once(call[c]) /\ call[c].pc = "check"
  BY DEF Inv, TypeOK, AllOnce, JWTAuth, At
<1>2. CASE Answer(c, "unauthorized")
  BY <1>1, <1>2, AnswerInv DEF Answer, Plain, JWTAuth
<1>3. CASE Set(c, [call[c] EXCEPT !.pc = "back", !.reply = "ok", !.token = 0,
                                  !.effects = @ + 1])
  <2> DEFINE n == call[c].effects + 1
             t == [call[c] EXCEPT !.pc = "back", !.reply = "ok", !.token = 0,
                                  !.effects = n]
  <2>1. n = 1 /\ n \in 0..2
    BY <1>1 DEF Once
  <2>2. Set(c, t)
    BY <1>3
  <2> HIDE DEF n
  <2>3. t \in CallState /\ t.pc = "back" /\ t.effects = 1 /\ t.reply = "ok"
    BY <1>1, <2>1, VersionTyped DEF CallState, Replies
  <2>4. Once(t)
    BY <2>3 DEF Once
  <2> HIDE DEF t
  <2> QED BY <1>1, <2>2, <2>3, <2>4, SetPlain DEF Plain, JWTAuth
<1>4. CASE Set(c, [call[c] EXCEPT !.pc = "read", !.token = 0])
  <2> DEFINE t == [call[c] EXCEPT !.pc = "read", !.token = 0]
  <2>1. t \in CallState /\ t.pc = "read" /\ Once(t)
    BY <1>1, VersionTyped DEF CallState, Once
  <2>2. Set(c, t)
    BY <1>4
  <2> HIDE DEF t
  <2> QED BY <1>1, <2>1, <2>2, SetPlain DEF Plain, JWTAuth
<1> QED BY <1>2, <1>3, <1>4 DEF JWTAuth

LEMMA ChangePasswordInv ==
    ASSUME Inv, NEW c \in Calls, ChangePassword(c)
    PROVE  CallsOK' /\ LockInv'
<1>1. call[c] \in CallState /\ Once(call[c]) /\ call[c].pc = "read"
  BY DEF Inv, TypeOK, AllOnce, ChangePassword, At
<1>2. ASSUME NEW reply \in {"unauthorized", "error"}, Answer(c, reply)
      PROVE  CallsOK' /\ LockInv'
  BY <1>1, <1>2, AnswerInv DEF Answer, Plain, ChangePassword
<1>3. CASE Set(c, [call[c] EXCEPT !.pc = "write", !.version = account.version])
  <2> DEFINE t == [call[c] EXCEPT !.pc = "write", !.version = account.version]
  <2>1. account.version \in Token /\ account.version \in Versions
    BY VersionTyped DEF Inv, TypeOK
  <2>2. t \in CallState /\ t.pc = "write" /\ Once(t)
    BY <1>1, <2>1 DEF CallState, Once
  <2>3. Set(c, t)
    BY <1>3
  <2> HIDE DEF t
  <2> QED BY <1>1, <2>2, <2>3, SetPlain DEF Plain, ChangePassword
<1> QED BY <1>2, <1>3 DEF ChangePassword

LEMMA WritePasswordInv ==
    ASSUME Inv, NEW c \in Calls, WritePassword(c)
    PROVE  CallsOK' /\ LockInv' /\ account' \in [role : Roles, version : Versions,
                                                 enabled : BOOLEAN]
<1> DEFINE calls == IF account'.version # account.version THEN Marked(call)
                    ELSE call
           n == calls[c].effects + 1
           t == [calls[c] EXCEPT !.pc = "issue", !.version = 0, !.effects = n]
<1>1. call[c] \in CallState /\ Once(call[c]) /\ call[c].pc = "write"
  BY DEF Inv, TypeOK, AllOnce, WritePassword, At
<1>2. call \in [Calls -> CallState]
  BY DEF Inv, TypeOK
<1>3. /\ calls \in [Calls -> CallState]
      /\ \A d \in Calls : /\ calls[d].pc = call[d].pc
                          /\ calls[d].reply = call[d].reply
                          /\ calls[d].effects = call[d].effects
                          /\ calls[d].version = call[d].version
  BY <1>2, MarkedOK
<1>4. call' = [calls EXCEPT ![c] = t]
  BY DEF WritePassword
<1> HIDE DEF calls
<1>5. n = 1 /\ n \in 0..2
  BY <1>1, <1>3 DEF Once
<1> HIDE DEF n
<1>5a. t \in CallState /\ t.pc = "issue" /\ t.effects = 1
  <2>1. calls[c] \in CallState
    BY <1>3
  <2> QED BY <2>1, <1>5, VersionTyped DEF CallState
<1> HIDE DEF t
<1>6. t \in CallState /\ t.pc = "issue" /\ Once(t)
  BY <1>5a DEF Once
<1>7. \A d \in Calls : call'[d] = IF d = c THEN t ELSE calls[d]
  BY <1>3, <1>4
<1>8. CallsOK'
  <2>1. call' \in [Calls -> CallState]
    BY <1>3, <1>4, <1>6
  <2>2. \A d \in Calls : Once(call'[d])
    BY <1>3, <1>6, <1>7 DEF Inv, AllOnce, Once
  <2> QED BY <2>1, <2>2 DEF CallsOK, AllOnce
<1>9. LockInv'
  <2>1. \A d \in Calls : Refreshing(d)' <=> Refreshing(d)
    BY <1>1, <1>3, <1>6, <1>7 DEF Refreshing
  <2>2. \A d \in Calls : At(d, "wait")' <=> At(d, "wait")
    BY <1>1, <1>3, <1>6, <1>7 DEF At
  <2>3. UNCHANGED lock
    BY DEF WritePassword
  <2> QED BY <2>1, <2>2, <2>3 DEF Inv, LockInv
<1>10. account' \in [role : Roles, version : Versions, enabled : BOOLEAN]
  <2> DEFINE v == NewVersion(call[c].version)
  <2>1. account \in [role : Roles, version : Versions, enabled : BOOLEAN]
    BY DEF Inv, TypeOK
  <2>2. v \in Versions
    <3>1. call[c].version \in Versions /\ v <= MaxVersion
      BY <1>1 DEF Once, WritePassword
    <3>2. v = call[c].version \/ v = call[c].version + 1
      BY DEF NewVersion
    <3> QED BY <3>1, <3>2, VersionAssumption DEF Versions
  <2>3. account' = [account EXCEPT !.version = v]
    BY DEF WritePassword
  <2> HIDE DEF v
  <2> QED BY <2>1, <2>2, <2>3
<1> QED BY <1>8, <1>9, <1>10

LEMMA IssueSessionInv ==
    ASSUME Inv, NEW c \in Calls, IssueSession(c)
    PROVE  CallsOK' /\ LockInv'
<1>1. call[c] \in CallState /\ Once(call[c]) /\ call[c].pc = "issue"
  BY DEF Inv, TypeOK, AllOnce, IssueSession, At
<1>2. CASE Answer(c, "error")
  BY <1>1, <1>2, AnswerInv DEF Answer, Plain, IssueSession
<1>3. CASE Set(c, [call[c] EXCEPT !.pc = "back", !.reply = "ok",
                                  !.version = account.version])
  <2> DEFINE t == [call[c] EXCEPT !.pc = "back", !.reply = "ok",
                                  !.version = account.version]
  <2>1. account.version \in Token
    BY VersionTyped DEF Inv, TypeOK
  <2>2. t \in CallState /\ t.pc = "back" /\ Once(t)
    BY <1>1, <2>1 DEF CallState, Replies, Once
  <2>3. Set(c, t)
    BY <1>3
  <2> HIDE DEF t
  <2> QED BY <1>1, <2>2, <2>3, SetPlain DEF Plain, IssueSession
<1> QED BY <1>2, <1>3 DEF IssueSession

LEMMA WriteFailsInv ==
    ASSUME Inv, NEW c \in Calls, WriteFails(c)
    PROVE  CallsOK' /\ LockInv'
BY AnswerInv DEF WriteFails, Answer, At, Plain

LEMMA LostInv ==
    ASSUME Inv, NEW c \in Calls, Lost(c)
    PROVE  CallsOK' /\ LockInv'
<1> DEFINE t == [call[c] EXCEPT !.pc = "back", !.reply = "none", !.cause = TRUE,
                                !.token = 0, !.version = 0]
<1>1. call[c] \in CallState /\ Once(call[c]) /\ call[c].pc \in Plain
  BY DEF Inv, TypeOK, AllOnce, Lost, Plain
<1>2. t \in CallState /\ t.pc = "back" /\ Once(t)
  BY <1>1, VersionTyped DEF CallState, Replies, Once
<1>3. Set(c, t)
  BY DEF Lost
<1> HIDE DEF t
<1> QED BY <1>1, <1>2, <1>3, SetPlain DEF Plain, Lost

\* The refresh: its steps keep who refreshes.
LEMMA SetRefresh ==
    ASSUME Inv, NEW c \in Calls, Refreshing(c), NEW t \in CallState,
           t.pc \in {"reissue", "refreshed"}, t.effects = call[c].effects,
           Set(c, t), UNCHANGED lock
    PROVE  CallsOK' /\ LockInv'
<1>1. Once(call[c]) /\ call[c].pc \in {"refresh", "reissue", "refreshed"}
  BY DEF Inv, AllOnce, Refreshing
<1>2. Once(t)
  BY <1>1 DEF Once
<1> QED BY <1>2, SetOK, RefreshLock DEF Inv, TypeOK, CallsOK

LEMMA RefreshInv ==
    ASSUME Inv, NEW c \in Calls, Refresh(c)
    PROVE  CallsOK' /\ LockInv'
<1>1. call[c] \in CallState /\ Refreshing(c)
  BY DEF Inv, TypeOK, Refresh, At, Refreshing
<1>2. PICK t : /\ t \in {[call[c] EXCEPT !.pc = "reissue", !.token = 0],
                         [call[c] EXCEPT !.pc = "refreshed", !.token = 0,
                                         !.reply = "unauthorized"]}
               /\ Set(c, t)
  BY DEF Refresh
<1>3. /\ t \in CallState
      /\ t.pc \in {"reissue", "refreshed"} /\ t.effects = call[c].effects
  BY <1>1, <1>2, VersionTyped DEF CallState, Replies
<1> QED BY <1>1, <1>2, <1>3, SetRefresh DEF Refresh

LEMMA ReissueInv ==
    ASSUME Inv, NEW c \in Calls, Reissue(c)
    PROVE  CallsOK' /\ LockInv'
<1>1. call[c] \in CallState /\ Refreshing(c) /\ account.version \in Token
  BY VersionTyped DEF Inv, TypeOK, Reissue, At, Refreshing
<1>2. PICK t : /\ t \in {[call[c] EXCEPT !.pc = "refreshed", !.reply = "ok",
                                         !.version = account.version],
                         [call[c] EXCEPT !.pc = "refreshed", !.reply = "error"]}
               /\ Set(c, t)
  BY DEF Reissue
<1>3. /\ t \in CallState
      /\ t.pc \in {"reissue", "refreshed"} /\ t.effects = call[c].effects
  BY <1>1, <1>2 DEF CallState, Replies
<1> QED BY <1>1, <1>2, <1>3, SetRefresh DEF Reissue

LEMMA RefreshLostInv ==
    ASSUME Inv, NEW c \in Calls, RefreshLost(c)
    PROVE  CallsOK' /\ LockInv'
<1> DEFINE calls == Marked(call)
           t == [calls[c] EXCEPT !.pc = "refreshed", !.reply = "none",
                                 !.token = 0, !.version = 0]
<1>1. call[c].pc \in {"refresh", "reissue", "refreshed"} /\ Once(call[c])
  BY DEF Inv, AllOnce, RefreshLost, At
<1>2. /\ calls \in [Calls -> CallState]
      /\ \A d \in Calls : /\ calls[d].pc = call[d].pc
                          /\ calls[d].reply = call[d].reply
                          /\ calls[d].effects = call[d].effects
                          /\ calls[d].version = call[d].version
  BY MarkedOK DEF Inv, TypeOK
<1>3. call' = [calls EXCEPT ![c] = t] /\ UNCHANGED lock
  BY DEF RefreshLost
<1> HIDE DEF calls
<1>4. t \in CallState /\ t.pc = "refreshed" /\ t.effects = call[c].effects
  <2>1. calls[c] \in CallState
    BY <1>2
  <2> QED BY <1>2, <2>1, VersionTyped DEF CallState, Replies
<1>5. Once(t)
  BY <1>1, <1>4 DEF Once
<1> HIDE DEF t
<1>6. \A d \in Calls : call'[d] = IF d = c THEN t ELSE calls[d]
  BY <1>2, <1>3
<1>7. CallsOK'
  <2>1. call' \in [Calls -> CallState]
    BY <1>2, <1>3, <1>4
  <2>2. \A d \in Calls : Once(call'[d])
    BY <1>2, <1>5, <1>6 DEF Inv, AllOnce, Once
  <2> QED BY <2>1, <2>2 DEF CallsOK, AllOnce
<1>8. LockInv'
  <2>1. \A d \in Calls : Refreshing(d)' <=> Refreshing(d)
    BY <1>1, <1>2, <1>4, <1>6 DEF Refreshing
  <2>2. \A d \in Calls : At(d, "wait")' <=> At(d, "wait")
    BY <1>1, <1>2, <1>4, <1>6 DEF At
  <2> QED BY <1>3, <2>1, <2>2 DEF Inv, LockInv
<1> QED BY <1>7, <1>8

-----------------------------------------------------------------------------
(* The client's steps.                                                     *)

LEMMA SendInv ==
    ASSUME Inv, NEW c \in Calls, Send(c)
    PROVE  CallsOK' /\ LockInv'
<1> DEFINE b == ~ Valid(jar.refresh) \/ form.pc = "logout"
<1>1. b \in BOOLEAN /\ jar.access \in Token
  BY DEF Inv, TypeOK
<1>2. PICK kind \in {"change", "password", "wrong"} :
        Set(c, [Idle EXCEPT !.pc = "check", !.kind = kind, !.token = jar.access,
                            !.cause = b])
  BY DEF Send
<1> HIDE DEF b
<1> DEFINE t == [Idle EXCEPT !.pc = "check", !.kind = kind, !.token = jar.access,
                             !.cause = b]
<1>3. t \in CallState /\ t.pc = "check" /\ t.effects = 0
  BY <1>1, IdleTyped DEF CallState, Idle
<1>4. Set(c, t)
  BY <1>2
<1> HIDE DEF t
<1>5. Once(t) /\ call[c].pc \in Plain /\ UNCHANGED lock
  BY <1>3 DEF Once, Send, At, Plain
<1> QED BY <1>3, <1>4, <1>5, SetPlain DEF Plain

LEMMA SettledOK ==
    ASSUME NEW calls \in [Calls -> CallState]
    PROVE  /\ Settled(calls) \in [Calls -> CallState]
           /\ \A d \in Calls : /\ Settled(calls)[d].pc = calls[d].pc
                               /\ Settled(calls)[d].reply = calls[d].reply
                               /\ Settled(calls)[d].effects = calls[d].effects
                               /\ Settled(calls)[d].version = calls[d].version
<1>1. Settled(calls) = calls \/ Settled(calls) = Marked(calls)
  BY DEF Settled
<1> QED BY <1>1, MarkedOK

\* Calls that differ in their history only are alike.
Alike(s, t) == /\ s.pc = t.pc /\ s.reply = t.reply
               /\ s.effects = t.effects /\ s.version = t.version

LEMMA AlikeOnce ==
    ASSUME NEW s, NEW t, Alike(s, t), Once(t)
    PROVE  Once(s)
BY DEF Alike, Once

LEMMA JoinInv ==
    ASSUME Inv, NEW c \in Calls, At(c, "back"), isRefreshable(call[c]), lock,
           NEW b \in BOOLEAN,
           Set(c, [call[c] EXCEPT !.reply = "none", !.retry = TRUE,
                                  !.pc = "wait", !.cause = b]),
           UNCHANGED lock
    PROVE  CallsOK' /\ LockInv'
<1> DEFINE t == [call[c] EXCEPT !.reply = "none", !.retry = TRUE,
                                !.pc = "wait", !.cause = b]
<1>1. call[c] \in CallState /\ call[c].effects = 0 /\ call[c].pc = "back"
  BY DEF Inv, TypeOK, AllOnce, Once, At, isRefreshable
<1>2. t \in CallState /\ t.pc = "wait" /\ Once(t)
  BY <1>1 DEF CallState, Replies, Once
<1>3. Set(c, t)
  OBVIOUS
<1> HIDE DEF t
<1>4. CallsOK'
  BY <1>2, <1>3, SetOK DEF Inv, TypeOK, CallsOK
<1>5. \A d \in Calls : call'[d] = IF d = c THEN t ELSE call[d]
  BY <1>3 DEF Inv, TypeOK, Set
<1>6. \A d \in Calls : Refreshing(d)' <=> Refreshing(d)
  BY <1>1, <1>2, <1>5 DEF Refreshing
<1>7. LockInv'
  BY <1>6 DEF Inv, LockInv
<1> QED BY <1>4, <1>7

LEMMA StartInv ==
    ASSUME Inv, NEW c \in Calls, At(c, "back"), isRefreshable(call[c]), ~ lock,
           Set(c, [call[c] EXCEPT !.reply = "none", !.retry = TRUE,
                                  !.pc = "refresh", !.token = jar.refresh]),
           lock' = TRUE
    PROVE  CallsOK' /\ LockInv'
<1> DEFINE t == [call[c] EXCEPT !.reply = "none", !.retry = TRUE,
                                !.pc = "refresh", !.token = jar.refresh]
<1>1. /\ call[c] \in CallState /\ call[c].effects = 0
      /\ jar.refresh \in Token
  BY DEF Inv, TypeOK, AllOnce, Once, At, isRefreshable
<1>2. t \in CallState /\ t.pc = "refresh" /\ Once(t)
  BY <1>1 DEF CallState, Replies, Once
<1>3. Set(c, t)
  OBVIOUS
<1> HIDE DEF t
<1>4. CallsOK'
  BY <1>2, <1>3, SetOK DEF Inv, TypeOK, CallsOK
<1>5. \A d \in Calls : call'[d] = IF d = c THEN t ELSE call[d]
  BY <1>3 DEF Inv, TypeOK, Set
<1>6. \A d \in Calls : ~ Refreshing(d) /\ ~ At(d, "wait")
  BY DEF Inv, LockInv
<1>7. \A d \in Calls : Refreshing(d)' <=> d = c
  BY <1>2, <1>5, <1>6 DEF Refreshing
<1>8. LockInv'
  BY <1>7 DEF LockInv
<1> QED BY <1>4, <1>8

\* The call has its answer, and others may have got a cause.
LEMMA AnsweredInv ==
    ASSUME Inv, NEW c \in Calls, At(c, "back"),
           call' = [call EXCEPT ![c] = Idle]
             \/ call' = Settled([call EXCEPT ![c] = Idle]),
           UNCHANGED lock
    PROVE  CallsOK' /\ LockInv'
<1> DEFINE calls == [call EXCEPT ![c] = Idle]
<1>1. /\ calls \in [Calls -> CallState]
      /\ \A d \in Calls : calls[d] = IF d = c THEN Idle ELSE call[d]
  BY IdleTyped DEF Inv, TypeOK
<1>2. call' = calls \/ call' = Settled(calls)
  OBVIOUS
<1> HIDE DEF calls
<1>3. /\ call' \in [Calls -> CallState]
      /\ \A d \in Calls : Alike(call'[d], calls[d])
  BY <1>1, <1>2, SettledOK DEF Alike
<1>4. \A d \in Calls : Once(calls[d])
  BY <1>1, IdleTyped DEF Inv, AllOnce
<1>5. CallsOK'
  BY <1>3, <1>4, AlikeOnce DEF CallsOK, AllOnce
<1>6. \A d \in Calls : /\ Refreshing(d)' <=> Refreshing(d)
                       /\ At(d, "wait")' <=> At(d, "wait")
  BY <1>1, <1>3 DEF Refreshing, At, Alike, Idle
<1>7. LockInv'
  BY <1>6 DEF Inv, LockInv
<1> QED BY <1>5, <1>7

LEMMA ReceiveInv ==
    ASSUME Inv, NEW c \in Calls, Receive(c)
    PROVE  CallsOK' /\ LockInv'
<1>1. At(c, "back")
  BY DEF Receive
<1>2. CASE isRefreshable(call[c]) /\ refreshToken(c)
  <2>1. CASE lock
    <3> DEFINE b == call[c].cause \/ \E d \in Calls : call[d].cause /\ Refreshing(d)
    <3>1. b \in BOOLEAN
      BY DEF Inv, TypeOK, CallState
    <3>2. call[c] \in CallState
      BY DEF Inv, TypeOK
    <3>3. /\ Set(c, [call[c] EXCEPT !.reply = "none", !.retry = TRUE,
                                    !.pc = "wait", !.cause = b])
          /\ UNCHANGED lock
      BY <1>2, <2>1, <3>2 DEF refreshToken, CallState
    <3> HIDE DEF b
    <3> QED BY <1>1, <1>2, <2>1, <3>1, <3>3, JoinInv
  <2>2. CASE ~ lock /\ signedIn
    BY <1>1, <1>2, <2>2, StartInv DEF refreshToken
  <2>3. CASE ~ lock /\ ~ signedIn
    BY <1>1, <1>2, <2>3, AnsweredInv DEF refreshToken, Set
  <2> QED BY <2>1, <2>2, <2>3
<1>3. CASE /\ \/ call' = [call EXCEPT ![c] = Idle]
              \/ call' = Settled([call EXCEPT ![c] = Idle])
           /\ UNCHANGED lock
  BY <1>1, <1>3, AnsweredInv
<1> QED BY <1>2, <1>3 DEF Receive, Set

LEMMA RefreshedInv ==
    ASSUME Inv, NEW c \in Calls, Refreshed(c)
    PROVE  CallsOK' /\ LockInv'
<1> DEFINE on == [d \in Calls |-> IF Waits(d, c) THEN Resume(call[d]) ELSE call[d]]
           off == [d \in Calls |-> IF Waits(d, c) THEN Idle ELSE call[d]]
<1>1. call \in [Calls -> CallState] /\ \A d \in Calls : Once(call[d])
  BY DEF Inv, TypeOK, AllOnce
<1>2. \A d \in Calls : Refreshing(d) <=> d = c
  BY DEF Inv, LockInv, Refreshed, Refreshing, At
<1>3. ASSUME NEW d \in Calls, Waits(d, c) PROVE call[d].effects = 0
  BY <1>1, <1>2, <1>3 DEF Waits, Once, Refreshing
<1>4. ASSUME NEW calls \in [Calls -> CallState],
             \A d \in Calls : Once(calls[d]),
             \A d \in Calls : IF Waits(d, c) THEN calls[d].pc \in {"check", "idle"}
                              ELSE calls[d].pc = call[d].pc,
             call' = Settled(calls) \/ call' = Marked(calls)
      PROVE  CallsOK' /\ LockInv'
  <2>1. /\ call' \in [Calls -> CallState]
        /\ \A d \in Calls : Alike(call'[d], calls[d])
    BY <1>4, SettledOK, MarkedOK DEF Alike
  <2>2. CallsOK'
    BY <1>4, <2>1, AlikeOnce DEF CallsOK, AllOnce
  <2>3. \A d \in Calls : ~ Refreshing(d)' /\ ~ At(d, "wait")'
    BY <1>2, <1>4, <2>1 DEF Alike, Refreshing, At, Waits
  <2>4. lock' = FALSE
    BY DEF Refreshed
  <2> QED BY <2>2, <2>3, <2>4 DEF LockInv
<1>5. CASE call' = Settled(on) /\ jar' = Cookies(call[c].version)
  <2>1. jar'.access \in Token
    BY <1>1, <1>5 DEF Cookies, CallState
  <2>2. ASSUME NEW d \in Calls, Waits(d, c)
        PROVE  /\ Resume(call[d]) \in CallState
               /\ Resume(call[d]).pc = "check" /\ Once(Resume(call[d]))
    <3>1. call[d] \in CallState /\ call[d].effects = 0
      BY <1>1, <1>3, <2>2
    <3>2. /\ Resume(call[d]) \in CallState
          /\ Resume(call[d]).pc = "check" /\ Resume(call[d]).effects = 0
      BY <2>1, <3>1, VersionTyped DEF Resume, CallState, Replies
    <3> QED BY <3>2 DEF Once
  <2>3. /\ on \in [Calls -> CallState]
        /\ \A d \in Calls : Once(on[d])
        /\ \A d \in Calls : IF Waits(d, c) THEN on[d].pc \in {"check", "idle"}
                            ELSE on[d].pc = call[d].pc
    BY <1>1, <2>2
  <2> HIDE DEF on
  <2> QED BY <1>4, <1>5, <2>3
<1>6. CASE call' = Marked(off)
  <2>1. /\ off \in [Calls -> CallState]
        /\ \A d \in Calls : Once(off[d])
        /\ \A d \in Calls : IF Waits(d, c) THEN off[d].pc \in {"check", "idle"}
                            ELSE off[d].pc = call[d].pc
    <3>1. Idle.pc = "idle"
      BY DEF Idle
    <3> QED BY <1>1, <3>1, IdleTyped
  <2> HIDE DEF off
  <2> QED BY <1>4, <1>6, <2>1
<1> QED BY <1>5, <1>6 DEF Refreshed

-----------------------------------------------------------------------------
(* What happens around the calls.                                          *)

LEMMA AlikeInv ==
    ASSUME Inv, call' \in [Calls -> CallState],
           \A d \in Calls : Alike(call'[d], call[d]), UNCHANGED lock
    PROVE  CallsOK' /\ LockInv'
<1>1. CallsOK'
  BY AlikeOnce DEF Inv, AllOnce, CallsOK
<1>2. \A d \in Calls : /\ Refreshing(d)' <=> Refreshing(d)
                       /\ At(d, "wait")' <=> At(d, "wait")
  BY DEF Refreshing, At, Alike
<1> QED BY <1>1, <1>2 DEF Inv, LockInv

Around == Login \/ LoggedIn \/ Logout \/ LoggedOut \/ AccessExpires
            \/ RefreshExpires \/ AccountChanges

LEMMA AroundAlike ==
    ASSUME Inv, Around
    PROVE  /\ call' \in [Calls -> CallState] /\ UNCHANGED lock
           /\ \A d \in Calls : Alike(call'[d], call[d])
<1> DEFINE late == [c \in Calls |-> IF At(c, "check")
                                    THEN [call[c] EXCEPT !.token = 0] ELSE call[c]]
           dead == [c \in Calls |-> IF call[c].pc \in {"check", "refresh"}
                                    THEN [call[c] EXCEPT !.token = 0] ELSE call[c]]
<1>1. call \in [Calls -> CallState] /\ UNCHANGED lock
  BY DEF Inv, TypeOK, Around, Login, LoggedIn, Logout, LoggedOut, AccessExpires,
         RefreshExpires, AccountChanges
<1>2. \/ call' \in {call, Marked(call), Settled(call)}
      \/ call' = late \/ call' = Marked(dead)
  BY DEF Around, Login, LoggedIn, Logout, LoggedOut, AccessExpires,
         RefreshExpires, AccountChanges
<1>3. /\ late \in [Calls -> CallState] /\ dead \in [Calls -> CallState]
      /\ \A d \in Calls : Alike(late[d], call[d]) /\ Alike(dead[d], call[d])
  <2>1. ASSUME NEW d \in Calls
        PROVE  /\ [call[d] EXCEPT !.token = 0] \in CallState
               /\ Alike([call[d] EXCEPT !.token = 0], call[d])
               /\ Alike(call[d], call[d])
    <3>1. call[d] \in CallState
      BY <1>1
    <3> QED BY <3>1, VersionTyped DEF CallState, Alike
  <2> QED BY <1>1, <2>1
<1> HIDE DEF late, dead
<1>4. /\ call' \in [Calls -> CallState]
      /\ \A d \in Calls : Alike(call'[d], call[d])
  <2>1. CASE call' \in {call, Marked(call), Settled(call)}
    BY <1>1, <2>1, MarkedOK, SettledOK DEF Alike
  <2>2. CASE call' = late
    BY <1>3, <2>2
  <2>3. CASE call' = Marked(dead)
    <3>1. /\ call' \in [Calls -> CallState]
          /\ \A d \in Calls : Alike(call'[d], dead[d])
      BY <1>3, <2>3, MarkedOK DEF Alike
    <3> QED BY <1>3, <3>1 DEF Alike
  <2> QED BY <1>2, <2>1, <2>2, <2>3
<1> QED BY <1>1, <1>4

LEMMA AroundInv ==
    ASSUME Inv, Around
    PROVE  CallsOK' /\ LockInv'
BY AroundAlike, AlikeInv

LEMMA ReloadInv ==
    ASSUME Inv, Reload
    PROVE  CallsOK' /\ LockInv'
<1>1. \A d \in Calls : call'[d] = Idle /\ Idle.pc = "idle"
  BY DEF Reload, Idle
<1>2. call' \in [Calls -> CallState]
  BY IdleTyped DEF Reload
<1> QED BY <1>1, <1>2, IdleTyped DEF Reload, CallsOK, AllOnce, LockInv, Refreshing, At

-----------------------------------------------------------------------------
(* The invariant.                                                          *)

LEMMA InitInv == Init => Inv
<1> SUFFICES ASSUME Init PROVE Inv
  OBVIOUS
<1>1. TypeOK
  BY IdleTyped, VersionTyped DEF Init, TypeOK, Cookies, NoForm
<1>2. \A d \in Calls : call[d] = Idle /\ Idle.pc = "idle"
  BY DEF Init, Idle
<1> QED BY <1>1, <1>2, IdleTyped DEF Init, Inv, AllOnce, LockInv, Refreshing, At

\* The account, the cookies, the store and the pages keep their types.
LEMMA OthersTyped ==
    ASSUME Inv, Next
    PROVE  /\ account' \in [role : Roles, version : Versions, enabled : BOOLEAN]
           /\ jar' \in [access : Token, refresh : Token]
           /\ signedIn' \in BOOLEAN /\ lock' \in BOOLEAN
           /\ form' \in [pc : {"none", "login", "logout"}, version : Token]
<1> DEFINE Typed ==
       /\ account' \in [role : Roles, version : Versions, enabled : BOOLEAN]
       /\ jar' \in [access : Token, refresh : Token]
       /\ signedIn' \in BOOLEAN /\ lock' \in BOOLEAN
       /\ form' \in [pc : {"none", "login", "logout"}, version : Token]
<1> USE VersionTyped
<1>0. /\ account \in [role : Roles, version : Versions, enabled : BOOLEAN]
      /\ jar \in [access : Token, refresh : Token]
      /\ signedIn \in BOOLEAN /\ lock \in BOOLEAN
      /\ call \in [Calls -> CallState]
      /\ form \in [pc : {"none", "login", "logout"}, version : Token]
  BY DEF Inv, TypeOK
<1>1. ASSUME NEW v \in Token PROVE Cookies(v) \in [access : Token, refresh : Token]
  BY DEF Cookies
<1>2. ASSUME NEW c \in Calls,
             \/ Send(c) \/ JWTAuth(c) \/ ChangePassword(c) \/ WriteFails(c)
             \/ IssueSession(c) \/ Refresh(c) \/ Reissue(c) \/ Lost(c)
             \/ RefreshLost(c)
      PROVE  Typed
  BY <1>0, <1>2 DEF Send, JWTAuth, ChangePassword, WriteFails, IssueSession,
                    Refresh, Reissue, Lost, RefreshLost
<1>3. ASSUME NEW c \in Calls, WritePassword(c) PROVE Typed
  BY <1>0, <1>3, WritePasswordInv DEF WritePassword
<1>4. ASSUME NEW c \in Calls, Receive(c) PROVE Typed
  <2>1. call[c].version \in Token
    BY <1>0 DEF CallState
  <2> QED BY <1>0, <1>1, <1>4, <2>1 DEF Receive, refreshToken
<1>5. ASSUME NEW c \in Calls, Refreshed(c) PROVE Typed
  <2>1. call[c].version \in Token
    BY <1>0 DEF CallState
  <2> QED BY <1>0, <1>1, <1>5, <2>1 DEF Refreshed
<1>6. CASE Login \/ LoggedIn \/ Logout \/ LoggedOut \/ Reload
  <2>1. /\ form' \in [pc : {"none", "login", "logout"}, version : Token]
        /\ account' = account
        /\ lock' \in BOOLEAN
    <3>1. form' \in {[pc |-> "login", version |-> account.version],
                     [pc |-> "logout", version |-> 0],
                     [pc |-> "none", version |-> 0]}
      BY <1>6 DEF Login, LoggedIn, Logout, LoggedOut, Reload, NoForm
    <3>2. account.version \in Token
      BY <1>0
    <3>3. form' \in [pc : {"none", "login", "logout"}, version : Token]
      BY <3>1, <3>2
    <3>4. account' = account /\ lock' \in {lock, FALSE}
      BY <1>6 DEF Login, LoggedIn, Logout, LoggedOut, Reload
    <3> QED BY <1>0, <3>3, <3>4
  <2>2. /\ signedIn' \in {signedIn, TRUE, FALSE}
        /\ jar' \in {jar, Cookies(0), Cookies(form.version)}
    BY <1>6 DEF Login, LoggedIn, Logout, LoggedOut, Reload
  <2>3. jar' \in [access : Token, refresh : Token]
    BY <1>0, <1>1, <2>2
  <2>4. signedIn' \in BOOLEAN
    BY <1>0, <2>2
  <2> QED BY <1>0, <2>1, <2>3, <2>4
<1>7. CASE AccessExpires \/ RefreshExpires
  <2>1. [jar EXCEPT !.access = 0] \in [access : Token, refresh : Token]
    BY <1>0
  <2>2. jar' = [jar EXCEPT !.access = 0] \/ jar' = Cookies(0)
    BY <1>7 DEF AccessExpires, RefreshExpires
  <2>3. UNCHANGED <<account, signedIn, lock, form>>
    BY <1>7 DEF AccessExpires, RefreshExpires
  <2> QED BY <1>0, <1>1, <2>1, <2>2, <2>3
<1>8. CASE AccountChanges
  <2> DEFINE v == NewVersion(account.version)
             e == ~ account.enabled
  <2>1. e \in BOOLEAN
    BY <1>0
  <2>2. \/ v \in Versions /\ account' = [account EXCEPT !.version = v]
        \/ account' = [account EXCEPT !.enabled = e]
    BY <1>8 DEF AccountChanges
  <2> HIDE DEF v, e
  <2>3. account' \in [role : Roles, version : Versions, enabled : BOOLEAN]
    <3>1. CASE v \in Versions /\ account' = [account EXCEPT !.version = v]
      BY <1>0, <3>1
    <3>2. CASE account' = [account EXCEPT !.enabled = e]
      BY <1>0, <2>1, <3>2
    <3> QED BY <2>2, <3>1, <3>2
  <2> QED BY <1>0, <1>8, <2>3 DEF AccountChanges
<1> QED BY <1>2, <1>3, <1>4, <1>5, <1>6, <1>7, <1>8 DEF Next, Step

LEMMA NextInv == Inv /\ [Next]_vars => Inv'
<1> SUFFICES ASSUME Inv, [Next]_vars PROVE Inv'
  OBVIOUS
<1>1. CASE UNCHANGED vars
  BY <1>1 DEF vars, Inv, TypeOK, AllOnce, LockInv, Refreshing, At
<1>2. CASE Next
  <2>1. CallsOK' /\ LockInv'
    <3>1. ASSUME NEW c \in Calls, Send(c) \/ Step(c) PROVE CallsOK' /\ LockInv'
      BY <3>1, SendInv, JWTAuthInv, ChangePasswordInv, WritePasswordInv,
         WriteFailsInv, IssueSessionInv, RefreshInv, ReissueInv, ReceiveInv,
         LostInv, RefreshedInv, RefreshLostInv DEF Step
    <3> QED BY <1>2, <3>1, AroundInv, ReloadInv DEF Next, Around
  <2> QED BY <1>2, <2>1, OthersTyped DEF Inv, TypeOK, CallsOK
<1> QED BY <1>1, <1>2

LEMMA InvCorrect == Spec => []Inv
BY InitInv, NextInv, PTL DEF Spec

\* The variables keep their types; the histories stay within their bounds.
THEOREM TypeCorrect == Spec => []TypeOK
<1>1. Inv => TypeOK
  BY DEF Inv
<1> QED BY <1>1, InvCorrect, PTL

\* However many calls the HTTP client has refused at once, one refresh is under
\* way, and no call waits for a refresh that has ended.
THEOREM RefreshCorrect == Spec => []OneRefresh
<1>1. Inv => OneRefresh
  BY DEF Inv, LockInv, OneRefresh
<1> QED BY <1>1, InvCorrect, PTL

\* The interceptor sends a call again only if the server did nothing for it.
THEOREM EffectCorrect == Spec => []EffectOnce
<1>1. Inv => EffectOnce
  BY DEF Inv, AllOnce, Once, EffectOnce
<1> QED BY <1>1, InvCorrect, PTL

-----------------------------------------------------------------------------
(* Why a call fails.  As long as nothing has ended the session since the   *)
(* call was sent, the cookies are those of the account, and each step of   *)
(* the refresh is bound to succeed.                                        *)

Explained(t) ==
    \/ t.pc = "idle" \/ t.cause
    \/ /\ jar.refresh = account.version /\ account.enabled /\ signedIn
       /\ t.pc = "check" /\ t.retry => t.token = account.version
       /\ t.pc = "back" => t.reply # "none" /\ (t.retry /\ t.reply = "unauthorized" => t.kind = "wrong")
       /\ t.pc = "refresh" => t.token = account.version
       /\ t.pc = "refreshed" => t.reply = "ok"
       /\ t.pc = "wait" => \A d \in Calls : Refreshing(d) => ~ call[d].cause

CauseInv == \A c \in Calls : Explained(call[c])

\* The session goes on.
Steady == /\ account'.version = account.version /\ account'.enabled = account.enabled
          /\ jar'.refresh \in {jar.refresh, account.version} /\ (signedIn => signedIn')

LEMMA CauseInitially == Init => CauseInv
BY DEF Init, CauseInv, Explained, Idle

LEMMA MarkedCauses ==
    ASSUME NEW calls \in [Calls -> CallState], NEW c \in Calls
    PROVE  /\ Marked(calls)[c] \in CallState /\ Marked(calls)[c].pc = calls[c].pc
           /\ Marked(calls)[c].cause <=> calls[c].pc # "idle"
<1> DEFINE b == calls[c].pc # "idle"
           m == Marked(calls)[c]
<1>1. calls[c] \in CallState /\ m = [calls[c] EXCEPT !.cause = b] /\ b \in BOOLEAN
  BY DEF Marked
<1> HIDE DEF b, m
<1>2. m \in CallState /\ m.pc = calls[c].pc /\ m.cause = b
  BY <1>1 DEF CallState
<1> QED BY <1>2 DEF b, m

\* Whatever happens besides, every call that goes on has a cause now.
LEMMA MarkedExplained ==
    ASSUME NEW calls \in [Calls -> CallState], call' = Marked(calls)
    PROVE  CauseInv'
BY MarkedCauses DEF CauseInv, Explained

\* One call goes on, and does not change who refreshes unless nobody waits.
LEMMA SetExplained ==
    ASSUME Inv, CauseInv, Steady, NEW c \in Calls, NEW t \in CallState, Set(c, t), Explained(t),
           \/ t.pc \notin {"refresh", "reissue", "refreshed"}
           \/ Refreshing(c) /\ t.cause = call[c].cause
           \/ ~ lock /\ t.pc # "wait"
    PROVE  CauseInv'
<1>1. \A d \in Calls : call'[d] = IF d = c THEN t ELSE call[d]
  BY DEF Inv, TypeOK, Set
<1>2. ASSUME NEW d \in Calls PROVE Explained(call[d])'
  <2>1. CASE call'[d].pc = "wait"
    <3>1. Explained(call'[d])
      BY <1>1 DEF CauseInv
    <3>2. ASSUME ~ call'[d].cause, NEW e \in Calls, Refreshing(e)' PROVE ~ call'[e].cause
      <4>1. \A f \in Calls : Refreshing(f) => ~ call[f].cause
        BY <2>1, <3>1, <3>2 DEF Explained
      <4>2. CASE e # c
        BY <1>1, <3>2, <4>1, <4>2 DEF Refreshing
      <4>3. CASE e = c
        <5>1. ~ (~ lock /\ t.pc # "wait")
          BY <1>1, <2>1 DEF Inv, LockInv, At
        <5> QED BY <1>1, <3>2, <4>1, <4>3, <5>1 DEF Refreshing
      <4> QED BY <4>2, <4>3
    <3> QED BY <2>1, <3>1, <3>2 DEF Explained, Steady
  <2>2. CASE call'[d].pc # "wait"
    <3>1. Explained(call'[d])
      BY <1>1 DEF CauseInv
    <3> QED BY <2>2, <3>1 DEF Explained, Steady
  <2> QED BY <2>1, <2>2
<1> QED BY <1>2 DEF CauseInv

\* Calls stay as they are, or come to rest.
LEMMA RestedExplained ==
    ASSUME CauseInv, Steady, \A d \in Calls : call'[d] \in {call[d], Idle}
    PROVE  CauseInv'
<1>1. Idle.pc = "idle"
  BY DEF Idle
<1>2. ASSUME NEW d \in Calls PROVE Explained(call[d])'
  <2>1. CASE call'[d] = Idle
    BY <1>1, <2>1 DEF Explained
  <2>2. CASE call'[d] = call[d]
    <3>1. \A e \in Calls : Refreshing(e)' => Refreshing(e) /\ call'[e] = call[e]
      BY <1>1 DEF Refreshing
    <3> QED BY <2>2, <3>1 DEF CauseInv, Explained, Steady
  <2> QED BY <2>1, <2>2
<1> QED BY <1>2 DEF CauseInv

\* Steps on the server.  Only what the account no longer allows is refused.
LEMMA ServedExplained ==
    ASSUME Inv, CauseInv, NEW c \in Calls,
           JWTAuth(c) \/ ChangePassword(c) \/ WriteFails(c) \/ IssueSession(c)
    PROVE  CauseInv'
<1>1. /\ call[c] \in CallState /\ Explained(call[c]) /\ Steady
      /\ account.version \in Token /\ 0 \in Token
  BY VersionTyped
     DEF Inv, TypeOK, CauseInv, Steady, JWTAuth, ChangePassword, WriteFails, IssueSession
<1>2. ASSUME NEW t \in CallState, Set(c, t), call[c].pc # "idle",
             t.kind = call[c].kind, t.retry = call[c].retry, t.cause = call[c].cause,
             t.pc \in {"read", "write", "back"},
             t.pc = "back" => t.reply \in {"ok", "error", "unauthorized"},
             t.reply = "unauthorized" => \/ t.pc # "back" \/ call[c].kind = "wrong"
                                         \/ call[c].pc = "check" /\ ~ Valid(call[c].token)
      PROVE  CauseInv'
  <2>1. Explained(t)
    BY <1>1, <1>2 DEF Explained, Valid
  <2> QED BY <1>1, <1>2, <2>1, SetExplained
<1>3. ASSUME NEW reply \in {"error", "unauthorized"}, Answer(c, reply), call[c].pc # "idle",
             reply = "unauthorized" => \/ call[c].kind = "wrong"
                                       \/ call[c].pc = "check" /\ ~ Valid(call[c].token)
      PROVE  CauseInv'
  <2> DEFINE t == [call[c] EXCEPT !.pc = "back", !.reply = reply, !.token = 0, !.version = 0]
  <2>1. /\ t \in CallState /\ t.pc = "back" /\ t.reply = reply /\ t.kind = call[c].kind
        /\ t.retry = call[c].retry /\ t.cause = call[c].cause
    BY <1>1 DEF CallState, Replies
  <2>2. Set(c, t)
    BY <1>3 DEF Answer
  <2> HIDE DEF t
  <2> QED BY <1>2, <1>3, <2>1, <2>2
<1>4. CASE JWTAuth(c)
  <2>1. call[c].pc = "check"
    BY <1>4 DEF JWTAuth, At
  <2>2. CASE ~ Valid(call[c].token)
    BY <1>3, <1>4, <2>1, <2>2 DEF JWTAuth
  <2>3. CASE Valid(call[c].token) /\ call[c].kind = "change"
    <3> DEFINE n == call[c].effects + 1
               t == [call[c] EXCEPT !.pc = "back", !.reply = "ok", !.token = 0, !.effects = n]
    <3>1. n \in 0..2
      BY <2>1 DEF Inv, AllOnce, Once
    <3>2. Set(c, t)
      BY <1>4, <2>3 DEF JWTAuth
    <3> HIDE DEF n
    <3>3. /\ t \in CallState /\ t.pc = "back" /\ t.reply = "ok" /\ t.kind = call[c].kind
          /\ t.retry = call[c].retry /\ t.cause = call[c].cause
      BY <1>1, <3>1 DEF CallState, Replies
    <3> HIDE DEF t
    <3> QED BY <1>2, <2>1, <3>2, <3>3
  <2>4. CASE Valid(call[c].token) /\ call[c].kind # "change"
    <3> DEFINE t == [call[c] EXCEPT !.pc = "read", !.token = 0]
    <3>1. Set(c, t)
      BY <1>4, <2>4 DEF JWTAuth
    <3>2. /\ t \in CallState /\ t.pc = "read" /\ t.kind = call[c].kind
          /\ t.retry = call[c].retry /\ t.cause = call[c].cause
      BY <1>1 DEF CallState
    <3> HIDE DEF t
    <3> QED BY <1>2, <2>1, <3>1, <3>2
  <2> QED BY <2>2, <2>3, <2>4
<1>6. CASE ChangePassword(c)
  <2>1. call[c].pc # "idle"
    BY <1>6 DEF ChangePassword, At
  <2>2. CASE Answer(c, "error")
    BY <1>3, <2>1, <2>2
  <2>3. CASE call[c].kind = "wrong" /\ Answer(c, "unauthorized")
    BY <1>3, <2>1, <2>3
  <2>4. CASE Set(c, [call[c] EXCEPT !.pc = "write", !.version = account.version])
    <3> DEFINE t == [call[c] EXCEPT !.pc = "write", !.version = account.version]
    <3>1. /\ t \in CallState /\ t.pc = "write" /\ t.kind = call[c].kind
          /\ t.retry = call[c].retry /\ t.cause = call[c].cause
      BY <1>1 DEF CallState
    <3>2. Set(c, t)
      BY <2>4
    <3> HIDE DEF t
    <3> QED BY <1>2, <2>1, <3>1, <3>2
  <2> QED BY <1>6, <2>2, <2>3, <2>4 DEF ChangePassword
<1>7. CASE WriteFails(c)
  BY <1>3, <1>7 DEF WriteFails, At
<1>8. CASE IssueSession(c)
  <2>1. call[c].pc # "idle"
    BY <1>8 DEF IssueSession, At
  <2>2. CASE Answer(c, "error")
    BY <1>3, <2>1, <2>2
  <2>3. CASE Set(c, [call[c] EXCEPT !.pc = "back", !.reply = "ok", !.version = account.version])
    <3> DEFINE t == [call[c] EXCEPT !.pc = "back", !.reply = "ok", !.version = account.version]
    <3>1. /\ t \in CallState /\ t.pc = "back" /\ t.reply = "ok" /\ t.kind = call[c].kind
          /\ t.retry = call[c].retry /\ t.cause = call[c].cause
      BY <1>1 DEF CallState, Replies
    <3>2. Set(c, t)
      BY <2>3
    <3> HIDE DEF t
    <3> QED BY <1>2, <2>1, <3>1, <3>2
  <2> QED BY <1>8, <2>2, <2>3 DEF IssueSession
<1> QED BY <1>4, <1>6, <1>7, <1>8

LEMMA WriteExplained ==
    ASSUME Inv, CauseInv, NEW c \in Calls, WritePassword(c)
    PROVE  CauseInv'
<1> DEFINE n == call[c].effects + 1
<1>1. call \in [Calls -> CallState] /\ call[c].pc = "write"
  BY DEF Inv, TypeOK, WritePassword, At
<1>1a. n \in 0..2
  <2>1. call[c].effects = 0
    BY <1>1 DEF Inv, AllOnce, Once
  <2> QED BY <2>1
<1>2. CASE account'.version # account.version
  <2> DEFINE marked == Marked(call)
             t == [marked[c] EXCEPT !.pc = "issue", !.version = 0, !.effects = marked[c].effects + 1]
  <2>1. call' = [marked EXCEPT ![c] = t]
    BY <1>2 DEF WritePassword
  <2>2. /\ \A d \in Calls : marked[d] \in CallState /\ (marked[d].cause \/ marked[d].pc = "idle")
        /\ marked[c].cause
    BY <1>1, MarkedCauses
  <2>2a. marked = [d \in Calls |-> marked[d]]
    BY DEF Marked
  <2> HIDE DEF marked
  <2>3. t.cause
    BY <2>2 DEF CallState
  <2> HIDE DEF t
  <2>4. \A d \in Calls : call'[d] = IF d = c THEN t ELSE marked[d]
    BY <2>1, <2>2a
  <2> QED BY <2>2, <2>3, <2>4 DEF CauseInv, Explained
<1>3. CASE account'.version = account.version
  <2> DEFINE t == [call[c] EXCEPT !.pc = "issue", !.version = 0, !.effects = n]
  <2>1. Set(c, t)
    BY <1>3 DEF WritePassword, Set
  <2> HIDE DEF n
  <2>2. t \in CallState /\ t.pc = "issue" /\ t.cause = call[c].cause
    BY <1>1, <1>1a, VersionTyped DEF CallState
  <2> HIDE DEF t
  <2>3. account'.enabled = account.enabled
    BY DEF WritePassword, Inv, TypeOK
  <2>4. Steady
    BY <1>3, <2>3 DEF Steady, WritePassword
  <2>5. Explained(t)
    BY <1>1, <2>2 DEF CauseInv, Explained
  <2> QED BY <2>1, <2>2, <2>4, <2>5, SetExplained
<1> QED BY <1>2, <1>3

\* The steps of the refresh on the server.
LEMMA RefreshExplained ==
    ASSUME Inv, CauseInv, NEW c \in Calls, Refresh(c) \/ Reissue(c)
    PROVE  CauseInv'
<1>1. /\ call[c] \in CallState /\ Explained(call[c]) /\ Steady /\ Refreshing(c)
      /\ account.version \in Token /\ 0 \in Token
  BY VersionTyped DEF Inv, TypeOK, CauseInv, Steady, Refresh, Reissue, At, Refreshing
<1>2. ASSUME NEW t \in CallState, Set(c, t), t.cause = call[c].cause, t.pc \in {"reissue", "refreshed"},
             t.pc = "refreshed" => \/ t.reply = "ok"
                                   \/ call[c].pc = "refresh" /\ ~ Valid(call[c].token)
                                   \/ ~ account.enabled
      PROVE  CauseInv'
  <2>1. Explained(t)
    BY <1>1, <1>2 DEF Explained, Valid, Refreshing
  <2> QED BY <1>1, <1>2, <2>1, SetExplained
<1>3. CASE Refresh(c)
  <2>1. CASE Valid(call[c].token)
    <3> DEFINE t == [call[c] EXCEPT !.pc = "reissue", !.token = 0]
    <3>1. Set(c, t) /\ t \in CallState /\ t.pc = "reissue" /\ t.cause = call[c].cause
      BY <1>1, <1>3, <2>1 DEF Refresh, CallState
    <3> HIDE DEF t
    <3> QED BY <1>2, <3>1
  <2>2. CASE ~ Valid(call[c].token)
    <3> DEFINE t == [call[c] EXCEPT !.pc = "refreshed", !.token = 0, !.reply = "unauthorized"]
    <3>1. Set(c, t) /\ t \in CallState /\ t.pc = "refreshed" /\ t.cause = call[c].cause
      BY <1>1, <1>3, <2>2 DEF Refresh, CallState, Replies
    <3> HIDE DEF t
    <3> QED BY <1>2, <1>3, <2>2, <3>1 DEF Refresh, At
  <2> QED BY <2>1, <2>2
<1>4. CASE Reissue(c)
  <2>1. CASE account.enabled
    <3> DEFINE t == [call[c] EXCEPT !.pc = "refreshed", !.reply = "ok", !.version = account.version]
    <3>1. Set(c, t)
      BY <1>4, <2>1 DEF Reissue
    <3>2. t \in CallState /\ t.pc = "refreshed" /\ t.cause = call[c].cause /\ t.reply = "ok"
      BY <1>1 DEF CallState, Replies
    <3> HIDE DEF t
    <3> QED BY <1>2, <3>1, <3>2
  <2>2. CASE ~ account.enabled
    <3> DEFINE t == [call[c] EXCEPT !.pc = "refreshed", !.reply = "error"]
    <3>1. Set(c, t)
      BY <1>4, <2>2 DEF Reissue
    <3>2. t \in CallState /\ t.pc = "refreshed" /\ t.cause = call[c].cause
      BY <1>1 DEF CallState, Replies
    <3> HIDE DEF t
    <3> QED BY <1>2, <2>2, <3>1, <3>2
  <2> QED BY <2>1, <2>2
<1> QED BY <1>3, <1>4

\* The connection fails, of a call or of the refresh.
LEMMA LostExplained ==
    ASSUME Inv, CauseInv, NEW c \in Calls, Lost(c) \/ RefreshLost(c)
    PROVE  CauseInv'
<1>1. call \in [Calls -> CallState] /\ 0 \in Token
  BY VersionTyped DEF Inv, TypeOK
<1>2. CASE Lost(c)
  <2> DEFINE t == [call[c] EXCEPT !.pc = "back", !.reply = "none", !.cause = TRUE, !.token = 0, !.version = 0]
  <2>1. Set(c, t)
    BY <1>2 DEF Lost
  <2>2. t \in CallState /\ t.pc = "back" /\ t.cause
    BY <1>1 DEF CallState, Replies
  <2> HIDE DEF t
  <2>3. Explained(t) /\ Steady
    BY <1>2, <2>2 DEF Explained, Steady, Lost
  <2> QED BY <2>1, <2>2, <2>3, SetExplained
<1>3. CASE RefreshLost(c)
  <2> DEFINE marked == Marked(call)
             t == [marked[c] EXCEPT !.pc = "refreshed", !.reply = "none", !.token = 0, !.version = 0]
  <2>1. call' = [marked EXCEPT ![c] = t]
    BY <1>3 DEF RefreshLost
  <2>2. \A d \in Calls : /\ marked[d] \in CallState /\ marked[d].pc = call[d].pc
                         /\ marked[d].cause <=> call[d].pc # "idle"
    BY <1>1, MarkedCauses
  <2>3. marked = [d \in Calls |-> marked[d]]
    BY DEF Marked
  <2> HIDE DEF marked
  <2>4. call[c].pc # "idle"
    BY <1>3 DEF RefreshLost, At
  <2>5. t.cause
    BY <2>2, <2>4 DEF CallState
  <2> HIDE DEF t
  <2>6. \A d \in Calls : call'[d] = IF d = c THEN t ELSE marked[d]
    BY <2>1, <2>3
  <2> QED BY <2>2, <2>5, <2>6 DEF CauseInv, Explained
<1> QED BY <1>2, <1>3

\* A call goes out while the store has a user.
LEMMA SendExplained ==
    ASSUME Inv, CauseInv, NEW c \in Calls, Send(c)
    PROVE  CauseInv'
<1> DEFINE b == ~ Valid(jar.refresh) \/ form.pc = "logout"
<1>1. b \in BOOLEAN /\ jar.access \in Token
  BY DEF Inv, TypeOK
<1>2. PICK kind \in {"change", "password", "wrong"} :
        Set(c, [Idle EXCEPT !.pc = "check", !.kind = kind, !.token = jar.access, !.cause = b])
  BY DEF Send
<1> DEFINE t == [Idle EXCEPT !.pc = "check", !.kind = kind, !.token = jar.access, !.cause = b]
<1>3. Set(c, t)
  BY <1>2
<1> HIDE DEF b
<1>4. t \in CallState /\ t.pc = "check" /\ t.cause = b /\ ~ t.retry
  BY <1>1, IdleTyped DEF CallState, Idle
<1> HIDE DEF t
<1>5. Explained(t)
  BY <1>4 DEF Explained, b, Valid, Send
<1>6. Steady
  BY DEF Send, Steady
<1> QED BY <1>3, <1>4, <1>5, <1>6, SetExplained

\* The answer arrives: the call joins a refresh, starts one, or is done.
LEMMA ReceiveExplained ==
    ASSUME Inv, CauseInv, NEW c \in Calls, Receive(c)
    PROVE  CauseInv'
<1>1. /\ call \in [Calls -> CallState] /\ call[c] \in CallState /\ call[c].pc = "back"
      /\ Explained(call[c]) /\ jar.refresh \in Token
  BY DEF Inv, TypeOK, CauseInv, Receive, At
<1>2. CASE isRefreshable(call[c]) /\ refreshToken(c) /\ UNCHANGED <<jar, account>>
  <2>1. CASE lock
    <3> DEFINE b == call[c].cause \/ \E d \in Calls : call[d].cause /\ Refreshing(d)
               t == [call[c] EXCEPT !.reply = "none", !.retry = TRUE, !.pc = "wait", !.cause = b]
    <3>1. b \in BOOLEAN
      BY <1>1 DEF CallState
    <3>2. Set(c, t) /\ UNCHANGED signedIn
      BY <1>1, <1>2, <2>1 DEF refreshToken, CallState
    <3> HIDE DEF b
    <3>3. t \in CallState /\ t.pc = "wait" /\ t.cause = b
      BY <1>1, <3>1 DEF CallState, Replies
    <3> HIDE DEF t
    <3>4. Explained(t)
      BY <1>1, <3>3 DEF Explained, b
    <3>5. Steady
      BY <1>2, <3>2 DEF Steady
    <3> QED BY <3>2, <3>3, <3>4, <3>5, SetExplained
  <2>2. CASE ~ lock /\ signedIn
    <3> DEFINE t == [call[c] EXCEPT !.reply = "none", !.retry = TRUE, !.pc = "refresh", !.token = jar.refresh]
    <3>1. Set(c, t) /\ UNCHANGED signedIn
      BY <1>1, <1>2, <2>2 DEF refreshToken, CallState
    <3>2. t \in CallState /\ t.pc = "refresh" /\ t.cause = call[c].cause /\ t.token = jar.refresh
      BY <1>1 DEF CallState, Replies
    <3> HIDE DEF t
    <3>3. Explained(t)
      BY <1>1, <3>2 DEF Explained
    <3>4. Steady
      BY <1>2, <3>1 DEF Steady
    <3> QED BY <2>2, <3>1, <3>2, <3>3, <3>4, SetExplained
  <2>3. CASE ~ lock /\ ~ signedIn
    <3>1. Steady /\ \A d \in Calls : call'[d] \in {call[d], Idle}
      BY <1>1, <1>2, <2>3 DEF refreshToken, Set, Steady
    <3> QED BY <3>1, RestedExplained
  <2> QED BY <2>1, <2>2, <2>3
<1>3. CASE call' = [call EXCEPT ![c] = Idle] /\ UNCHANGED <<jar, signedIn, account>>
  <2>1. Steady /\ \A d \in Calls : call'[d] \in {call[d], Idle}
    BY <1>1, <1>3 DEF Steady
  <2> QED BY <2>1, RestedExplained
<1>4. CASE call' = Settled([call EXCEPT ![c] = Idle]) /\ UNCHANGED account /\ signedIn' \in {signedIn, TRUE}
  <2> DEFINE calls == [call EXCEPT ![c] = Idle]
  <2>1. calls \in [Calls -> CallState] /\ \A d \in Calls : calls[d] \in {call[d], Idle}
    BY <1>1, IdleTyped
  <2>2. call' = Settled(calls)
    BY <1>4
  <2> HIDE DEF calls
  <2>3. CASE jar'.refresh = account.version
    <3>1. call' = calls
      BY <2>2, <2>3 DEF Settled
    <3>2. signedIn => signedIn'
      BY <1>4
    <3>3. Steady
      BY <1>4, <2>3, <3>2 DEF Steady
    <3> QED BY <2>1, <3>1, <3>3, RestedExplained
  <2>4. CASE jar'.refresh # account.version
    <3>1. call' = Marked(calls)
      BY <2>2, <2>4 DEF Settled
    <3> QED BY <2>1, <3>1, MarkedExplained
  <2> QED BY <2>3, <2>4
<1> QED BY <1>2, <1>3, <1>4 DEF Receive, Set

LEMMA Resumed ==
    ASSUME NEW t \in CallState, jar'.access \in Token
    PROVE  /\ Resume(t) \in CallState /\ Resume(t).pc = "check"
           /\ Resume(t).token = jar'.access /\ Resume(t).cause = t.cause
<1>1. 0 \in Token
  BY VersionTyped
<1> QED BY <1>1 DEF Resume, CallState, Replies

\* The refresh settles, and everyone goes on or gives up.
LEMMA RefreshedExplained ==
    ASSUME Inv, CauseInv, NEW c \in Calls, Refreshed(c)
    PROVE  CauseInv'
<1> DEFINE on == [d \in Calls |-> IF Waits(d, c) THEN Resume(call[d]) ELSE call[d]]
           off == [d \in Calls |-> IF Waits(d, c) THEN Idle ELSE call[d]]
<1>1. call \in [Calls -> CallState] /\ account.version \in Token /\ 0 \in Token
  BY VersionTyped DEF Inv, TypeOK
<1>2. \A d \in Calls : Refreshing(d) <=> d = c
  BY DEF Inv, LockInv, Refreshed, Refreshing, At
<1>3. CASE call' = Marked(off)
  <2>1. off \in [Calls -> CallState]
    BY <1>1, IdleTyped
  <2> HIDE DEF off
  <2> QED BY <1>3, <2>1, MarkedExplained
<1>4. CASE call' = Settled(on) /\ jar' = Cookies(call[c].version) /\ signedIn' /\ UNCHANGED account
  <2>1. jar'.access = call[c].version /\ jar'.refresh = call[c].version /\ call[c].version \in Token
    BY <1>1, <1>4 DEF Cookies, CallState
  <2>2. ASSUME NEW d \in Calls
        PROVE  /\ Resume(call[d]) \in CallState /\ Resume(call[d]).pc = "check"
               /\ Resume(call[d]).token = call[c].version /\ Resume(call[d]).cause = call[d].cause
    <3>1. call[d] \in CallState
      BY <1>1
    <3> QED BY <2>1, <3>1, Resumed
  <2>3. on \in [Calls -> CallState]
    BY <1>1, <2>2
  <2>4. CASE jar'.refresh # account.version
    <3>1. call' = Marked(on)
      BY <1>4, <2>4 DEF Settled
    <3> HIDE DEF on
    <3> QED BY <2>3, <3>1, MarkedExplained
  <2>5. CASE jar'.refresh = account.version
    <3>1. \A d \in Calls : call'[d] = IF Waits(d, c) THEN Resume(call[d]) ELSE call[d]
      BY <1>4, <2>5 DEF Settled
    <3> HIDE DEF on
    <3>2. ASSUME NEW d \in Calls PROVE Explained(call[d])'
      <4>1. Explained(call[d])
        BY DEF CauseInv
      <4>2. CASE Waits(d, c)
        <5>1. call'[d].pc = "check" /\ call'[d].token = account.version /\ call'[d].cause = call[d].cause
          BY <2>1, <2>2, <2>5, <3>1, <4>2
        <5>2. call[d].pc # "idle"
          BY <4>2 DEF Waits, Refreshed, At
        <5> QED BY <1>4, <2>5, <4>1, <5>1, <5>2 DEF Explained
      <4>3. CASE ~ Waits(d, c)
        <5>1. call'[d] = call[d] /\ call[d].pc # "wait"
          BY <3>1, <4>3 DEF Waits
        <5> QED BY <1>4, <2>5, <4>1, <5>1 DEF Explained
      <4> QED BY <4>2, <4>3
    <3> QED BY <3>2 DEF CauseInv
  <2> QED BY <2>4, <2>5
<1> QED BY <1>3, <1>4 DEF Refreshed

\* Around the calls: only a login of the same account leaves them without a cause.
LEMMA AroundExplained ==
    ASSUME Inv, CauseInv, Around \/ Reload
    PROVE  CauseInv'
<1>1. call \in [Calls -> CallState] /\ 0 \in Token
  BY VersionTyped DEF Inv, TypeOK
<1>2. CASE Login \/ Reload
  <2>1. Steady /\ \A d \in Calls : call'[d] \in {call[d], Idle}
    BY <1>2 DEF Login, Reload, Steady
  <2> QED BY <2>1, RestedExplained
<1>3. CASE LoggedIn
  <2>1. CASE jar'.refresh = account.version \/ UNCHANGED <<jar, signedIn, call>>
    <3>1. Steady /\ call' = call
      BY <1>3, <2>1 DEF LoggedIn, Settled, Steady
    <3> QED BY <3>1, RestedExplained
  <2>2. CASE call' = Marked(call)
    BY <1>1, <2>2, MarkedExplained
  <2> QED BY <1>3, <2>1, <2>2 DEF LoggedIn, Settled
<1>4. CASE Logout \/ LoggedOut \/ AccountChanges
  BY <1>1, <1>4, MarkedExplained DEF Logout, LoggedOut, AccountChanges
<1>5. CASE RefreshExpires
  <2> DEFINE dead == [d \in Calls |-> IF call[d].pc \in {"check", "refresh"}
                                      THEN [call[d] EXCEPT !.token = 0] ELSE call[d]]
  <2>1. \A d \in Calls : call[d] \in CallState /\ [call[d] EXCEPT !.token = 0] \in CallState
    BY <1>1 DEF CallState
  <2>2. dead \in [Calls -> CallState]
    BY <2>1
  <2>3. call' = Marked(dead)
    BY <1>5 DEF RefreshExpires
  <2> HIDE DEF dead
  <2> QED BY <2>2, <2>3, MarkedExplained
<1>6. CASE AccessExpires
  <2>1. Steady /\ jar'.refresh = jar.refresh
    BY <1>6 DEF AccessExpires, Steady, Inv, TypeOK
  <2>2. ASSUME NEW d \in Calls
        PROVE  /\ ~ call[d].retry /\ ~ call'[d].retry
               /\ call'[d].pc = call[d].pc /\ call'[d].cause = call[d].cause /\ call'[d].reply = call[d].reply
               /\ call[d].pc # "check" => call'[d].token = call[d].token
    <3>1. call[d] \in CallState /\ ~ call[d].retry
      BY <1>1, <1>6 DEF AccessExpires
    <3>2. call'[d] = IF call[d].pc = "check" THEN [call[d] EXCEPT !.token = 0] ELSE call[d]
      BY <1>6 DEF AccessExpires, At
    <3> QED BY <3>1, <3>2 DEF CallState
  <2>3. \A d \in Calls : Refreshing(d)' <=> Refreshing(d)
    BY <2>2 DEF Refreshing
  <2> QED BY <2>1, <2>2, <2>3 DEF CauseInv, Explained, Steady
<1> QED BY <1>2, <1>3, <1>4, <1>5, <1>6 DEF Around

LEMMA NextExplained == Inv /\ CauseInv /\ [Next]_vars => CauseInv'
<1> SUFFICES ASSUME Inv, CauseInv, [Next]_vars PROVE CauseInv'
  OBVIOUS
<1>1. CASE UNCHANGED vars
  <2>1. Steady /\ call' = call
    BY <1>1 DEF vars, Steady
  <2> QED BY <2>1, RestedExplained
<1>2. ASSUME NEW c \in Calls, Send(c) \/ Step(c) PROVE CauseInv'
  BY <1>2, SendExplained, ServedExplained, WriteExplained, RefreshExplained, LostExplained, ReceiveExplained,
     RefreshedExplained DEF Step
<1> QED BY <1>1, <1>2, AroundExplained DEF Next, Around

\* A call comes to rest only by its answer, by a refresh that fails, or by a
\* reload; only with a cause, if the answer was not its own.
LEMMA RestHasCause ==
    ASSUME Inv, CauseInv, Next, NEW c \in Calls, call[c].pc # "idle", call'[c].pc = "idle",
           ~ (At(c, "back") /\ call[c].reply \in {"ok", "error"}),
           ~ call[c].cause, call[c].kind # "wrong"
    PROVE  Reload
<1>1. call \in [Calls -> CallState] /\ call[c] \in CallState /\ Explained(call[c])
  BY DEF Inv, TypeOK, CauseInv
<1>2. ASSUME NEW e \in Calls, Receive(e) PROVE FALSE
  <2>1. CASE e = c
    <3>1. /\ call[c].pc = "back" /\ call[c].reply = "unauthorized" /\ ~ call[c].retry /\ signedIn
      BY <1>1, <1>2, <2>1 DEF Receive, At, Explained, CallState, Replies
    <3>2. refreshToken(c)
      BY <1>2, <2>1, <3>1 DEF Receive, isRefreshable
    <3> QED BY <1>1, <3>1, <3>2 DEF refreshToken, Set, CallState
  <2>2. CASE e # c
    <3>1. CASE call'[c] = call[c]
      BY <3>1
    <3>2. CASE call' = Settled([call EXCEPT ![e] = Idle])
      <4> DEFINE calls == [call EXCEPT ![e] = Idle]
      <4>1. calls \in [Calls -> CallState] /\ calls[c] = call[c]
        BY <1>1, <2>2, IdleTyped
      <4>2. call' = Settled(calls)
        BY <3>2
      <4> HIDE DEF calls
      <4> QED BY <4>1, <4>2, SettledOK
    <3> QED BY <1>1, <1>2, <2>2, <3>1, <3>2 DEF Receive, refreshToken, Set
  <2> QED BY <2>1, <2>2
<1>3. ASSUME NEW e \in Calls, Refreshed(e) PROVE FALSE
  <2> DEFINE on == [d \in Calls |-> IF Waits(d, e) THEN Resume(call[d]) ELSE call[d]]
             off == [d \in Calls |-> IF Waits(d, e) THEN Idle ELSE call[d]]
  <2>1. Explained(call[e]) /\ call[e].pc = "refreshed" /\ Refreshing(e) /\ call[e] \in CallState
    BY <1>1, <1>3 DEF CauseInv, Refreshed, At, Refreshing
  <2>2. CASE call[e].reply = "ok"
    <3>1. call' = Settled(on) /\ jar'.access \in Token
      BY <1>3, <2>1, <2>2 DEF Refreshed, Cookies, CallState
    <3>2. \A d \in Calls : Resume(call[d]) \in CallState /\ Resume(call[d]).pc = "check"
      BY <1>1, <3>1, Resumed
    <3>3. on \in [Calls -> CallState] /\ on[c].pc # "idle"
      BY <1>1, <3>2
    <3> HIDE DEF on
    <3> QED BY <3>1, <3>3, SettledOK
  <2>3. CASE call[e].reply # "ok"
    <3>1. ~ Waits(c, e)
      BY <1>1, <2>1, <2>3 DEF Waits, Explained
    <3>2. call' = Marked(off)
      BY <1>3, <2>3 DEF Refreshed
    <3>3. off \in [Calls -> CallState] /\ off[c] = call[c]
      BY <1>1, <3>1, IdleTyped
    <3> HIDE DEF off
    <3> QED BY <3>2, <3>3, MarkedOK
  <2> QED BY <2>2, <2>3
<1>4. ASSUME NEW e \in Calls, NEW t, Set(e, t), e = c => t.pc # "idle" PROVE FALSE
  BY <1>1, <1>4 DEF Set
<1>4a. ASSUME NEW e \in Calls, Send(e) \/ Answer(e, "unauthorized") \/ Answer(e, "error") PROVE FALSE
  <2>1. Idle \in CallState /\ call[e] \in CallState
    BY <1>1, IdleTyped
  <2>2. PICK kind \in {"change", "password", "wrong"}, reply \in {"unauthorized", "error"} :
          \/ Set(e, [Idle EXCEPT !.pc = "check", !.kind = kind, !.token = jar.access,
                                 !.cause = ~ Valid(jar.refresh) \/ form.pc = "logout"])
          \/ Set(e, [call[e] EXCEPT !.pc = "back", !.reply = reply, !.token = 0, !.version = 0])
    BY <1>4a DEF Send, Answer
  <2>3. /\ [Idle EXCEPT !.pc = "check", !.kind = kind, !.token = jar.access,
                        !.cause = ~ Valid(jar.refresh) \/ form.pc = "logout"].pc = "check"
        /\ [call[e] EXCEPT !.pc = "back", !.reply = reply, !.token = 0, !.version = 0].pc = "back"
    BY <2>1 DEF CallState
  <2> QED BY <1>4, <2>2, <2>3
<1>4b. ASSUME NEW e \in Calls,
              JWTAuth(e) \/ ChangePassword(e) \/ WriteFails(e) \/ IssueSession(e)
       PROVE  FALSE
  <2> DEFINE n == call[e].effects + 1
             served == [call[e] EXCEPT !.pc = "back", !.reply = "ok", !.token = 0, !.effects = n]
             admitted == [call[e] EXCEPT !.pc = "read", !.token = 0]
             read == [call[e] EXCEPT !.pc = "write", !.version = account.version]
             issued == [call[e] EXCEPT !.pc = "back", !.reply = "ok", !.version = account.version]
  <2>1. /\ served.pc = "back" /\ admitted.pc = "read" /\ read.pc = "write" /\ issued.pc = "back"
    BY <1>1 DEF CallState
  <2>2. Set(e, served) \/ Set(e, admitted) \/ Set(e, read) \/ Set(e, issued)
    BY <1>4a, <1>4b DEF JWTAuth, ChangePassword, WriteFails, IssueSession
  <2> HIDE DEF served, admitted, read, issued
  <2> QED BY <1>4, <2>1, <2>2
<1>4c. ASSUME NEW e \in Calls, Refresh(e) \/ Reissue(e) \/ Lost(e) PROVE FALSE
  <2> DEFINE valid == [call[e] EXCEPT !.pc = "reissue", !.token = 0]
             refused == [call[e] EXCEPT !.pc = "refreshed", !.token = 0, !.reply = "unauthorized"]
             issued == [call[e] EXCEPT !.pc = "refreshed", !.reply = "ok", !.version = account.version]
             failed == [call[e] EXCEPT !.pc = "refreshed", !.reply = "error"]
             lost == [call[e] EXCEPT !.pc = "back", !.reply = "none", !.cause = TRUE, !.token = 0, !.version = 0]
  <2>1. /\ valid.pc = "reissue" /\ refused.pc = "refreshed" /\ issued.pc = "refreshed"
        /\ failed.pc = "refreshed" /\ lost.pc = "back"
    BY <1>1 DEF CallState
  <2>2. Set(e, valid) \/ Set(e, refused) \/ Set(e, issued) \/ Set(e, failed) \/ Set(e, lost)
    <3>1. CASE Refresh(e)
      BY <3>1 DEF Refresh
    <3>2. CASE Reissue(e)
      <4>1. CASE account.enabled
        BY <3>2, <4>1 DEF Reissue
      <4>2. CASE ~ account.enabled
        BY <3>2, <4>2 DEF Reissue
      <4> QED BY <4>1, <4>2
    <3>3. CASE Lost(e)
      BY <3>3 DEF Lost
    <3> QED BY <1>4c, <3>1, <3>2, <3>3
  <2> HIDE DEF valid, refused, issued, failed, lost
  <2> QED BY <1>4, <2>1, <2>2
<1>5. ASSUME NEW e \in Calls, WritePassword(e) \/ RefreshLost(e) PROVE FALSE
  <2> DEFINE marked == Marked(call)
  <2>1. marked \in [Calls -> CallState] /\ marked[c].pc = call[c].pc
    BY <1>1, MarkedOK
  <2>2. PICK calls \in {call, marked} : \E t : call' = [calls EXCEPT ![e] = t] /\ (e = c => t.pc # "idle")
    <3>1. CASE WritePassword(e)
      <4> DEFINE calls == IF account'.version # account.version THEN marked ELSE call
                 t == [calls[e] EXCEPT !.pc = "issue", !.version = 0, !.effects = calls[e].effects + 1]
      <4>1. call' = [calls EXCEPT ![e] = t] /\ calls \in {call, marked}
        BY <3>1 DEF WritePassword
      <4>2. calls[e] \in CallState
        BY <1>1, <2>1
      <4> HIDE DEF calls
      <4>3. t.pc = "issue"
        BY <4>2 DEF CallState
      <4> QED BY <4>1, <4>3
    <3>2. CASE RefreshLost(e)
      <4> DEFINE t == [marked[e] EXCEPT !.pc = "refreshed", !.reply = "none", !.token = 0, !.version = 0]
      <4>1. call' = [marked EXCEPT ![e] = t]
        BY <3>2 DEF RefreshLost
      <4> HIDE DEF marked
      <4>2. t.pc = "refreshed"
        BY <2>1 DEF CallState
      <4> QED BY <4>1, <4>2
    <3> QED BY <1>5, <3>1, <3>2
  <2> HIDE DEF marked
  <2> QED BY <1>1, <2>1, <2>2
<1>6. CASE Around
  <2>1. Alike(call'[c], call[c])
    BY <1>6, AroundAlike
  <2> QED BY <2>1 DEF Alike
<1> QED BY <1>2, <1>3, <1>4a, <1>4b, <1>4c, <1>5, <1>6 DEF Next, Step, Around

\* An expired access cookie is never seen by the user, however many calls share
\* a refresh: what client.ts, the refresh and the cookies promise together.
THEOREM CauseCorrect == Spec => FailureHasCause
<1>1. Inv /\ CauseInv /\ [Next]_vars =>
      [\A c \in Calls :
         /\ call[c].pc # "idle" /\ call'[c].pc = "idle"
         /\ ~ (At(c, "back") /\ call[c].reply \in {"ok", "error"})
         => \/ call[c].cause
            \/ call[c].kind = "wrong"
            \/ Reload]_vars
  BY RestHasCause
<1>2. Spec => []CauseInv
  <2>1. Spec => [](Inv /\ CauseInv)
    BY InitInv, NextInv, CauseInitially, NextExplained, PTL DEF Spec
  <2> QED BY <2>1, PTL
<1> QED BY <1>1, <1>2, InvCorrect, PTL DEF Spec, FailureHasCause
=============================================================================
