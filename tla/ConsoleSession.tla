--------------------------- MODULE ConsoleSession ---------------------------
(***************************************************************************)
(* The session of one tab of the console and the account behind it.        *)
(*                                                                         *)
(* A call carries the access cookie.  If the server answers 401 the HTTP   *)
(* client refreshes the session, once for all calls that were refused      *)
(* meanwhile, and sends each of them again, once.  Meanwhile cookies       *)
(* expire, the user signs in and out or changes the password, and the      *)
(* account is changed elsewhere.                                           *)
(*                                                                         *)
(* A token is known by the token_version it was issued for; 0 stands for   *)
(* no token or one that has expired.                                       *)
(***************************************************************************)
EXTENDS Integers, FiniteSets

CONSTANTS
    Calls,       \* calls the tab may have under way
    Roles,       \* roles of the account
    MaxVersion   \* bound: token_version

ASSUME VersionAssumption == MaxVersion \in Nat \ {0}
ASSUME RolesAssumption == Roles \subseteq {"super_admin", "sub_admin", "agent"}

VARIABLES
    account,   \* the row of system_users
    jar,       \* the cookies of the browser
    signedIn,  \* the store has a user; it survives a reload
    lock,      \* refreshLocks[scope] is set
    call,      \* what each call is doing
    form       \* the login page or the logout button

vars == <<account, jar, signedIn, lock, call, form>>

Versions == 1..MaxVersion
Token == Versions \cup {0}

Replies == {"none", "ok", "unauthorized", "error"}

CallState == [pc : {"idle", "check", "read", "write", "issue", "back",
                    "wait", "refresh", "reissue", "refreshed"},
              kind : {"none", "change", "password", "wrong"},
              token : Token,        \* sent with the call, or the refresh
              version : Token,      \* as read by the handler, or issued
              reply : Replies,
              retry : BOOLEAN,      \* _retry
              effects : 0..2,       \* history: times it took effect
              cause : BOOLEAN]      \* history: something ended the session

Idle == [pc |-> "idle", kind |-> "none", token |-> 0, version |-> 0,
         reply |-> "none", retry |-> FALSE, effects |-> 0, cause |-> FALSE]

TypeOK ==
    /\ account \in [role : Roles, version : Versions, enabled : BOOLEAN]
    /\ jar \in [access : Token, refresh : Token]
    /\ signedIn \in BOOLEAN /\ lock \in BOOLEAN
    /\ call \in [Calls -> CallState]
    /\ form \in [pc : {"none", "login", "logout"}, version : Token]

NoForm == [pc |-> "none", version |-> 0]

Cookies(v) == [access |-> v, refresh |-> v]

Init ==
    /\ account \in [role : Roles, version : {1}, enabled : {TRUE}]
    /\ jar = Cookies(0)
    /\ signedIn = FALSE
    /\ lock = FALSE
    /\ call = [c \in Calls |-> Idle]
    /\ form = NoForm

At(c, label) == call[c].pc = label

Set(c, t) == call' = [call EXCEPT ![c] = t]

\* Something that ends sessions happens: every call may fail from now on.
Marked(calls) == [c \in Calls |-> [calls[c] EXCEPT !.cause = calls[c].pc # "idle"]]

\* Late answers may leave cookies that have been overtaken.
Settled(calls) == IF jar'.refresh = account.version THEN calls ELSE Marked(calls)

-----------------------------------------------------------------------------
(* The server: JWTAuth, the handlers, and the refresh.                     *)

\* parseToken: the row is read for each token.
Valid(token) == token = account.version /\ account.enabled

Answer(c, reply) == Set(c, [call[c] EXCEPT !.pc = "back", !.reply = reply,
                                           !.token = 0, !.version = 0])

\* Any handler that changes something stands for all but the password's.
JWTAuth(c) ==
    /\ At(c, "check")
    /\ IF ~ Valid(call[c].token) THEN Answer(c, "unauthorized")
       ELSE IF call[c].kind = "change"
       THEN Set(c, [call[c] EXCEPT !.pc = "back", !.reply = "ok", !.token = 0,
                                   !.effects = @ + 1])
       ELSE Set(c, [call[c] EXCEPT !.pc = "read", !.token = 0])
    /\ UNCHANGED <<account, jar, signedIn, lock, form>>

\* The account as ChangePassword reads it; a wrong password is a 401 as well.
ChangePassword(c) ==
    /\ At(c, "read")
    /\ IF ~ account.enabled THEN Answer(c, "error")
       ELSE IF call[c].kind = "wrong" THEN Answer(c, "unauthorized")
       ELSE Set(c, [call[c] EXCEPT !.pc = "write", !.version = account.version])
    /\ UNCHANGED <<account, jar, signedIn, lock, form>>

\* Mutant: versions the row was never given are not normalised.
NewVersionRaw(v) == IF account.role = "super_admin" THEN v + 1 ELSE 0

\* A new password ends the other sessions of a super admin, and no others.
NewVersion(v) == IF account.role = "super_admin" THEN v + 1 ELSE v

WritePassword(c) ==
    /\ At(c, "write")
    /\ NewVersion(call[c].version) <= MaxVersion
    /\ account' = [account EXCEPT !.version = NewVersion(call[c].version)]
    /\ call' = LET calls == IF account'.version # account.version
                            THEN Marked(call) ELSE call
               IN  [calls EXCEPT ![c].pc = "issue", ![c].version = 0,
                             ![c].effects = @ + 1]
    /\ UNCHANGED <<jar, signedIn, lock, form>>

WriteFails(c) ==
    /\ At(c, "write")
    /\ Answer(c, "error")
    /\ UNCHANGED <<account, jar, signedIn, lock, form>>

\* The tokens are issued for the row as it is read after the commit.
IssueSession(c) ==
    /\ At(c, "issue")
    /\ IF account.enabled
       THEN Set(c, [call[c] EXCEPT !.pc = "back", !.reply = "ok",
                                   !.version = account.version])
       ELSE Answer(c, "error")
    /\ UNCHANGED <<account, jar, signedIn, lock, form>>

\* AuthService.Refresh reads the row twice: to check the token ...
Refresh(c) ==
    /\ At(c, "refresh")
    /\ IF Valid(call[c].token) THEN Set(c, [call[c] EXCEPT !.pc = "reissue", !.token = 0])
       ELSE Set(c, [call[c] EXCEPT !.pc = "refreshed", !.token = 0,
                                   !.reply = "unauthorized"])
    /\ UNCHANGED <<account, jar, signedIn, lock, form>>

\* ... and for what it issues.
Reissue(c) ==
    /\ At(c, "reissue")
    /\ Set(c, IF account.enabled
              THEN [call[c] EXCEPT !.pc = "refreshed", !.reply = "ok",
                                   !.version = account.version]
              ELSE [call[c] EXCEPT !.pc = "refreshed", !.reply = "error"])
    /\ UNCHANGED <<account, jar, signedIn, lock, form>>

-----------------------------------------------------------------------------
(* The client.                                                             *)

\* Pages are shown, and send calls, while the store has a user.
Send(c) ==
    /\ At(c, "idle") /\ signedIn
    /\ \E kind \in {"change", "password", "wrong"} :
         Set(c, [Idle EXCEPT !.pc = "check", !.kind = kind, !.token = jar.access,
                             !.cause = ~ Valid(jar.refresh) \/ form.pc = "logout"])
    /\ UNCHANGED <<account, jar, signedIn, lock, form>>

\* Mutants: calls that got no answer are refreshed and sent again, too; and
\* calls that were sent again are sent yet again.
isRefreshableLoosely(t) == t.reply \in {"unauthorized", "none"} /\ ~ t.retry
isRefreshableAlways(t) == t.reply = "unauthorized"

\* The guard of the interceptor.  "none" is a network error.
isRefreshable(t) == t.reply = "unauthorized" /\ ~ t.retry

\* Mutant: every call refreshes for itself.
refreshTokenUnlocked(c) ==
    /\ Set(c, [call[c] EXCEPT !.pc = "refresh", !.token = jar.refresh,
                              !.reply = "none", !.retry = TRUE])
    /\ lock' = TRUE
    /\ UNCHANGED signedIn

Refreshing(c) == call[c].pc \in {"refresh", "reissue", "refreshed"}

\* Joins the refresh under way, starts one, or gives up if the user has left.
refreshToken(c) ==
    LET t == [call[c] EXCEPT !.reply = "none", !.retry = TRUE]
    IN  \/ /\ lock
           /\ Set(c, [t EXCEPT !.pc = "wait", !.cause = @ \/ \E d \in Calls :
                                       call[d].cause /\ Refreshing(d)])
           /\ UNCHANGED <<signedIn, lock>>
        \/ /\ ~ lock /\ signedIn
           /\ Set(c, [t EXCEPT !.pc = "refresh", !.token = jar.refresh])
           /\ lock' = TRUE
           /\ UNCHANGED signedIn
        \/ /\ ~ lock /\ ~ signedIn
           /\ Set(c, Idle)
           /\ UNCHANGED <<signedIn, lock>>

\* The answer to a call, or none: it was lost, served or not.  A new password
\* brings a new session, for a sub admin in cookies of the agents' path; the
\* page stores the user unless it saw the store cleared.
Receive(c) ==
    LET t == call[c]
    IN  /\ At(c, "back")
        /\ IF isRefreshable(t) THEN refreshToken(c) /\ UNCHANGED jar
           ELSE IF t.reply = "ok" /\ t.kind = "password"
           THEN /\ jar' = IF account.role = "sub_admin" THEN jar ELSE Cookies(t.version)
                /\ signedIn' \in {signedIn, TRUE}
                /\ call' = Settled([call EXCEPT ![c] = Idle])
                /\ UNCHANGED lock
           ELSE Set(c, Idle) /\ UNCHANGED <<jar, signedIn, lock>>
        /\ UNCHANGED <<account, form>>

\* The connection fails or the client's timeout passes.  What the server is
\* still doing is cut short here: it was done or is not.
Lost(c) ==
    /\ call[c].pc \in {"check", "read", "write", "issue", "back"}
    /\ Set(c, [call[c] EXCEPT !.pc = "back", !.reply = "none", !.cause = TRUE,
                              !.token = 0, !.version = 0])
    /\ ~ (At(c, "back") /\ call[c].reply = "none")
    /\ UNCHANGED <<account, jar, signedIn, lock, form>>

\* Mutant: the cookies of the answer are not kept.
ResumeStale(t) == [t EXCEPT !.pc = "check", !.token = 0, !.reply = "none"]

\* client(original): sent again with the cookies there are now.
Resume(t) == [t EXCEPT !.pc = "check", !.token = jar'.access, !.reply = "none",
                               !.version = 0]

\* The refresh settles: every call that waits for it goes on with its outcome.
Waits(d, c) == d = c \/ call[d].pc = "wait"

Refreshed(c) ==
    LET t == call[c]
    IN  /\ At(c, "refreshed")
        /\ lock' = FALSE
        /\ IF t.reply = "ok"
           THEN /\ jar' = Cookies(t.version)
                /\ signedIn' = TRUE
                /\ call' = Settled([d \in Calls |-> IF Waits(d, c)
                                        THEN Resume(call[d]) ELSE call[d]])
           ELSE /\ signedIn' = FALSE
                /\ call' = Marked([d \in Calls |-> IF Waits(d, c) THEN Idle
                                                   ELSE call[d]])
                /\ UNCHANGED jar
        /\ UNCHANGED <<account, form>>

RefreshLost(c) ==
    /\ \/ call[c].pc \in {"refresh", "reissue"}
       \/ At(c, "refreshed") /\ call[c].reply # "none"
    /\ call' = [Marked(call) EXCEPT ![c].pc = "refreshed", ![c].reply = "none",
                                     ![c].token = 0, ![c].version = 0]
    /\ UNCHANGED <<account, jar, signedIn, lock, form>>

\* The login page: loginWithRoles issues tokens for the row it reads.
Login ==
    /\ ~ signedIn /\ form = NoForm
    /\ account.enabled
    /\ form' = [pc |-> "login", version |-> account.version]
    /\ UNCHANGED <<account, jar, signedIn, lock, call>>

LoggedIn ==
    /\ form.pc = "login"
    /\ \/ /\ jar' = Cookies(form.version)
          /\ signedIn' = TRUE
          /\ call' = Settled(call)
       \/ UNCHANGED <<jar, signedIn, call>>
    /\ form' = NoForm
    /\ UNCHANGED <<account, lock>>

\* The logout button: cookies are cleared by the answer, the store regardless.
Logout ==
    /\ signedIn /\ form = NoForm
    /\ form' = [pc |-> "logout", version |-> 0]
    /\ call' = Marked(call)
    /\ UNCHANGED <<account, jar, signedIn, lock>>

LoggedOut ==
    /\ form.pc = "logout"
    /\ jar' \in {jar, Cookies(0)}
    /\ signedIn' = FALSE
    /\ form' = NoForm
    /\ call' = Marked(call)
    /\ UNCHANGED <<account, lock>>

\* The page is loaded again: calls, promises and locks are gone.
Reload ==
    /\ call' = [c \in Calls |-> Idle]
    /\ lock' = FALSE
    /\ form' = NoForm
    /\ UNCHANGED <<account, jar, signedIn>>

-----------------------------------------------------------------------------
(* Time, and the account elsewhere.                                        *)

\* A token that was issued during a call outlives it: hours against seconds.
AccessExpires ==
    /\ \A c \in Calls : ~ call[c].retry
    /\ jar' = [jar EXCEPT !.access = 0]
    /\ call' = [c \in Calls |-> IF At(c, "check") THEN [call[c] EXCEPT !.token = 0]
                                ELSE call[c]]
    /\ UNCHANGED <<account, signedIn, lock, form>>

RefreshExpires ==
    /\ jar' = Cookies(0)
    /\ call' = Marked([c \in Calls |-> IF call[c].pc \in {"check", "refresh"}
                                       THEN [call[c] EXCEPT !.token = 0] ELSE call[c]])
    /\ UNCHANGED <<account, signedIn, lock, form>>

\* The password is changed on another device; the account is disabled or
\* enabled by an administrator.
AccountChanges ==
    /\ \/ /\ NewVersion(account.version) \in Versions \ {account.version}
          /\ account' = [account EXCEPT !.version = NewVersion(@)]
       \/ /\ account.role # "super_admin"
          /\ account' = [account EXCEPT !.enabled = ~ @]
    /\ call' = Marked(call)
    /\ UNCHANGED <<jar, signedIn, lock, form>>

-----------------------------------------------------------------------------
Step(c) ==
    \/ JWTAuth(c) \/ ChangePassword(c) \/ WritePassword(c) \/ WriteFails(c)
    \/ IssueSession(c) \/ Refresh(c) \/ Reissue(c)
    \/ Receive(c) \/ Lost(c) \/ Refreshed(c) \/ RefreshLost(c)

Next ==
    \/ \E c \in Calls : Send(c) \/ Step(c)
    \/ Login \/ LoggedIn \/ Logout \/ LoggedOut \/ Reload
    \/ AccessExpires \/ RefreshExpires \/ AccountChanges

Spec == Init /\ [][Next]_vars

\* The client's timeout ends every wait, and the server answers.
Fairness == \A c \in Calls : WF_vars(Step(c))

FairSpec == Spec /\ Fairness

-----------------------------------------------------------------------------
(* Properties.                                                             *)

\* Calls that are refused together share one refresh, and a call waits only
\* for a refresh that is still under way.
OneRefresh ==
    /\ \A c, d \in Calls : Refreshing(c) /\ Refreshing(d) => c = d
    /\ \A c \in Calls : At(c, "wait") => \E d \in Calls : Refreshing(d)

\* Sending a call again never repeats what it did: it is sent again only if
\* the first one was turned away before it changed anything.
EffectOnce == \A c \in Calls : call[c].effects <= 1

\* An expired access cookie is never seen by the user: a call fails only if
\* the session really ended while it was under way or before, the connection
\* failed, or the old password was wrong.  A refresh that succeeds brings
\* every call it was shared by through.
FailureHasCause ==
    [][\A c \in Calls :
         /\ call[c].pc # "idle" /\ call'[c].pc = "idle"
         /\ ~ (At(c, "back") /\ call[c].reply \in {"ok", "error"})
         => \/ call[c].cause
            \/ call[c].kind = "wrong"
            \/ Reload]_vars

\* Every call settles: refreshes and repeated calls do not go on for ever.
CallsSettle == \A c \in Calls : call[c].pc # "idle" ~> call[c].pc = "idle"
=============================================================================
