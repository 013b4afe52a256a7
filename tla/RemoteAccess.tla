---------------------------- MODULE RemoteAccess ----------------------------
(***************************************************************************)
(* What a call of TVProxy promises about the access TradingView holds for  *)
(* one user and script, as long as calls about it do not overlap: it takes *)
(* effect once or not at all, it takes effect before it returns, and the   *)
(* answer says as much as AccessGrant relies on.                           *)
(***************************************************************************)
EXTENDS Integers

CONSTANTS Ends, NoAccess

VARIABLES remote, call

vars == <<remote, call>>

NoCall == [op |-> "none", end |-> NoAccess, held |-> FALSE, effect |-> FALSE,
           result |-> "none"]

Init == remote \in Ends \cup {NoAccess} /\ call = NoCall

Begin(op, e) ==
    /\ call.op = "none"
    /\ call' = [op |-> op, end |-> e, held |-> remote # NoAccess,
                effect |-> FALSE, result |-> "none"]
    /\ UNCHANGED remote

Effect ==
    /\ call.op \in {"add", "remove", "modify"} /\ ~ call.effect
    /\ call.op = "add" => ~ call.held
    /\ call.op = "modify" => call.held
    /\ remote' = IF call.op = "remove" THEN NoAccess ELSE call.end
    /\ call' = [call EXCEPT !.effect = TRUE]

\* An error says nothing; "ok" says that the call took effect; "exists" says
\* that there was an access, or that this very call has added it.  With
\* "none" the server died before there was a result.
Return(result) ==
    /\ call.op # "none"
    /\ result = "ok" /\ call.op # "read" => call.effect
    /\ result = "exists" => call.op = "add" /\ (call.held \/ call.effect)
    /\ call' = [NoCall EXCEPT !.result = result]
    /\ UNCHANGED remote

Next ==
    \/ \E e \in Ends : Begin("add", e) \/ Begin("modify", e)
    \/ Begin("remove", NoAccess) \/ Begin("read", NoAccess)
    \/ Effect
    \/ \E result \in {"ok", "exists", "error", "none"} : Return(result)

Spec == Init /\ [][Next]_vars
=============================================================================
