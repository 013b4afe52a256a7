---------------------------- MODULE AccessLedger ----------------------------
(***************************************************************************)
(* What the back office promises, without TradingView, goroutines or       *)
(* tables: each (customer, script) pair is entitled to access until some   *)
(* time, or is not, and each request is decided once.  AccessGrantLedger   *)
(* shows that AccessGrant implements this when operations do not overlap.  *)
(***************************************************************************)
EXTENDS Integers

CONSTANTS Keys, Requests, Agents, Durations, Lifetime, NoAccess

VARIABLES
    now,       \* the clock
    request,   \* the requests, as the agents see them
    entitled   \* the end of each entitlement, or NoAccess

vars == <<now, request, entitled>>

\* A plan bought at time t lengthens what is left, or starts at t.  A plan
\* with an end replaces a lifetime entitlement: there is no end to add to.
Extend(e, d, t) ==
    IF d = Lifetime THEN Lifetime
    ELSE d + (IF e \notin {NoAccess, Lifetime} /\ e > t THEN e ELSE t)

Init ==
    /\ now = 0
    /\ \A r \in Requests : request[r].status = "none"
    /\ entitled = [k \in Keys |-> NoAccess]

Duplicate(r) ==
    \E s \in Requests \ {r} : /\ request'[s].status = "pending"
                              /\ request'[s].agent = request'[r].agent
                              /\ request'[s].key = request'[r].key

Submit(r) ==
    /\ request[r].status = "none"
    /\ \E a \in Agents, k \in Keys, d \in Durations :
         request' = [request EXCEPT ![r] =
             [status |-> "pending", agent |-> a, key |-> k, dur |-> d]]
    /\ ~ Duplicate(r)
    /\ UNCHANGED <<now, entitled>>

Decide(r, status) ==
    /\ request[r].status = "pending"
    /\ request' = [request EXCEPT ![r].status = status]

Close(r) ==
    /\ Decide(r, "rejected") \/ Decide(r, "cancelled")
    /\ UNCHANGED <<now, entitled>>

\* One decision, one extension, by the duration the request asked for.  The
\* instant is the one at which the reviewer's click was read.
Approve(r) ==
    /\ Decide(r, "approved")
    /\ \E t \in 0..now :
         entitled' = [entitled EXCEPT ![request[r].key] =
                         Extend(@, request[r].dur, t)]
    /\ UNCHANGED now

Grant(k) ==
    /\ entitled[k] = NoAccess
    /\ \E d \in Durations, t \in 0..now :
         entitled' = [entitled EXCEPT ![k] = Extend(NoAccess, d, t)]
    /\ UNCHANGED <<now, request>>

Renew(k) ==
    /\ entitled[k] # NoAccess
    /\ \E d \in Durations, t \in 0..now :
         entitled' = [entitled EXCEPT ![k] = Extend(@, d, t)]
    /\ UNCHANGED <<now, request>>

\* Revoked by an operator, or taken back by the expiry job.
End(k) ==
    /\ entitled' = [entitled EXCEPT ![k] = NoAccess]
    /\ UNCHANGED <<now, request>>

Tick == now' = now + 1 /\ UNCHANGED <<request, entitled>>

Next ==
    \/ \E r \in Requests : Submit(r) \/ Close(r) \/ Approve(r)
    \/ \E k \in Keys : Grant(k) \/ Renew(k) \/ End(k)
    \/ Tick

Spec == Init /\ [][Next]_vars
=============================================================================
