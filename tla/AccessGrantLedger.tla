------------------------- MODULE AccessGrantLedger -------------------------
(***************************************************************************)
(* The refinement mapping from the tables of AccessGrant to AccessLedger:  *)
(* a pair is entitled to what its active subscription says.                *)
(***************************************************************************)
EXTENDS AccessGrant

Entitled(k) ==
    IF ActiveSubs(k) = {} THEN NoAccess
    ELSE LET first == CHOOSE i \in Subs : IsFirstActive(i, k)
         IN  sub[first].exp

Ledger == INSTANCE AccessLedger WITH entitled <- [k \in Keys |-> Entitled(k)]

\* With one goroutine at a time every commit of the tables is one step of the
\* ledger and every other step leaves it alone, whatever TradingView answers,
\* whichever commits fail and wherever the server dies: no request is decided
\* or counted twice, and no entitlement appears, grows or disappears otherwise.
ImplementsLedger == Ledger!Spec
=============================================================================
