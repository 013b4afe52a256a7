----------------------------- MODULE MCTVProxy -----------------------------
(* A small instance of TVProxy for TLC.                                    *)
EXTENDS TVProxy

CONSTANTS e1, e2, q1, q2, a, b

MCEnds == {e1, e2}
MCOperators == {q1, q2}
MCPairs == {a, b}
=============================================================================
