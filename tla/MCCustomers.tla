---------------------------- MODULE MCCustomers ----------------------------
(* A small instance of Customers for TLC.                                  *)
EXTENDS Customers

CONSTANTS w1, w2, n1, a1, a2

MCWorkers == {w1, w2}
MCNames == {n1}
MCAgents == {a1, a2}
=============================================================================
