---------------------------- MODULE MCAccessSync ----------------------------
(* A small instance of AccessSync for TLC.                                 *)
EXTENDS AccessSync, TLC

CONSTANTS p1, p2, s1, s2, u1, u2, e1, e2

MCHandlers == {p1}
MCJobs == {p2}
MCScripts == {s1, s2}
MCBroken == {s2}
MCUsers == {u1, u2}
MCEnds == {e1, e2}
=============================================================================
