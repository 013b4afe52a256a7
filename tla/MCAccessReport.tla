--------------------------- MODULE MCAccessReport ---------------------------
(* A small instance of AccessReport for TLC.                               *)
EXTENDS AccessReport, TLC

CONSTANTS s1, s2, u1, u2, never

MCScripts == {s1, s2}
MCEnabled == {s1}
MCUsers == {u1, u2}
MCEnds == {1, never}
Symmetry == Permutations(MCUsers)
=============================================================================
