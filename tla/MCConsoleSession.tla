-------------------------- MODULE MCConsoleSession --------------------------
(* A small instance of ConsoleSession for TLC.                             *)
EXTENDS ConsoleSession

CONSTANTS c1, c2

MCCalls == {c1, c2}
=============================================================================
