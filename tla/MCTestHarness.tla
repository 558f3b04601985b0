---------------------------- MODULE MCTestHarness ----------------------------
(* Two tests over the functions f1, f2, f3, with a goroutine and a         *)
(* coverage table that has room for two functions.                         *)
EXTENDS TestHarness

CONSTANTS m, g1, f1, f2, f3
=============================================================================
