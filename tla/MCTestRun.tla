----------------------------- MODULE MCTestRun -----------------------------
(* TestRun needs no definitions beyond its constants. *)
EXTENDS TestRun
=============================================================================
