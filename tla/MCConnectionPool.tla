-------------------------- MODULE MCConnectionPool --------------------------
(* An instance of ConnectionPool for TLC: tasks and blocks as model values. *)
EXTENDS ConnectionPool

CONSTANTS t1, t2, b1
=============================================================================
