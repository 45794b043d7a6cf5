------------------------------- MODULE MCAuth -------------------------------
(* Requests of one user's clients. *)
EXTENDS Auth, TLC

CONSTANTS t1, t2, t3, t4, alice

\* Tasks differ in nothing but their names.
TaskSymmetry == Permutations(Tasks)
=============================================================================
