------------------------- MODULE MCLibpqConnection -------------------------
(* An instance of LibpqConnection for TLC: two queries, two syncs with     *)
(* copies of the log of different age, and a quote.                        *)
EXTENDS LibpqConnection

CONSTANTS q1, q2, s1, s2, e1

MCTasks == {q1, q2, s1, s2, e1}
MCKind == [t \in MCTasks |-> IF t \in {q1, q2} THEN "query"
                             ELSE IF t = e1 THEN "quote" ELSE "sync"]
MCActionsOf == [t \in MCTasks |-> IF t = s1 THEN 2 ELSE IF t = s2 THEN 3 ELSE 0]
=============================================================================
