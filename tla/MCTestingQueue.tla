--------------------------- MODULE MCTestingQueue ---------------------------
(* Two node ids; the first node is restarted once, so it has two connections. *)
EXTENDS TestingQueue, TLC

CONSTANTS c1, c2, c3, n1, n2, s1, s2

MCConns == {c1, c2, c3}
MCNodeIds == {n1, n2}
MCIdOf == (c1 :> n1) @@ (c2 :> n1) @@ (c3 :> n2)

\* Invoker::canTestSubmission as it is ...
AllCanTest == MCNodeIds \X Submissions
\* ... and overridden so that only the second node takes s2.
SelectiveCanTest == AllCanTest \ {<<n1, s2>>}
=============================================================================
