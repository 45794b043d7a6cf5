----------------------- MODULE MCSubmissionLifecycle -----------------------
EXTENDS SubmissionLifecycle

\* One submission that solves the problem, the others do not.
MCTruth == [s \in Subs |-> IF s = "s1" THEN "AC" ELSE "WA"]
=============================================================================
