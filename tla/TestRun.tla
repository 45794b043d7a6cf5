------------------------------ MODULE TestRun ------------------------------
(***************************************************************************)
(* A test node running a problem's test, CompilationTest around a Testset  *)
(* of SingleTests, for one submission after the other. The Test object     *)
(* with its VerdictBuilder is built once per problem and reused, and all   *)
(* runs share the sandbox's two boxes and the files it reports through     *)
(* (logs/meta.txt, logs/checker_err.txt).                                  *)
(***************************************************************************)
EXTENDS Naturals, Sequences, FiniteSets

CONSTANTS N,       \* tests in the testset
          Runs,    \* bound: submissions to test
          Builder, \* "min" or "sum"
          Reliable \* do the database and the sandbox always answer?

ASSUME TestRunAssumption ==
    /\ N \in Nat \ {0}
    /\ Runs \in Nat
    /\ Builder \in {"min", "sum"}
    /\ Reliable \in BOOLEAN

Full == 100
Types == {"ACCEPTED", "PARTIAL", "SKIPPED", "WRONG", "FAILED"}

\* A verdict's class, its short name and its score.
V(type, name, score) == [type |-> type, name |-> name, score |-> score]
Accepted(score) == V("ACCEPTED", "AC", score)
Wrong(name) == V("WRONG", name, 0)
Skipped == V("SKIPPED", "SK", 0)
Failed == V("FAILED", "FAIL", 0)
Partial(score) == V("PARTIAL", "PT", score)

VARIABLES current,    \* the builder's current_verdict_
          stage, i,   \* where the run stands, and its next test
          meta,       \* status in meta.txt, "none" before the first run
          checker,    \* last line of checker_err.txt, "none" likewise
          boxes,      \* are the boxes initialised?
          runs,       \* submissions tested so far
          result,     \* what run returned for the last one
          truth       \* history: what the tests of this run really gave

vars == <<current, stage, i, meta, checker, boxes, runs, result, truth>>
-----------------------------------------------------------------------------
(* VerdictBuilderMin and VerdictBuilderSum *)

MinOf(a, b) == IF a < b THEN a ELSE b

\* Mutant: the type of the first verdict stays.
AddVerdictMinMutant(cur, v) ==
    V(cur.type, cur.name, MinOf(cur.score, v.score))

AddVerdictMin(cur, v) ==
    LET new == CASE cur.type = "ACCEPTED" -> v
                 [] cur.type = "PARTIAL" -> IF v.type = "ACCEPTED" THEN cur ELSE v
                 [] cur.type = "SKIPPED" -> IF v.type \in {"FAILED", "WRONG", "PARTIAL"} THEN v ELSE cur
                 [] cur.type = "WRONG" -> IF v.type = "FAILED" THEN v ELSE cur
                 [] OTHER -> cur
    IN V(new.type, new.name, MinOf(cur.score, v.score))

AddVerdictSum(cur, v) ==
    LET new == CASE cur.type = "ACCEPTED" -> IF v.type \in {"WRONG", "SKIPPED"} THEN Partial(0) ELSE v
                 [] cur.type = "PARTIAL" -> IF v.type = "FAILED" THEN v ELSE cur
                 [] cur.type = "SKIPPED" -> IF v.type = "SKIPPED" THEN cur ELSE v
                 [] cur.type = "WRONG" -> IF v.type \in {"FAILED", "PARTIAL"} THEN v
                                          ELSE IF v.type = "ACCEPTED" THEN Partial(0) ELSE cur
                 [] OTHER -> cur
    IN V(new.type, new.name, cur.score + v.score)

AddVerdict(cur, v) == IF Builder = "min" THEN AddVerdictMin(cur, v) ELSE AddVerdictSum(cur, v)
Clear == Accepted(IF Builder = "min" THEN Full ELSE 0)

CanScoreChange == current.score # 0

(* verdict_utils *)

\* loadVerdictFromMeta: an absent status counts as "OK".
VerdictOfMeta(status) ==
    CASE status = "OK" -> Accepted(Full)
      [] status = "TO" -> Wrong("TL")
      [] status = "RE" -> Wrong("RE")
      [] status = "SG" -> Wrong("ML")
      [] status = "IL" -> Wrong("IL")
      [] OTHER -> Wrong("SV")

\* loadVerdictFromCheckerOutput: without a line the verdict's class is never
\* assigned, so it may be any, and its names are empty.
VerdictsOfChecker(line) ==
    CASE line = "o" -> {Accepted(Full)}
      [] line = "w" -> {Wrong("WA")}
      [] line = "p" -> {Wrong("PE")}
      [] line \in {"empty", "none"} -> {V(t, "", 0) : t \in Types}
      [] OTHER -> {Failed}
-----------------------------------------------------------------------------
\* A new submission: CompilationTest::run, prepare_for_testing.sh. A
\* submission whose language the database does not tell throws.
Prepare ==
    /\ stage = "idle" /\ runs < Runs
    /\ truth' = <<>>
    /\ i' = 1
    /\ \/ stage' = "compile" /\ boxes' = TRUE /\ UNCHANGED result
       \/ stage' = "idle" /\ result' = Failed /\ UNCHANGED boxes
       \/ ~Reliable /\ stage' = "dead" /\ UNCHANGED <<boxes, result>>
    /\ runs' = runs + 1
    /\ UNCHANGED <<current, meta, checker>>

\* The run ends early, its boxes left as they are.
EndEarly(v) == stage' = "idle" /\ result' = v /\ UNCHANGED current

\* Compilation, the copy of the checker, and Testset::run's clear.
Compile ==
    /\ stage = "compile"
    /\ \/ EndEarly(Wrong("CE"))
       \/ EndEarly(Failed)
       \/ stage' = "tests" /\ current' = Clear /\ UNCHANGED result
    /\ UNCHANGED <<i, meta, checker, boxes, runs, truth>>

\* One test's verdict joins the others.
Add(v, really) ==
    /\ current' = AddVerdict(current, v)
    /\ i' = i + 1
    /\ truth' = Append(truth, really)

\* Mutant: one test too many.
TestingMutant == stage = "tests" /\ i <= N + 1

Testing == stage = "tests" /\ i <= N

\* The solution ends by itself and the checker judges its output.
RunAndCheck ==
    /\ Testing /\ CanScoreChange
    /\ meta' = "OK"
    /\ \E line \in {"o", "w", "p", "f"} :
          /\ checker' = line
          /\ \E v \in VerdictsOfChecker(line) :
                Add(v, IF line = "o" THEN "pass" ELSE "fail")
    /\ UNCHANGED <<stage, boxes, runs, result>>

\* The checker says nothing, or cannot be run and the file of an earlier run
\* is read.
CheckerFails ==
    /\ ~Reliable
    /\ Testing /\ CanScoreChange
    /\ meta' = "OK"
    /\ checker' \in {"empty", checker}
    /\ \E v \in VerdictsOfChecker(checker') : Add(v, "lost")
    /\ UNCHANGED <<stage, boxes, runs, result>>

\* The sandbox stops the solution: the checker is not run.
RunAndStop ==
    /\ Testing /\ CanScoreChange
    /\ \E status \in {"TO", "RE", "SG", "IL", "XX"} :
          meta' = status /\ Add(VerdictOfMeta(status), "fail")
    /\ UNCHANGED <<stage, checker, boxes, runs, result>>

\* The sandbox fails before it opens meta.txt: the file of an earlier run is
\* read; without one meta.time.value() throws and the node's stub ends.
SandboxFails ==
    /\ ~Reliable
    /\ Testing /\ CanScoreChange
    /\ \/ /\ meta # "none"
          /\ Add(VerdictOfMeta(meta), "lost")
          /\ UNCHANGED <<stage, boxes>>
       \/ /\ meta = "none"
          /\ stage' = "dead"
          /\ UNCHANGED <<current, i, truth, boxes>>
    /\ UNCHANGED <<meta, checker, runs, result>>

SkipTest ==
    /\ Testing /\ ~CanScoreChange
    /\ Add(Skipped, "skip")
    /\ UNCHANGED <<stage, meta, checker, boxes, runs, result>>

\* Mutant: the loop does not end at the last test.
EndTestingMutant ==
    /\ stage = "tests" /\ i > N + 1
    /\ stage' = "idle"
    /\ boxes' = FALSE /\ result' = current
    /\ UNCHANGED <<current, i, meta, checker, runs, truth>>

\* end_testing.sh cleans the boxes up, or fails.
EndTesting ==
    /\ stage = "tests" /\ i > N
    /\ stage' = "idle"
    /\ \/ boxes' = FALSE /\ result' = current
       \/ result' = Failed /\ UNCHANGED boxes
    /\ UNCHANGED <<current, i, meta, checker, runs, truth>>
-----------------------------------------------------------------------------
Init ==
    /\ current = Clear
    /\ stage = "idle" /\ i = 1
    /\ meta = "none" /\ checker = "none"
    /\ boxes = FALSE
    /\ runs = 0
    /\ result = V("WRONG", "EM", 0)
    /\ truth = <<>>

Next ==
    \/ Prepare
    \/ Compile
    \/ RunAndCheck
    \/ CheckerFails
    \/ RunAndStop
    \/ SandboxFails
    \/ SkipTest
    \/ EndTesting

Spec == Init /\ [][Next]_vars

\* The node works on while it is not dead.
FairSpec == Spec /\ WF_vars(Next)
-----------------------------------------------------------------------------
\* Every variable has its type.
TypeOK ==
    /\ current.type \in Types /\ current.score \in Nat
    /\ result.type \in Types /\ result.score \in Nat
    /\ stage \in {"idle", "compile", "tests", "dead"}
    /\ i \in 1 .. N + 1
    /\ boxes \in BOOLEAN
    /\ runs \in 0 .. Runs
    /\ truth \in Seq({"pass", "fail", "lost", "skip"})

\* All N tests of the last run have been decided.
Complete == stage = "idle" /\ Len(truth) = N
Passed == \A k \in 1 .. Len(truth) : truth[k] = "pass"

\* With the min builder a submission whose tests all reported is accepted, with
\* full score, only if every test of this very run was run and passed: skipping
\* tests, the files of earlier runs and the reused builder do not make a failed
\* one pass. And conversely it is turned down only because one of its tests
\* failed, or the sandbox did; what the runs before it left in the reused
\* builder has no part in it.
VerdictOfThisRun ==
    Builder = "min" /\ Complete /\ (\A k \in 1 .. N : truth[k] # "lost") =>
        /\ result.type = "ACCEPTED" => Passed /\ result.score = Full
        /\ (\A k \in 1 .. N : truth[k] # "fail") => result \in {Accepted(Full), Failed}

\* A sum testset scores the sum of its tests: full marks for each one passed.
SumOfTests ==
    Builder = "sum" /\ Complete /\ result.type # "FAILED"
        => result.score = Full * Cardinality({k \in 1 .. N : truth[k] = "pass"})
           /\ (\A k \in 1 .. N : truth[k] # "skip")

\* Every run ends, unless the node dies.
RunEnds == stage = "compile" ~> stage \in {"idle", "dead"}
=============================================================================
