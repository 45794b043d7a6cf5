-------------------------- MODULE TestNode_proofs --------------------------
(***************************************************************************)
(* The test node. A run's verdict depends on that run alone: the reused    *)
(* builder, the skipped tests and the files of earlier runs have no part   *)
(* in it, for any number of tests and of submissions. And the cache of     *)
(* tests agrees with the node's files, for every problem, any number of    *)
(* versions, plugins, submissions and faults.                              *)
(***************************************************************************)
EXTENDS TestRun, TestStorage, TLAPS

Names == {"AC", "SK", "FAIL", "PT", "CE", "WA", "PE", "TL", "RE", "ML", "IL", "SV", "EM", ""}
Verdicts == [type : Types, name : Names, score : Nat]
Outcomes == {"pass", "fail", "lost", "skip"}

\* All of the tests so far have reported.
NoneLost == \A k \in 1 .. Len(truth) : truth[k] # "lost"

\* What the min builder makes of tests that have all reported: nothing but full
\* marks while all pass, and no way back after one has failed.
Decided(v) ==
    \/ Passed /\ v = Accepted(Full)
    \/ /\ \E k \in 1 .. Len(truth) : truth[k] = "fail"
       /\ v.type \in {"WRONG", "FAILED"} /\ v.score = 0

Typed ==
    /\ TypeOK
    /\ current \in Verdicts /\ result \in Verdicts

\* Only the loop over the tests adds to the history of the run.
History ==
    /\ stage = "compile" => truth = <<>> /\ i = 1
    /\ stage = "tests" => Len(truth) = i - 1

DecidedSoFar == (Builder = "min" /\ stage = "tests" /\ NoneLost) => Decided(current)
DecidedAtEnd ==
    (Builder = "min" /\ Complete /\ NoneLost) => result = Failed \/ Decided(result)

RunInv == Typed /\ History /\ DecidedSoFar /\ DecidedAtEnd
-----------------------------------------------------------------------------
(* The verdicts and the builders *)

\* The verdicts the tests and builders make.
LEMMA VerdictForms ==
    /\ \A x \in {0, Full} : Accepted(x) \in Verdicts
    /\ \A x \in Names : Wrong(x) \in Verdicts
    /\ Skipped \in Verdicts /\ Failed \in Verdicts /\ Partial(0) \in Verdicts
    /\ \A t \in Types : V(t, "", 0) \in Verdicts
BY DEF Accepted, Wrong, Skipped, Failed, Partial, V, Verdicts, Names, Types, Full

\* What the sandbox reports: anything but "OK" is a wrong answer of some kind.
LEMMA MetaForm ==
    ASSUME NEW status
    PROVE  /\ VerdictOfMeta(status) \in Verdicts
           /\ status # "OK" => \E x \in Names : VerdictOfMeta(status) = Wrong(x)
BY VerdictForms DEF VerdictOfMeta, Names

\* What the checker reports: full marks for "o", nothing for a verdict against.
LEMMA CheckerForm ==
    ASSUME NEW line, NEW v \in VerdictsOfChecker(line)
    PROVE  /\ v \in Verdicts
           /\ line = "o" => v = Accepted(Full)
           /\ line \in {"w", "p", "f"} => v = Failed \/ \E x \in Names : v = Wrong(x)
BY VerdictForms DEF VerdictsOfChecker, Names

\* VerdictBuilderMin: the lower score; an accepted run takes over the new
\* verdict's class, and a skipped test never mends a wrong one.
LEMMA MinForm ==
    ASSUME NEW cur \in Verdicts, NEW v \in Verdicts
    PROVE  /\ AddVerdictMin(cur, v) \in Verdicts
           /\ AddVerdictMin(cur, v).score = MinOf(cur.score, v.score)
           /\ cur.type = "ACCEPTED" => AddVerdictMin(cur, v).type = v.type
           /\ (cur.type \in {"WRONG", "FAILED"} /\ v.type = "SKIPPED")
                 => AddVerdictMin(cur, v).type = cur.type
<1>1. MinOf(cur.score, v.score) \in Nat
  BY DEF MinOf, Verdicts
<1>2. PICK new \in {cur, v} :
         /\ AddVerdictMin(cur, v) = V(new.type, new.name, MinOf(cur.score, v.score))
         /\ cur.type = "ACCEPTED" => new = v
         /\ (cur.type \in {"WRONG", "FAILED"} /\ v.type = "SKIPPED") => new = cur
  BY DEF AddVerdictMin
<1> QED
  BY <1>1, <1>2 DEF V, Verdicts

\* VerdictBuilderSum adds the scores up.
LEMMA SumForm ==
    ASSUME NEW cur \in Verdicts, NEW v \in Verdicts
    PROVE  AddVerdictSum(cur, v) \in Verdicts
<1>1. cur.score + v.score \in Nat
  BY DEF Verdicts
<1>2. PICK new \in {cur, v, Partial(0)} :
         AddVerdictSum(cur, v) = V(new.type, new.name, cur.score + v.score)
  BY DEF AddVerdictSum
<1>3. new \in Verdicts
  BY <1>2, VerdictForms
<1> QED
  BY <1>1, <1>2, <1>3 DEF V, Verdicts

\* Either builder makes a verdict of two verdicts.
LEMMA AddForm ==
    ASSUME NEW cur \in Verdicts, NEW v \in Verdicts
    PROVE  AddVerdict(cur, v) \in Verdicts
BY MinForm, SumForm DEF AddVerdict
-----------------------------------------------------------------------------
(* One test more *)

\* The history of the run grows by what this test really gave.
LEMMA TruthGrows ==
    ASSUME Typed, NEW v, NEW really \in Outcomes, Add(v, really)
    PROVE  /\ truth' \in Seq(Outcomes) /\ Len(truth) \in Nat
           /\ Len(truth') = Len(truth) + 1
           /\ \A k \in 1 .. Len(truth) : truth'[k] = truth[k]
           /\ truth'[Len(truth) + 1] = really
<1>1. truth \in Seq(Outcomes) /\ truth' = Append(truth, really)
  BY DEF Typed, TypeOK, Add, Outcomes
<1> QED
  BY <1>1

\* A test that passed.
LEMMA AddPass ==
    ASSUME Typed, Builder = "min", NoneLost => Decided(current), current.score # 0,
           Add(Accepted(Full), "pass")
    PROVE  NoneLost' => Decided(current)'
<1> SUFFICES ASSUME NoneLost' PROVE Decided(current)'
  OBVIOUS
<1>1. /\ Len(truth') = Len(truth) + 1 /\ Len(truth) \in Nat
      /\ \A k \in 1 .. Len(truth) : truth'[k] = truth[k]
      /\ truth'[Len(truth) + 1] = "pass"
  BY TruthGrows DEF Outcomes
<1>2. NoneLost
  BY <1>1 DEF NoneLost
<1>3. Passed /\ current = Accepted(Full)
  BY <1>2 DEF Decided
<1>4. Passed'
  BY <1>1, <1>3 DEF Passed
<1>5. current' = Accepted(Full)
  <2>1. current' = AddVerdictMin(Accepted(Full), Accepted(Full))
    BY <1>3 DEF Add, AddVerdict
  <2> QED
    BY <2>1 DEF AddVerdictMin, Accepted, V, MinOf, Full
<1> QED
  BY <1>4, <1>5 DEF Decided, Accepted, V

\* A test that failed: its verdict scores nothing.
LEMMA AddFail ==
    ASSUME Typed, Builder = "min", NoneLost => Decided(current), current.score # 0,
           NEW v, v = Failed \/ \E x \in Names : v = Wrong(x), Add(v, "fail")
    PROVE  NoneLost' => Decided(current)'
<1> SUFFICES ASSUME NoneLost' PROVE Decided(current)'
  OBVIOUS
<1>1. /\ Len(truth') = Len(truth) + 1 /\ Len(truth) \in Nat
      /\ \A k \in 1 .. Len(truth) : truth'[k] = truth[k]
      /\ truth'[Len(truth) + 1] = "fail"
  BY TruthGrows DEF Outcomes
<1>2. NoneLost
  BY <1>1 DEF NoneLost
<1>3. current = Accepted(Full)
  BY <1>2 DEF Decided
<1>4. v \in Verdicts /\ v.type \in {"WRONG", "FAILED"} /\ v.score = 0
  <2>1. CASE v = Failed
    <3>1. v \in Verdicts
      BY <2>1, VerdictForms
    <3>2. v = [type |-> "FAILED", name |-> "FAIL", score |-> 0]
      BY <2>1 DEF Failed, V
    <3> QED
      BY <3>1, <3>2
  <2>2. CASE \E x \in Names : v = Wrong(x)
    <3>1. PICK x \in Names : v = Wrong(x)
      BY <2>2
    <3>2. v \in Verdicts
      BY <3>1, VerdictForms
    <3>3. v = [type |-> "WRONG", name |-> x, score |-> 0]
      BY <3>1 DEF Wrong, V
    <3> QED
      BY <3>2, <3>3
  <2> QED
    BY <2>1, <2>2
<1>5. current' = AddVerdictMin(current, v) /\ current \in Verdicts
  BY DEF Add, AddVerdict, Typed
<1>6. current'.type = v.type /\ current'.score = 0
  BY <1>3, <1>4, <1>5, MinForm DEF Accepted, V, MinOf, Full
<1> QED
  BY <1>1, <1>4, <1>6 DEF Decided

\* A test that is skipped because nothing is left to score.
LEMMA AddSkip ==
    ASSUME Typed, Builder = "min", NoneLost => Decided(current), current.score = 0,
           Add(Skipped, "skip")
    PROVE  NoneLost' => Decided(current)'
<1> SUFFICES ASSUME NoneLost' PROVE Decided(current)'
  OBVIOUS
<1>1. /\ Len(truth') = Len(truth) + 1 /\ Len(truth) \in Nat
      /\ \A k \in 1 .. Len(truth) : truth'[k] = truth[k]
      /\ truth'[Len(truth) + 1] = "skip"
  BY TruthGrows DEF Outcomes
<1>2. NoneLost
  BY <1>1 DEF NoneLost
<1>3. PICK k \in 1 .. Len(truth) : truth[k] = "fail" /\ current.type \in {"WRONG", "FAILED"}
  BY <1>2 DEF Decided, Accepted, V, Full
<1>4. current' = AddVerdictMin(current, Skipped) /\ current \in Verdicts /\ Skipped \in Verdicts
  BY VerdictForms DEF Add, AddVerdict, Typed
<1>5. current'.type = current.type /\ current'.score = 0
  BY <1>3, <1>4, MinForm DEF Skipped, V, MinOf
<1>6. k \in 1 .. Len(truth') /\ truth'[k] = "fail"
  BY <1>1, <1>3
<1> QED
  BY <1>3, <1>5, <1>6 DEF Decided

\* A test whose result was lost.
LEMMA AddLost ==
    ASSUME Typed, NEW v, Add(v, "lost")
    PROVE  ~NoneLost'
BY TruthGrows DEF Outcomes, NoneLost

\* In all four cases the run stands where it should.
LEMMA Added ==
    ASSUME RunInv, Testing, NEW v \in Verdicts, NEW really \in Outcomes, Add(v, really),
           UNCHANGED <<stage, boxes, runs, result>>,
           Builder = "min" => (NoneLost' => Decided(current)')
    PROVE  RunInv'
<1>1. /\ truth' \in Seq(Outcomes) /\ Len(truth) \in Nat /\ Len(truth') = Len(truth) + 1
  BY TruthGrows DEF RunInv
<1>2. i \in 1 .. N /\ i' = i + 1 /\ Len(truth) = i - 1 /\ stage = "tests"
  BY TestRunAssumption DEF RunInv, Typed, TypeOK, History, Testing, Add
<1>3. current' \in Verdicts
  BY AddForm DEF RunInv, Typed, Add
<1>4. Typed'
  <2>1. current'.type \in Types /\ current'.score \in Nat
    BY <1>3 DEF Verdicts
  <2>2. i' \in 1 .. N + 1
    BY <1>2, TestRunAssumption
  <2> QED
    BY <1>1, <1>3, <2>1, <2>2 DEF RunInv, Typed, TypeOK, Outcomes
<1>5. History'
  BY <1>1, <1>2 DEF History
<1>6. DecidedSoFar'
  BY DEF DecidedSoFar
<1>7. DecidedAtEnd'
  BY <1>2 DEF DecidedAtEnd, Complete
<1> QED
  BY <1>4, <1>5, <1>6, <1>7 DEF RunInv
-----------------------------------------------------------------------------
(* The actions *)

\* A node that has tested nothing.
LEMMA RunInit == Init => RunInv
<1> SUFFICES ASSUME Init PROVE RunInv
  OBVIOUS
<1>1. current \in Verdicts /\ result \in Verdicts
  BY VerdictForms DEF Init, Clear, V, Verdicts, Types, Names
<1>2. Typed
  <2>1. /\ current.type \in Types /\ current.score \in Nat
        /\ result.type \in Types /\ result.score \in Nat
    BY <1>1 DEF Verdicts
  <2>2. i \in 1 .. N + 1 /\ runs \in 0 .. Runs
    BY TestRunAssumption DEF Init
  <2>3. truth \in Seq(Outcomes)
    BY DEF Init
  <2> QED
    BY <1>1, <2>1, <2>2, <2>3 DEF Init, Typed, TypeOK, Outcomes
<1>3. Len(truth) = 0 /\ N # 0
  BY TestRunAssumption DEF Init
<1> QED
  BY <1>2, <1>3 DEF Init, RunInv, History, DecidedSoFar, DecidedAtEnd, Complete

\* The run begins, or ends before it began: no history is left, so nothing is
\* complete.
LEMMA PrepareKeeps == ASSUME RunInv, Prepare PROVE RunInv'
<1>1. result' \in Verdicts
  BY VerdictForms DEF Prepare, RunInv, Typed
<1>2. Typed'
  <2>1. result'.type \in Types /\ result'.score \in Nat
    BY <1>1 DEF Verdicts
  <2>2. runs' \in 0 .. Runs
    BY TestRunAssumption DEF Prepare, RunInv, Typed, TypeOK
  <2>3. boxes' \in BOOLEAN
    BY DEF Prepare, RunInv, Typed, TypeOK
  <2>4. i' \in 1 .. N + 1 /\ truth' \in Seq(Outcomes)
    BY TestRunAssumption DEF Prepare
  <2> QED
    BY <1>1, <2>1, <2>2, <2>3, <2>4 DEF Prepare, RunInv, Typed, TypeOK, Outcomes
<1>3. truth' = <<>> /\ i' = 1 /\ stage' \in {"compile", "idle", "dead"}
  BY DEF Prepare
<1>4. Len(truth') = 0 /\ N # 0
  BY <1>3, TestRunAssumption
<1> QED
  BY <1>2, <1>3, <1>4 DEF RunInv, History, DecidedSoFar, DecidedAtEnd, Complete

\* Testset::run clears the builder: what an earlier run left there is gone.
LEMMA CompileKeeps == ASSUME RunInv, Compile PROVE RunInv'
<1>1. result' \in Verdicts /\ current' \in Verdicts
  BY VerdictForms DEF Compile, EndEarly, Clear, RunInv, Typed, Names
<1>2. /\ truth = <<>> /\ truth' = <<>> /\ i' = 1 /\ UNCHANGED <<boxes, runs>>
      /\ stage' \in {"idle", "tests"}
      /\ stage' = "tests" => current' = Clear
  BY DEF Compile, EndEarly, RunInv, History
<1>3. Len(truth') = 0 /\ N # 0
  BY <1>2, TestRunAssumption
<1>4. Typed'
  <2>1. /\ result'.type \in Types /\ result'.score \in Nat
        /\ current'.type \in Types /\ current'.score \in Nat
    BY <1>1 DEF Verdicts
  <2> QED
    BY <1>1, <1>2, <2>1 DEF Compile, RunInv, Typed, TypeOK
<1>5. History' /\ DecidedAtEnd'
  BY <1>2, <1>3 DEF History, DecidedAtEnd, Complete
<1>6. DecidedSoFar'
  <2>1. Passed'
    BY <1>3 DEF Passed
  <2> QED
    BY <1>2, <2>1 DEF DecidedSoFar, Decided, Clear, Accepted, V
<1> QED
  BY <1>4, <1>5, <1>6 DEF RunInv

\* The checker's verdict is about this test of this run.
LEMMA RunAndCheckKeeps == ASSUME RunInv, RunAndCheck PROVE RunInv'
<1>1. PICK line \in {"o", "w", "p", "f"} :
         \E v \in VerdictsOfChecker(line) : Add(v, IF line = "o" THEN "pass" ELSE "fail")
  BY DEF RunAndCheck
<1>2. PICK v \in VerdictsOfChecker(line) : Add(v, IF line = "o" THEN "pass" ELSE "fail")
  BY <1>1
<1>3. Testing /\ UNCHANGED <<stage, boxes, runs, result>> /\ current.score # 0
  BY DEF RunAndCheck, CanScoreChange
<1>4. Builder = "min" => (NoneLost => Decided(current))
  BY <1>3 DEF RunInv, DecidedSoFar, Testing
<1>5. CASE line = "o"
  <2>1. v = Accepted(Full) /\ Add(v, "pass") /\ v \in Verdicts
    BY <1>2, <1>5, CheckerForm
  <2> QED
    BY <1>3, <1>4, <2>1, AddPass, Added DEF RunInv, Outcomes
<1>6. CASE line # "o"
  <2>1. (v = Failed \/ \E x \in Names : v = Wrong(x)) /\ Add(v, "fail") /\ v \in Verdicts
    BY <1>2, <1>6, CheckerForm
  <2> QED
    BY <1>3, <1>4, <2>1, AddFail, Added DEF RunInv, Outcomes
<1> QED
  BY <1>5, <1>6

\* A stale or empty checker line: the run no longer counts as reported.
LEMMA CheckerFailsKeeps == ASSUME RunInv, CheckerFails PROVE RunInv'
<1>1. PICK v \in VerdictsOfChecker(checker') : Add(v, "lost")
  BY DEF CheckerFails
<1>2. v \in Verdicts
  BY <1>1, CheckerForm
<1>3. Testing /\ UNCHANGED <<stage, boxes, runs, result>>
  BY DEF CheckerFails
<1> QED
  BY <1>1, <1>2, <1>3, AddLost, Added DEF RunInv, Outcomes

\* The sandbox's status is about this test of this run.
LEMMA RunAndStopKeeps == ASSUME RunInv, RunAndStop PROVE RunInv'
<1>1. PICK status \in {"TO", "RE", "SG", "IL", "XX"} : Add(VerdictOfMeta(status), "fail")
  BY DEF RunAndStop
<1>2. VerdictOfMeta(status) \in Verdicts /\ \E x \in Names : VerdictOfMeta(status) = Wrong(x)
  BY MetaForm
<1>3. Testing /\ UNCHANGED <<stage, boxes, runs, result>> /\ current.score # 0
  BY DEF RunAndStop, CanScoreChange
<1>4. Builder = "min" => (NoneLost => Decided(current))
  BY <1>3 DEF RunInv, DecidedSoFar, Testing
<1> QED
  BY <1>1, <1>2, <1>3, <1>4, AddFail, Added DEF RunInv, Outcomes

\* A stale meta file, or none: the run no longer counts as reported, or the
\* node is dead.
LEMMA SandboxFailsKeeps == ASSUME RunInv, SandboxFails PROVE RunInv'
<1>1. CASE Add(VerdictOfMeta(meta), "lost") /\ UNCHANGED <<stage, boxes>>
  <2>1. VerdictOfMeta(meta) \in Verdicts
    BY MetaForm
  <2>2. Testing /\ UNCHANGED <<stage, boxes, runs, result>>
    BY <1>1 DEF SandboxFails
  <2> QED
    BY <1>1, <2>1, <2>2, AddLost, Added DEF RunInv, Outcomes
<1>2. CASE stage' = "dead" /\ UNCHANGED <<current, i, truth, boxes>>
  BY <1>2
  DEF SandboxFails, RunInv, Typed, TypeOK, History, DecidedSoFar, DecidedAtEnd, Complete
<1> QED
  BY <1>1, <1>2 DEF SandboxFails

\* Only a run that has failed already skips tests.
LEMMA SkipTestKeeps == ASSUME RunInv, SkipTest PROVE RunInv'
<1>1. Testing /\ UNCHANGED <<stage, boxes, runs, result>> /\ current.score = 0
  BY DEF SkipTest, CanScoreChange
<1>2. Add(Skipped, "skip") /\ Skipped \in Verdicts
  BY VerdictForms DEF SkipTest
<1>3. Builder = "min" => (NoneLost => Decided(current))
  BY <1>1 DEF RunInv, DecidedSoFar, Testing
<1> QED
  BY <1>1, <1>2, <1>3, AddSkip, Added DEF RunInv, Outcomes

\* The builder's verdict is returned as it is, or the run fails.
LEMMA EndTestingKeeps == ASSUME RunInv, EndTesting PROVE RunInv'
<1>1. /\ stage = "tests" /\ stage' = "idle" /\ UNCHANGED <<current, i, runs, truth>>
      /\ result' \in {current, Failed}
      /\ boxes' \in BOOLEAN
  BY DEF EndTesting, RunInv, Typed, TypeOK
<1>2. result' \in Verdicts
  BY <1>1, VerdictForms DEF RunInv, Typed
<1>3. Typed'
  <2>1. result'.type \in Types /\ result'.score \in Nat
    BY <1>2 DEF Verdicts
  <2> QED
    BY <1>1, <1>2, <2>1 DEF RunInv, Typed, TypeOK
<1>4. History' /\ DecidedSoFar'
  BY <1>1 DEF History, DecidedSoFar
<1>5. DecidedAtEnd'
  <2>1. NoneLost' <=> NoneLost
    BY <1>1 DEF NoneLost
  <2>2. Builder = "min" /\ NoneLost => Decided(current)
    BY <1>1 DEF RunInv, DecidedSoFar
  <2>3. (result' = current /\ Decided(current)) => Decided(result)'
    BY <1>1 DEF Decided, Passed
  <2> QED
    BY <1>1, <2>1, <2>2, <2>3 DEF DecidedAtEnd
<1> QED
  BY <1>3, <1>4, <1>5 DEF RunInv

\* The inductive invariant.
LEMMA RunInvariant == Spec => []RunInv
<1>1. RunInv /\ [Next]_vars => RunInv'
  <2> SUFFICES ASSUME RunInv, [Next]_vars PROVE RunInv'
    OBVIOUS
  <2>1. CASE UNCHANGED vars
    BY <2>1 DEF vars, RunInv, Typed, TypeOK, History, DecidedSoFar, DecidedAtEnd, Decided,
                Complete, NoneLost, Passed
  <2> QED
    BY <2>1, PrepareKeeps, CompileKeeps, RunAndCheckKeeps, CheckerFailsKeeps, RunAndStopKeeps,
       SandboxFailsKeeps, SkipTestKeeps, EndTestingKeeps DEF Next
<1> QED
  BY <1>1, RunInit, PTL DEF Spec
-----------------------------------------------------------------------------
\* With either builder, and whatever the database and the sandbox do, verdicts
\* and scores stay what they should be and the run inside its testset.
THEOREM RunTypes == Spec => []TypeOK
<1>1. RunInv => TypeOK
  BY DEF RunInv, Typed
<1> QED
  BY <1>1, RunInvariant, PTL

\* For any number of tests and of earlier submissions: with the min builder a
\* submission whose tests all reported is accepted, with full score, only if
\* each test of this very run passed, and turned down only if one failed or the
\* sandbox did.
THEOREM VerdictIsOfThisRun == Spec => []VerdictOfThisRun
<1>1. RunInv => VerdictOfThisRun
  <2> SUFFICES ASSUME RunInv, Builder = "min", Complete, \A k \in 1 .. N : truth[k] # "lost"
               PROVE  /\ result.type = "ACCEPTED" => Passed /\ result.score = Full
                      /\ (\A k \in 1 .. N : truth[k] # "fail") => result \in {Accepted(Full), Failed}
    BY DEF VerdictOfThisRun
  <2>1. Len(truth) = N /\ NoneLost
    BY DEF Complete, NoneLost
  <2>2. result = Failed \/ Decided(result)
    BY <2>1 DEF RunInv, DecidedAtEnd
  <2>3. CASE result = Failed
    BY <2>3 DEF Failed, V
  <2>4. CASE Decided(result)
    BY <2>1, <2>4 DEF Decided, Accepted, V
  <2> QED
    BY <2>2, <2>3, <2>4
<1> QED
  BY <1>1, RunInvariant, PTL
-----------------------------------------------------------------------------
(* The storage of tests *)

\* A node that works on a submission has one.
WorkIsLeft == pc \in {"getTest", "syncing", "testing", "failing"} => left > 0

\* A synchronisation runs only while nothing is kept, and began after the process.
SyncingIsFirst == pc = "syncing" => cache = Unset /\ floor <= begun

StorageInv == StorageTypeOK /\ WorkIsLeft /\ SyncingIsFirst /\ CacheMatchesFiles

LEMMA PackagesFact == Len(Packages) \in Nat /\ Len(Packages) >= 1
  BY StorageAssumption

USE DEF Unset, Null, Mixed

LEMMA InitStorage == StorageInit => StorageInv
  BY PackagesFact, StorageAssumption
  DEF StorageInit, StorageInv, StorageTypeOK, WorkIsLeft, SyncingIsFirst, CacheMatchesFiles

LEMMA SyncedKeeps ==
  ASSUME StorageInv, Synced
  PROVE  StorageInv'
<1>1. PICK v \in begun..server :
         /\ disk' \in IF begun < server THEN {v, Mixed} ELSE {v}
         /\ BuildTest(v)
  BY DEF Synced
<1>2. /\ v \in 1..Len(Packages) /\ floor <= v
      /\ disk' = v \/ (disk' = Mixed /\ begun < server)
  BY <1>1, PackagesFact DEF StorageInv, StorageTypeOK, SyncingIsFirst, Synced
<1>3. \/ pc' = "down" /\ cache' = Unset
      \/ /\ cache' = IF HasBuilder(v) /\ HasMain(v) THEN v ELSE Null
         /\ pc' \in {"failing", "testing"}
  BY <1>1 DEF BuildTest, With, StorageInv, SyncingIsFirst, Synced
<1>4. StorageTypeOK'
  BY <1>2, <1>3, PackagesFact DEF Synced, StorageInv, StorageTypeOK
<1>5. WorkIsLeft' /\ SyncingIsFirst'
  BY <1>3 DEF Synced, StorageInv, WorkIsLeft, SyncingIsFirst
<1>6. CacheMatchesFiles'
  <2>1. CASE disk' = Mixed
    BY <2>1, <1>2, <1>3 DEF Synced, StorageInv, StorageTypeOK, CacheMatchesFiles
  <2>2. CASE disk' = v
    <3>1. HasBuilder(disk)' = HasBuilder(v)
      BY <2>2 DEF HasBuilder
    <3>2. HasMain(disk)' = HasMain(v)
      BY <2>2
    <3> QED
      BY <2>2, <3>1, <3>2, <1>2, <1>3
      DEF Synced, StorageInv, StorageTypeOK, CacheMatchesFiles
  <2> QED  BY <2>1, <2>2, <1>2
<1> QED  BY <1>4, <1>5, <1>6 DEF StorageInv

LEMMA NextKeeps == StorageInv /\ [StorageNext]_storageVars => StorageInv'
<1> SUFFICES ASSUME StorageInv, [StorageNext]_storageVars PROVE StorageInv'
  OBVIOUS
<1> USE PackagesFact, StorageAssumption
<1>1. CASE Start
  BY <1>1
  DEF Start, StorageInv, StorageTypeOK, WorkIsLeft, SyncingIsFirst, CacheMatchesFiles
<1>2. ASSUME NEW p \in Plugins, LoadPlugin(p) PROVE StorageInv'
  BY <1>2
  DEF LoadPlugin, StorageInv, StorageTypeOK, WorkIsLeft, SyncingIsFirst, CacheMatchesFiles
<1>3. CASE CreateStub
  BY <1>3
  DEF CreateStub, StorageInv, StorageTypeOK, WorkIsLeft, SyncingIsFirst, CacheMatchesFiles
<1>4. CASE TakeSubmission
  BY <1>4
  DEF TakeSubmission, StorageInv, StorageTypeOK, WorkIsLeft, SyncingIsFirst, CacheMatchesFiles
<1>5. CASE EnsureTestExists
  BY <1>5
  DEF EnsureTestExists, With, StorageInv, StorageTypeOK, WorkIsLeft, SyncingIsFirst,
      CacheMatchesFiles
<1>6. CASE Synced
  BY <1>6, SyncedKeeps
<1>7. CASE Answer
  BY <1>7
  DEF Answer, StorageInv, StorageTypeOK, WorkIsLeft, SyncingIsFirst, CacheMatchesFiles
<1>8. ASSUME NEW p \in Plugins, LoadFails(p) PROVE StorageInv'
  BY <1>8
  DEF LoadFails, Fault, StorageInv, StorageTypeOK, WorkIsLeft, SyncingIsFirst,
      CacheMatchesFiles
<1>9. CASE SyncFails
  BY <1>9
  DEF SyncFails, Fault, StorageInv, StorageTypeOK, WorkIsLeft, SyncingIsFirst,
      CacheMatchesFiles
<1>10. CASE Crash
  BY <1>10
  DEF Crash, Fault, StorageInv, StorageTypeOK, WorkIsLeft, SyncingIsFirst, CacheMatchesFiles
<1>11. CASE Upload
  BY <1>11
  DEF Upload, StorageInv, StorageTypeOK, WorkIsLeft, SyncingIsFirst, CacheMatchesFiles
<1>12. CASE UNCHANGED storageVars
  BY <1>12
  DEF storageVars, StorageInv, StorageTypeOK, WorkIsLeft, SyncingIsFirst,
      CacheMatchesFiles, HasBuilder, HasMain
<1> QED
  BY <1>1, <1>2, <1>3, <1>4, <1>5, <1>6, <1>7, <1>8, <1>9, <1>10, <1>11, <1>12
  DEF StorageNext, NodeStep

\* The variables of a node keep their types, and a node never has more answers
\* than submissions, however plugins, synchronisation and process fail.
THEOREM StorageTypeCorrect == StorageSpec => []StorageTypeOK
<1>1. StorageInv => StorageTypeOK
  BY DEF StorageInv
<1> QED  BY <1>1, InitStorage, NextKeeps, PTL DEF StorageSpec

\* TestStorage keeps only what the node's files say and the server has had since
\* the process started, whatever is uploaded or fails meanwhile; an upload during
\* the synchronisation itself is the one exception (ensureTestExists).
THEOREM CacheIsOfItsFiles == StorageSpec => []CacheMatchesFiles
<1>1. StorageInv => CacheMatchesFiles
  BY DEF StorageInv
<1> QED  BY <1>1, InitStorage, NextKeeps, PTL DEF StorageSpec
=============================================================================
