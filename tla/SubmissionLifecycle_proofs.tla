--------------------- MODULE SubmissionLifecycle_proofs ---------------------
(***************************************************************************)
(* What the application, the dispatcher and the test nodes, writing one    *)
(* row without a transaction, make of it: nothing the dispatcher has taken *)
(* is dropped, a row nobody will write again says the right thing, and a   *)
(* verdict the submissions page has shown stays.                           *)
(***************************************************************************)
EXTENDS SubmissionLifecycle, TLAPS

Verdicts == {"none", "TS", "FAIL", "AC", "WA"}
Rows == [verdict_type : Verdicts, score : {0, Full}]

Row(verdict, score) == [verdict_type |-> verdict, score |-> score]

\* What testing makes of the row.
Right(s) == Row(Truth[s], ScoreOf(Truth[s]))

\* The dispatcher has the submission in its queue or with a node it listens to.
Held(s) == s \in queue \/ \E n \in Nodes \ zombie : work[n] = s

\* The request has not reached the dispatcher.
Early(s) == app[s] \in {"new", "init", "insert", "http500"}

\* The dispatcher has not been lost; no statement has failed; nodes may have
\* died and streams broken, and nothing else has gone wrong.
NoCrash == ~Had("dispatcher")
NoFailed == ~Had("db")
Quiet == Only({"node", "partition"})

\* Only submissions that a handler has queued are in the queue and with nodes.
Owned ==
    /\ \A s \in Subs : Early(s) => disp[s] = "none"
    /\ \A s \in queue : disp[s] = "queued"
    /\ \A n \in Nodes : Busy(n) => disp[work[n]] = "queued"

\* Without a dispatcher that is lost, what it took it holds until a node answers.
Answered ==
    NoCrash =>
        \A s \in Subs : disp[s] = "queued" => Held(s) \/ s \in answered

\* Without failed statements a row in testing is the business of its request
\* or of the dispatcher, and a node that has written its verdict wrote it.
InTesting ==
    NoFailed =>
        /\ \A s \in Subs : row[s].verdict_type = "TS" =>
              app[s] \in {"calling", "marking"} \/ disp[s] = "queued"
        /\ \A n \in Nodes : st[n] \in {"fail_score", "upload"} =>
              row[work[n]].verdict_type # "TS"

\* Without either a submission in testing is held.
TestingHeld ==
    NoFailed /\ NoCrash =>
        \A s \in Subs : disp[s] = "queued" /\ row[s].verdict_type = "TS" => Held(s)

\* Then the request and the handler keep step, and the row with both ...
RequestRow(s) ==
    /\ Early(s) => row[s] = NoRow
    /\ app[s] = "calling" => disp[s] \in {"arrived", "init", "lookup", "sync", "queued", "not_found"}
    /\ app[s] = "marking" => disp[s] = "not_found"
    /\ app[s] = "done" => disp[s] \in {"queued", "not_found"}
    /\ (app[s] \in {"calling", "marking"} /\ disp[s] # "queued") => row[s] = Row("TS", 0)
    /\ (app[s] = "done" /\ disp[s] = "not_found") => row[s] = Row("FAIL", 0)
    /\ disp[s] = "queued" => row[s] \in {Row("TS", 0), Row("TS", ScoreOf(Truth[s])), Right(s)}
    /\ (disp[s] = "queued" /\ ~Held(s)) => row[s] = Right(s)

\* ... nodes do not fail submissions, and have written what they went past ...
NodeRow(n) ==
    /\ st[n] \notin {"fail_verdict", "fail_score"}
    /\ st[n] = "verdict" => row[work[n]].score = ScoreOf(Truth[work[n]])
    /\ st[n] = "upload" => row[work[n]] = Right(work[n])

\* ... and what was shown as final is the row.
ShownRow(s) == Final(shown[s]) => row[s] = shown[s]

QuietRows ==
    Quiet =>
        /\ \A s \in Subs : RequestRow(s)
        /\ \A n \in Nodes : NodeRow(n)
        /\ \A s \in Mine : ShownRow(s)

LifeInv == TypeOK /\ Owned /\ Answered /\ InTesting /\ TestingHeld /\ QuietRows
-----------------------------------------------------------------------------
\* A step without a fault leaves the history of faults as it is.
LEMMA NoFault ==
    ASSUME UNCHANGED faults
    PROVE  (NoCrash' <=> NoCrash) /\ (NoFailed' <=> NoFailed) /\ (Quiet' <=> Quiet)
BY DEF NoCrash, NoFailed, Quiet, Had, Only

\* A fault is remembered, and so are the ones before it.
LEMMA FaultRemembered ==
    ASSUME TypeOK, NEW kind, Fault(kind), NEW K
    PROVE  Only(K)' => Only(K) /\ kind \in K
<1>1. faults \in Seq(FaultKinds) /\ faults' = Append(faults, kind)
  BY DEF TypeOK, Fault
<1> SUFFICES ASSUME Only(K)' PROVE Only(K) /\ kind \in K
  OBVIOUS
<1>2. \A k \in 1 .. Len(faults) + 1 : faults'[k] \in K
  BY <1>1 DEF Only
<1>3. \A k \in 1 .. Len(faults) : faults[k] \in K
  BY <1>1, <1>2
<1>4. faults'[Len(faults) + 1] = kind
  BY <1>1
<1> QED
  BY <1>1, <1>2, <1>3, <1>4 DEF Only

\* A fault rules itself out.
LEMMA Excluded ==
    ASSUME TypeOK
    PROVE  /\ Fault("db") => ~NoFailed' /\ ~Quiet'
           /\ Fault("dispatcher") => ~NoCrash' /\ ~Quiet'
           /\ Fault("rpc") => ~Quiet'
           /\ Fault("problem") => ~Quiet'
BY FaultRemembered DEF NoCrash, NoFailed, Quiet, Had

\* What has not happened after a step had not happened before it.
LEMMA Earlier ==
    ASSUME TypeOK, [Next]_vars
    PROVE  (NoCrash' => NoCrash) /\ (NoFailed' => NoFailed) /\ (Quiet' => Quiet)
<1>1. CASE UNCHANGED faults
  BY <1>1, NoFault
<1>2. ASSUME NEW kind, Fault(kind)
      PROVE  (NoCrash' => NoCrash) /\ (NoFailed' => NoFailed) /\ (Quiet' => Quiet)
  BY <1>2, FaultRemembered DEF NoCrash, NoFailed, Quiet, Had
<1>3. ASSUME NEW s \in Subs, RequestStep(s)
      PROVE  UNCHANGED faults
  BY <1>3 DEF RequestStep, Submit, AppInitialize, AddSubmission, HandleSubmissionReturns,
     MarkFailed, HandlerStarts, DispatcherInitialize, ProblemOfSubmission, QueueSubmission
<1>4. ASSUME NEW n \in Nodes, NodeStep(n)
      PROVE  UNCHANGED faults
  BY <1>4 DEF NodeStep, TakeSubmission, NodeLookup, RunTest, SetScore, SetVerdictType,
     FailVerdict, FailScore, Respond
<1>5. PageStep => UNCHANGED faults
  BY DEF PageStep, OpenPage, PageInitialize, LoadSubmissions
<1>6. DispatcherCrashes => Fault("dispatcher")
  BY DEF DispatcherCrashes
<1>7. ASSUME NEW s \in Subs
      PROVE  /\ HandleSubmissionBreaks(s) => Fault("rpc")
             /\ AppStatementFails(s) => Fault("db")
             /\ LookupFails(s) => Fault("db")
             /\ SyncProblemFails(s) => Fault("problem")
  BY DEF HandleSubmissionBreaks, AppStatementFails, LookupFails, SyncProblemFails
<1>8. ASSUME NEW n \in Nodes
      PROVE  /\ NodeStatementFails(n) => Fault("db")
             /\ NoTestForProblem(n) => Fault("problem")
             /\ NodeDies(n) => Fault("node")
             /\ Partition(n) => Fault("partition")
  BY DEF NodeStatementFails, NoTestForProblem, NodeDies, Partition
<1>9. UNCHANGED faults \/ \E kind \in AllFaults : Fault(kind)
  BY <1>3, <1>4, <1>5, <1>6, <1>7, <1>8 DEF Next, vars, AllFaults
<1> QED
  BY <1>1, <1>2, <1>9
-----------------------------------------------------------------------------
(* One lemma for each conjunct of LifeInv, one step for each action. *)

\* A node's work is a submission, and the parts of a row change one at a time.
LEMMA NodesRow ==
    ASSUME TypeOK, NEW n \in Nodes, Busy(n)
    PROVE  /\ work[n] \in Subs
           /\ row[work[n]] \in Rows
           /\ \A c : [row[work[n]] EXCEPT !.score = c] = Row(row[work[n]].verdict_type, c)
           /\ \A v : [row[work[n]] EXCEPT !.verdict_type = v] = Row(v, row[work[n]].score)
<1>1. work[n] \in Subs
  BY DEF TypeOK, Busy
<1>2. row[work[n]] \in Rows
  BY <1>1 DEF TypeOK, Rows, Verdicts
<1>3. ASSUME NEW r \in Rows, NEW x
      PROVE  /\ [r EXCEPT !.score = x] = Row(r.verdict_type, x)
             /\ [r EXCEPT !.verdict_type = x] = Row(x, r.score)
  BY DEF Rows, Row
<1> QED
  BY <1>1, <1>2, <1>3

\* What a node's statement makes of the row.
LEMMA NodeWrites ==
    ASSUME TypeOK, NEW n \in Nodes
    PROVE  /\ SetScore(n) => row' = [row EXCEPT ![work[n]] = Row(row[work[n]].verdict_type, ScoreOf(Truth[work[n]]))]
           /\ SetVerdictType(n) => row' = [row EXCEPT ![work[n]] = Row(Truth[work[n]], row[work[n]].score)]
           /\ FailVerdict(n) => row' = [row EXCEPT ![work[n]] = Row("FAIL", row[work[n]].score)]
           /\ FailScore(n) => row' = [row EXCEPT ![work[n]] = Row(row[work[n]].verdict_type, 0)]
BY NodesRow DEF TypeOK, SetScore, SetVerdictType, FailVerdict, FailScore

\* Types: the statements write verdicts and scores, the loops their stages.
LEMMA TypesKept ==
    ASSUME TypeOK, [Next]_vars
    PROVE  TypeOK'
<1> USE LifecycleAssumption DEF TypeOK, Busy, pageVars, Fault
<1>1. ASSUME OpenPage PROVE TypeOK'
  BY <1>1 DEF OpenPage
<1>2. ASSUME PageInitialize PROVE TypeOK'
  BY <1>2 DEF PageInitialize
<1>3. ASSUME LoadSubmissions PROVE TypeOK'
  BY <1>3 DEF LoadSubmissions
<1>4. ASSUME DispatcherCrashes PROVE TypeOK'
  BY <1>4 DEF DispatcherCrashes
<1>5. ASSUME NEW s \in Subs, Submit(s) PROVE TypeOK'
  BY <1>5 DEF Submit
<1>6. ASSUME NEW s \in Subs, AppInitialize(s) PROVE TypeOK'
  BY <1>6 DEF AppInitialize
<1>7. ASSUME NEW s \in Subs, AddSubmission(s) PROVE TypeOK'
  BY <1>7 DEF AddSubmission
<1>8. ASSUME NEW s \in Subs, HandleSubmissionReturns(s) PROVE TypeOK'
  BY <1>8 DEF HandleSubmissionReturns
<1>9. ASSUME NEW s \in Subs, MarkFailed(s) PROVE TypeOK'
  BY <1>9 DEF MarkFailed
<1>10. ASSUME NEW s \in Subs, HandlerStarts(s) PROVE TypeOK'
  BY <1>10 DEF HandlerStarts
<1>11. ASSUME NEW s \in Subs, DispatcherInitialize(s) PROVE TypeOK'
  BY <1>11 DEF DispatcherInitialize
<1>12. ASSUME NEW s \in Subs, ProblemOfSubmission(s) PROVE TypeOK'
  BY <1>12 DEF ProblemOfSubmission
<1>13. ASSUME NEW s \in Subs, QueueSubmission(s) PROVE TypeOK'
  BY <1>13 DEF QueueSubmission
<1>14. ASSUME NEW s \in Subs, HandleSubmissionBreaks(s) PROVE TypeOK'
  BY <1>14 DEF HandleSubmissionBreaks
<1>15. ASSUME NEW s \in Subs, AppStatementFails(s) PROVE TypeOK'
  <2>1. row' \in [Subs -> [verdict_type : {"none", "TS", "FAIL", "AC", "WA"}, score : {0, Full}]]
    <3>1. row' = row \/ row' = [row EXCEPT ![s] = Row("TS", 0)]
      BY <1>15 DEF AppStatementFails, Row
    <3>2. Row("TS", 0) \in [verdict_type : {"none", "TS", "FAIL", "AC", "WA"}, score : {0, Full}]
      BY DEF Row
    <3> QED
      BY <3>1, <3>2
  <2>2. app' \in [Subs -> {"new", "init", "insert", "calling", "marking", "done", "http500"}]
    BY <1>15 DEF AppStatementFails
  <2> QED
    BY <1>15, <2>1, <2>2 DEF AppStatementFails
<1>16. ASSUME NEW s \in Subs, LookupFails(s) PROVE TypeOK'
  BY <1>16 DEF LookupFails
<1>17. ASSUME NEW s \in Subs, SyncProblemFails(s) PROVE TypeOK'
  BY <1>17 DEF SyncProblemFails
<1>18. ASSUME NEW n \in Nodes, NodeLookup(n) PROVE TypeOK'
  BY <1>18 DEF NodeLookup
<1>19. ASSUME NEW n \in Nodes, RunTest(n) PROVE TypeOK'
  BY <1>19 DEF RunTest
<1>20. ASSUME NEW n \in Nodes, SetScore(n) PROVE TypeOK'
  <2>1. row' = [row EXCEPT ![work[n]] = Row(row[work[n]].verdict_type, ScoreOf(Truth[work[n]]))]
    BY <1>20, NodeWrites
  <2>2. work[n] \in Subs /\ row[work[n]] \in Rows
    BY <1>20, NodesRow DEF SetScore
  <2>3. Row(row[work[n]].verdict_type, ScoreOf(Truth[work[n]])) \in Rows
    BY <2>2 DEF Row, Rows, Verdicts, ScoreOf
  <2>4. row' \in [Subs -> Rows]
    BY <2>1, <2>2, <2>3 DEF Rows, Verdicts
  <2> QED
    BY <1>20, <2>4 DEF SetScore, Rows, Verdicts
<1>21. ASSUME NEW n \in Nodes, SetVerdictType(n) PROVE TypeOK'
  <2>1. row' = [row EXCEPT ![work[n]] = Row(Truth[work[n]], row[work[n]].score)]
    BY <1>21, NodeWrites
  <2>2. work[n] \in Subs /\ row[work[n]] \in Rows
    BY <1>21, NodesRow DEF SetVerdictType
  <2>3. Row(Truth[work[n]], row[work[n]].score) \in Rows
    BY <2>2 DEF Row, Rows, Verdicts, ScoreOf
  <2>4. row' \in [Subs -> Rows]
    BY <2>1, <2>2, <2>3 DEF Rows, Verdicts
  <2> QED
    BY <1>21, <2>4 DEF SetVerdictType, Rows, Verdicts
<1>22. ASSUME NEW n \in Nodes, FailVerdict(n) PROVE TypeOK'
  <2>1. row' = [row EXCEPT ![work[n]] = Row("FAIL", row[work[n]].score)]
    BY <1>22, NodeWrites
  <2>2. work[n] \in Subs /\ row[work[n]] \in Rows
    BY <1>22, NodesRow DEF FailVerdict
  <2>3. Row("FAIL", row[work[n]].score) \in Rows
    BY <2>2 DEF Row, Rows, Verdicts, ScoreOf
  <2>4. row' \in [Subs -> Rows]
    BY <2>1, <2>2, <2>3 DEF Rows, Verdicts
  <2> QED
    BY <1>22, <2>4 DEF FailVerdict, Rows, Verdicts
<1>23. ASSUME NEW n \in Nodes, FailScore(n) PROVE TypeOK'
  <2>1. row' = [row EXCEPT ![work[n]] = Row(row[work[n]].verdict_type, 0)]
    BY <1>23, NodeWrites
  <2>2. work[n] \in Subs /\ row[work[n]] \in Rows
    BY <1>23, NodesRow DEF FailScore
  <2>3. Row(row[work[n]].verdict_type, 0) \in Rows
    BY <2>2 DEF Row, Rows, Verdicts, ScoreOf
  <2>4. row' \in [Subs -> Rows]
    BY <2>1, <2>2, <2>3 DEF Rows, Verdicts
  <2> QED
    BY <1>23, <2>4 DEF FailScore, Rows, Verdicts
<1>24. ASSUME NEW n \in Nodes, Respond(n) PROVE TypeOK'
  BY <1>24 DEF Respond
<1>25. ASSUME NEW n \in Nodes, NodeStatementFails(n) PROVE TypeOK'
  <2>1. PICK x \in {"fail_verdict", "verdict", "fail_score", "upload"} :
           st[n] # "idle" /\ st' = [st EXCEPT ![n] = x]
    BY <1>25 DEF NodeStatementFails
  <2> QED
    BY <1>25, <2>1 DEF NodeStatementFails
<1>26. ASSUME NEW n \in Nodes, NoTestForProblem(n) PROVE TypeOK'
  BY <1>26 DEF NoTestForProblem
<1>27. ASSUME NEW n \in Nodes, NodeDies(n) PROVE TypeOK'
  BY <1>27 DEF NodeDies
<1>28. ASSUME NEW n \in Nodes, Partition(n) PROVE TypeOK'
  BY <1>28 DEF Partition
<1>29. ASSUME NEW n \in Nodes, NEW s \in Subs, TakeSubmission(n, s) PROVE TypeOK'
  BY <1>29 DEF TakeSubmission
<1>30. CASE UNCHANGED vars
  BY <1>30 DEF vars
<1> QED
  BY <1>1, <1>2, <1>3, <1>4, <1>5, <1>6, <1>7, <1>8, <1>9, <1>10, <1>11, <1>12, <1>13,
     <1>14, <1>15, <1>16, <1>17, <1>18, <1>19, <1>20, <1>21, <1>22, <1>23, <1>24, <1>25,
     <1>26, <1>27, <1>28, <1>29, <1>30
     DEF Next, PageStep, RequestStep, NodeStep

\* disp[s] stays "queued" once it is, and is "none" before the request is sent.
LEMMA OwnedKept ==
    ASSUME TypeOK, Owned, [Next]_vars
    PROVE  Owned'
<1> USE LifecycleAssumption DEF TypeOK, Owned, Early, Busy, pageVars
<1>1. ASSUME OpenPage \/ PageInitialize \/ LoadSubmissions
      PROVE  Owned'
  BY <1>1 DEF OpenPage, PageInitialize, LoadSubmissions
<1>2. ASSUME DispatcherCrashes PROVE Owned'
  BY <1>2 DEF DispatcherCrashes, Handling, Calling
<1>3. ASSUME NEW s \in Subs, Submit(s) PROVE Owned'
  BY <1>3 DEF Submit
<1>4. ASSUME NEW s \in Subs, AppInitialize(s) PROVE Owned'
  BY <1>4 DEF AppInitialize
<1>5. ASSUME NEW s \in Subs, AddSubmission(s) PROVE Owned'
  BY <1>5 DEF AddSubmission
<1>6. ASSUME NEW s \in Subs, HandleSubmissionReturns(s) PROVE Owned'
  BY <1>6 DEF HandleSubmissionReturns
<1>7. ASSUME NEW s \in Subs, MarkFailed(s) PROVE Owned'
  BY <1>7 DEF MarkFailed
<1>8. ASSUME NEW s \in Subs, HandlerStarts(s) PROVE Owned'
  BY <1>8 DEF HandlerStarts
<1>9. ASSUME NEW s \in Subs, DispatcherInitialize(s) PROVE Owned'
  BY <1>9 DEF DispatcherInitialize
<1>10. ASSUME NEW s \in Subs, ProblemOfSubmission(s) PROVE Owned'
  BY <1>10 DEF ProblemOfSubmission
<1>11. ASSUME NEW s \in Subs, QueueSubmission(s) PROVE Owned'
  BY <1>11 DEF QueueSubmission
<1>12. ASSUME NEW s \in Subs, HandleSubmissionBreaks(s) PROVE Owned'
  BY <1>12 DEF HandleSubmissionBreaks
<1>13. ASSUME NEW s \in Subs, AppStatementFails(s) PROVE Owned'
  BY <1>13 DEF AppStatementFails
<1>14. ASSUME NEW s \in Subs, LookupFails(s) PROVE Owned'
  BY <1>14 DEF LookupFails
<1>15. ASSUME NEW s \in Subs, SyncProblemFails(s) PROVE Owned'
  BY <1>15 DEF SyncProblemFails
<1>16. ASSUME NEW n \in Nodes, NodeLookup(n) \/ RunTest(n) \/ SetScore(n) \/
                SetVerdictType(n) \/ FailVerdict(n) \/ FailScore(n) \/
                NodeStatementFails(n) \/ NoTestForProblem(n)
       PROVE  Owned'
  BY <1>16 DEF NodeLookup, RunTest, SetScore, SetVerdictType, FailVerdict, FailScore,
     NodeStatementFails, NoTestForProblem
<1>17. ASSUME NEW n \in Nodes, Respond(n) PROVE Owned'
  BY <1>17 DEF Respond
<1>18. ASSUME NEW n \in Nodes, NodeDies(n) PROVE Owned'
  BY <1>18 DEF NodeDies
<1>19. ASSUME NEW n \in Nodes, Partition(n) PROVE Owned'
  BY <1>19 DEF Partition
<1>20. ASSUME NEW n \in Nodes, NEW s \in Subs, TakeSubmission(n, s) PROVE Owned'
  BY <1>20 DEF TakeSubmission
<1>21. CASE UNCHANGED vars
  BY <1>21 DEF vars
<1> QED
  BY <1>1, <1>2, <1>3, <1>4, <1>5, <1>6, <1>7, <1>8, <1>9, <1>10, <1>11, <1>12, <1>13,
     <1>14, <1>15, <1>16, <1>17, <1>18, <1>19, <1>20, <1>21
     DEF Next, PageStep, RequestStep, NodeStep

\* A node is given up only with its submission requeued, and answers otherwise.
LEMMA AnsweredKept ==
    ASSUME TypeOK, Owned, Answered, [Next]_vars
    PROVE  Answered'
<1> SUFFICES ASSUME NoCrash' PROVE Answered'
  BY DEF Answered
<1> NoCrash /\ ~Fault("dispatcher")
  BY Earlier, Excluded
<1> USE LifecycleAssumption DEF TypeOK, Owned, Answered, Held, Busy, pageVars
<1>1. ASSUME OpenPage \/ PageInitialize \/ LoadSubmissions
      PROVE  Answered'
  BY <1>1 DEF OpenPage, PageInitialize, LoadSubmissions
<1>2. ASSUME DispatcherCrashes PROVE Answered'
  BY <1>2 DEF DispatcherCrashes
<1>3. ASSUME NEW s \in Subs, Submit(s) \/ AppInitialize(s) \/ HandleSubmissionReturns(s) \/
               MarkFailed(s) \/ AppStatementFails(s)
      PROVE  Answered'
  BY <1>3 DEF Submit, AppInitialize, HandleSubmissionReturns, MarkFailed, AppStatementFails
<1>4. ASSUME NEW s \in Subs, AddSubmission(s) PROVE Answered'
  BY <1>4 DEF AddSubmission
<1>5. ASSUME NEW s \in Subs, HandlerStarts(s) PROVE Answered'
  BY <1>5 DEF HandlerStarts
<1>6. ASSUME NEW s \in Subs, DispatcherInitialize(s) PROVE Answered'
  BY <1>6 DEF DispatcherInitialize
<1>7. ASSUME NEW s \in Subs, ProblemOfSubmission(s) PROVE Answered'
  BY <1>7 DEF ProblemOfSubmission
<1>8. ASSUME NEW s \in Subs, QueueSubmission(s) PROVE Answered'
  BY <1>8 DEF QueueSubmission
<1>9. ASSUME NEW s \in Subs, HandleSubmissionBreaks(s) PROVE Answered'
  BY <1>9 DEF HandleSubmissionBreaks
<1>10. ASSUME NEW s \in Subs, LookupFails(s) PROVE Answered'
  BY <1>10 DEF LookupFails
<1>11. ASSUME NEW s \in Subs, SyncProblemFails(s) PROVE Answered'
  BY <1>11 DEF SyncProblemFails
<1>12. ASSUME NEW n \in Nodes, NodeLookup(n) \/ RunTest(n) \/ SetScore(n) \/
                SetVerdictType(n) \/ FailVerdict(n) \/ FailScore(n) \/
                NodeStatementFails(n) \/ NoTestForProblem(n)
       PROVE  Answered'
  BY <1>12 DEF NodeLookup, RunTest, SetScore, SetVerdictType, FailVerdict, FailScore,
     NodeStatementFails, NoTestForProblem
<1>13. ASSUME NEW n \in Nodes, Respond(n) PROVE Answered'
  BY <1>13 DEF Respond
<1>14. ASSUME NEW n \in Nodes, NodeDies(n) PROVE Answered'
  BY <1>14 DEF NodeDies
<1>15. ASSUME NEW n \in Nodes, Partition(n) PROVE Answered'
  BY <1>15 DEF Partition
<1>16. ASSUME NEW n \in Nodes, NEW s \in Subs, TakeSubmission(n, s) PROVE Answered'
  BY <1>16 DEF TakeSubmission
<1>17. CASE UNCHANGED vars
  BY <1>17 DEF vars
<1> QED
  BY <1>1, <1>2, <1>3, <1>4, <1>5, <1>6, <1>7, <1>8, <1>9, <1>10, <1>11, <1>12, <1>13,
     <1>14, <1>15, <1>16, <1>17
     DEF Next, PageStep, RequestStep, NodeStep

\* Only AddSubmission writes TS, for a submission no node has.
LEMMA InTestingKept ==
    ASSUME TypeOK, Owned, InTesting, [Next]_vars
    PROVE  InTesting'
<1> SUFFICES ASSUME NoFailed' PROVE InTesting'
  BY DEF InTesting
<1> NoFailed /\ ~Fault("db")
  BY Earlier, Excluded
<1> USE LifecycleAssumption DEF TypeOK, Owned, Early, InTesting, Busy, pageVars
<1>1. ASSUME OpenPage \/ PageInitialize \/ LoadSubmissions
      PROVE  InTesting'
  BY <1>1 DEF OpenPage, PageInitialize, LoadSubmissions
<1>2. ASSUME DispatcherCrashes PROVE InTesting'
  BY <1>2 DEF DispatcherCrashes, Handling, Calling
<1>3. ASSUME NEW s \in Subs, Submit(s) PROVE InTesting'
  BY <1>3 DEF Submit
<1>4. ASSUME NEW s \in Subs, AppInitialize(s) PROVE InTesting'
  BY <1>4 DEF AppInitialize
<1>5. ASSUME NEW s \in Subs, AddSubmission(s) PROVE InTesting'
  BY <1>5 DEF AddSubmission
<1>6. ASSUME NEW s \in Subs, HandleSubmissionReturns(s) PROVE InTesting'
  BY <1>6 DEF HandleSubmissionReturns
<1>7. ASSUME NEW s \in Subs, MarkFailed(s) PROVE InTesting'
  BY <1>7 DEF MarkFailed
<1>8. ASSUME NEW s \in Subs, HandlerStarts(s) PROVE InTesting'
  BY <1>8 DEF HandlerStarts
<1>9. ASSUME NEW s \in Subs, DispatcherInitialize(s) PROVE InTesting'
  BY <1>9 DEF DispatcherInitialize
<1>10. ASSUME NEW s \in Subs, ProblemOfSubmission(s) PROVE InTesting'
  BY <1>10 DEF ProblemOfSubmission
<1>11. ASSUME NEW s \in Subs, QueueSubmission(s) PROVE InTesting'
  BY <1>11 DEF QueueSubmission
<1>12. ASSUME NEW s \in Subs, HandleSubmissionBreaks(s) PROVE InTesting'
  BY <1>12 DEF HandleSubmissionBreaks
<1>13. ASSUME NEW s \in Subs, AppStatementFails(s) PROVE InTesting'
  BY <1>13 DEF AppStatementFails
<1>14. ASSUME NEW s \in Subs, LookupFails(s) PROVE InTesting'
  BY <1>14 DEF LookupFails
<1>15. ASSUME NEW s \in Subs, SyncProblemFails(s) PROVE InTesting'
  BY <1>15 DEF SyncProblemFails
<1>16. ASSUME NEW n \in Nodes, Partition(n)
       PROVE  InTesting'
  BY <1>16 DEF Partition
<1>17. ASSUME NEW n \in Nodes, NodeLookup(n) PROVE InTesting'
  BY <1>17 DEF NodeLookup
<1>18. ASSUME NEW n \in Nodes, RunTest(n) PROVE InTesting'
  BY <1>18 DEF RunTest
<1>19. ASSUME NEW n \in Nodes, SetScore(n) PROVE InTesting'
  BY <1>19 DEF SetScore
<1>20. ASSUME NEW n \in Nodes, SetVerdictType(n) PROVE InTesting'
  BY <1>20 DEF SetVerdictType
<1>21. ASSUME NEW n \in Nodes, FailVerdict(n) PROVE InTesting'
  BY <1>21 DEF FailVerdict
<1>22. ASSUME NEW n \in Nodes, FailScore(n) PROVE InTesting'
  BY <1>22 DEF FailScore
<1>23. ASSUME NEW n \in Nodes, Respond(n) PROVE InTesting'
  BY <1>23 DEF Respond
<1>24. ASSUME NEW n \in Nodes, NodeStatementFails(n) PROVE InTesting'
  BY <1>24 DEF NodeStatementFails
<1>25. ASSUME NEW n \in Nodes, NoTestForProblem(n) PROVE InTesting'
  BY <1>25 DEF NoTestForProblem
<1>26. ASSUME NEW n \in Nodes, NodeDies(n) PROVE InTesting'
  BY <1>26 DEF NodeDies
<1>27. ASSUME NEW n \in Nodes, NEW s \in Subs, TakeSubmission(n, s) PROVE InTesting'
  BY <1>27 DEF TakeSubmission
<1>28. CASE UNCHANGED vars
  BY <1>28 DEF vars
<1> QED
  BY <1>1, <1>2, <1>3, <1>4, <1>5, <1>6, <1>7, <1>8, <1>9, <1>10, <1>11, <1>12, <1>13,
     <1>14, <1>15, <1>16, <1>17, <1>18, <1>19, <1>20, <1>21, <1>22, <1>23, <1>24, <1>25,
     <1>26, <1>27, <1>28
     DEF Next, PageStep, RequestStep, NodeStep

\* A node answers only after it has written the verdict.
LEMMA TestingHeldKept ==
    ASSUME TypeOK, Owned, InTesting, TestingHeld, [Next]_vars
    PROVE  TestingHeld'
<1> SUFFICES ASSUME NoFailed', NoCrash' PROVE TestingHeld'
  BY DEF TestingHeld
<1> NoFailed /\ NoCrash /\ ~Fault("db") /\ ~Fault("dispatcher")
  BY Earlier, Excluded
<1> USE LifecycleAssumption DEF TypeOK, Owned, Early, InTesting, TestingHeld, Held, Busy, pageVars
<1>1. ASSUME OpenPage \/ PageInitialize \/ LoadSubmissions
      PROVE  TestingHeld'
  BY <1>1 DEF OpenPage, PageInitialize, LoadSubmissions
<1>2. ASSUME DispatcherCrashes PROVE TestingHeld'
  BY <1>2 DEF DispatcherCrashes
<1>3. ASSUME NEW s \in Subs, Submit(s) \/ AppInitialize(s) \/ HandleSubmissionReturns(s)
      PROVE  TestingHeld'
  BY <1>3 DEF Submit, AppInitialize, HandleSubmissionReturns
<1>4. ASSUME NEW s \in Subs, AddSubmission(s) PROVE TestingHeld'
  BY <1>4 DEF AddSubmission
<1>5. ASSUME NEW s \in Subs, MarkFailed(s) PROVE TestingHeld'
  BY <1>5 DEF MarkFailed
<1>6. ASSUME NEW s \in Subs, HandlerStarts(s) PROVE TestingHeld'
  BY <1>6 DEF HandlerStarts
<1>7. ASSUME NEW s \in Subs, DispatcherInitialize(s) PROVE TestingHeld'
  BY <1>7 DEF DispatcherInitialize
<1>8. ASSUME NEW s \in Subs, ProblemOfSubmission(s) PROVE TestingHeld'
  BY <1>8 DEF ProblemOfSubmission
<1>9. ASSUME NEW s \in Subs, QueueSubmission(s) PROVE TestingHeld'
  BY <1>9 DEF QueueSubmission
<1>10. ASSUME NEW s \in Subs, HandleSubmissionBreaks(s) PROVE TestingHeld'
  BY <1>10 DEF HandleSubmissionBreaks
<1>11. ASSUME NEW s \in Subs, AppStatementFails(s) PROVE TestingHeld'
  BY <1>11 DEF AppStatementFails
<1>12. ASSUME NEW s \in Subs, LookupFails(s) PROVE TestingHeld'
  BY <1>12 DEF LookupFails
<1>13. ASSUME NEW s \in Subs, SyncProblemFails(s) PROVE TestingHeld'
  BY <1>13 DEF SyncProblemFails
<1>14. ASSUME NEW n \in Nodes, NodeLookup(n) \/ RunTest(n) \/ NodeStatementFails(n) \/
                NoTestForProblem(n)
       PROVE  TestingHeld'
  BY <1>14 DEF NodeLookup, RunTest, NodeStatementFails, NoTestForProblem
<1>15. ASSUME NEW n \in Nodes, SetScore(n) PROVE TestingHeld'
  BY <1>15 DEF SetScore
<1>16. ASSUME NEW n \in Nodes, SetVerdictType(n) PROVE TestingHeld'
  BY <1>16 DEF SetVerdictType
<1>17. ASSUME NEW n \in Nodes, FailVerdict(n) PROVE TestingHeld'
  BY <1>17 DEF FailVerdict
<1>18. ASSUME NEW n \in Nodes, FailScore(n) PROVE TestingHeld'
  BY <1>18 DEF FailScore
<1>19. ASSUME NEW n \in Nodes, Respond(n) PROVE TestingHeld'
  BY <1>19 DEF Respond
<1>20. ASSUME NEW n \in Nodes, NodeDies(n) PROVE TestingHeld'
  BY <1>20 DEF NodeDies
<1>21. ASSUME NEW n \in Nodes, Partition(n) PROVE TestingHeld'
  BY <1>21 DEF Partition
<1>22. ASSUME NEW n \in Nodes, NEW s \in Subs, TakeSubmission(n, s) PROVE TestingHeld'
  BY <1>22 DEF TakeSubmission
<1>23. CASE UNCHANGED vars
  BY <1>23 DEF vars
<1> QED
  BY <1>1, <1>2, <1>3, <1>4, <1>5, <1>6, <1>7, <1>8, <1>9, <1>10, <1>11, <1>12, <1>13,
     <1>14, <1>15, <1>16, <1>17, <1>18, <1>19, <1>20, <1>21, <1>22, <1>23
     DEF Next, PageStep, RequestStep, NodeStep

\* The two writers never meet: a row is marked only when no node has it, and nodes
\* that test it at the same time write the same.
LEMMA RequestRowsKept ==
    ASSUME TypeOK, Owned, QuietRows, [Next]_vars, Quiet', NEW u \in Subs
    PROVE  RequestRow(u)'
<1> Quiet /\ ~Fault("db") /\ ~Fault("dispatcher") /\ ~Fault("rpc") /\ ~Fault("problem")
  BY Earlier, Excluded
<1> USE LifecycleAssumption DEF TypeOK, Owned, Early, QuietRows, RequestRow, NodeRow, Held, Row, Right, NoRow, Busy, pageVars
<1>1. ASSUME OpenPage \/ PageInitialize \/ LoadSubmissions
      PROVE  RequestRow(u)'
  BY <1>1 DEF OpenPage, PageInitialize, LoadSubmissions
<1>2. ASSUME DispatcherCrashes PROVE RequestRow(u)'
  BY <1>2 DEF DispatcherCrashes
<1>3. ASSUME NEW s \in Subs, Submit(s) PROVE RequestRow(u)'
  BY <1>3 DEF Submit
<1>4. ASSUME NEW s \in Subs, AppInitialize(s) PROVE RequestRow(u)'
  BY <1>4 DEF AppInitialize
<1>5. ASSUME NEW s \in Subs, AddSubmission(s) PROVE RequestRow(u)'
  BY <1>5 DEF AddSubmission
<1>6. ASSUME NEW s \in Subs, HandleSubmissionReturns(s) PROVE RequestRow(u)'
  BY <1>6 DEF HandleSubmissionReturns
<1>7. ASSUME NEW s \in Subs, MarkFailed(s) PROVE RequestRow(u)'
  BY <1>7 DEF MarkFailed
<1>8. ASSUME NEW s \in Subs, HandlerStarts(s) PROVE RequestRow(u)'
  BY <1>8 DEF HandlerStarts
<1>9. ASSUME NEW s \in Subs, DispatcherInitialize(s) PROVE RequestRow(u)'
  BY <1>9 DEF DispatcherInitialize
<1>10. ASSUME NEW s \in Subs, ProblemOfSubmission(s) PROVE RequestRow(u)'
  BY <1>10 DEF ProblemOfSubmission
<1>11. ASSUME NEW s \in Subs, QueueSubmission(s) PROVE RequestRow(u)'
  BY <1>11 DEF QueueSubmission
<1>12. ASSUME NEW s \in Subs, HandleSubmissionBreaks(s) PROVE RequestRow(u)'
  BY <1>12 DEF HandleSubmissionBreaks
<1>13. ASSUME NEW s \in Subs, AppStatementFails(s) PROVE RequestRow(u)'
  BY <1>13 DEF AppStatementFails
<1>14. ASSUME NEW s \in Subs, LookupFails(s) PROVE RequestRow(u)'
  BY <1>14 DEF LookupFails
<1>15. ASSUME NEW s \in Subs, SyncProblemFails(s) PROVE RequestRow(u)'
  BY <1>15 DEF SyncProblemFails
<1>16. ASSUME NEW n \in Nodes, NodeLookup(n) \/ RunTest(n) \/ NodeStatementFails(n) \/
                NoTestForProblem(n)
       PROVE  RequestRow(u)'
  BY <1>16 DEF NodeLookup, RunTest, NodeStatementFails, NoTestForProblem
<1>17. ASSUME NEW n \in Nodes, SetScore(n) PROVE RequestRow(u)'
  BY <1>17 DEF SetScore
<1>18. ASSUME NEW n \in Nodes, SetVerdictType(n) PROVE RequestRow(u)'
  <2>1. /\ work[n] \in Subs /\ row[work[n]] \in Rows
        /\ row' = [row EXCEPT ![work[n]] = Row(Truth[work[n]], row[work[n]].score)]
    BY <1>18, NodesRow, NodeWrites DEF SetVerdictType
  <2>2. CASE u = work[n]
    <3>1. row'[u] = Right(u) /\ disp'[u] = "queued"
      BY <1>18, <2>1, <2>2 DEF SetVerdictType
    <3>2. app[u] \in {"calling", "done"} /\ app' = app
      BY <1>18, <2>1, <2>2 DEF SetVerdictType
    <3> QED
      BY <3>1, <3>2
  <2>3. CASE u # work[n]
    BY <1>18, <2>1, <2>3 DEF SetVerdictType
  <2> QED
    BY <2>2, <2>3
<1>19. ASSUME NEW n \in Nodes, FailVerdict(n) PROVE RequestRow(u)'
  BY <1>19 DEF FailVerdict
<1>20. ASSUME NEW n \in Nodes, FailScore(n) PROVE RequestRow(u)'
  BY <1>20 DEF FailScore
<1>21. ASSUME NEW n \in Nodes, Respond(n) PROVE RequestRow(u)'
  <2>1. ASSUME Held(u), ~Held(u)' PROVE row[u] = Right(u)
    <3>1. u \notin queue
      BY <1>21, <2>1 DEF Respond
    <3>2. PICK m \in Nodes \ zombie : work[m] = u
      BY <2>1, <3>1
    <3>3. m = n
      BY <1>21, <2>1, <3>2 DEF Respond
    <3>4. NodeRow(n) /\ st[n] = "upload"
      BY <1>21 DEF Respond
    <3> QED
      BY <3>2, <3>3, <3>4
  <2>2. row' = row /\ app' = app /\ disp' = disp
    BY <1>21 DEF Respond
  <2>3. RequestRow(u)
    OBVIOUS
  <2> QED
    BY <2>1, <2>2, <2>3
<1>22. ASSUME NEW n \in Nodes, NodeDies(n) PROVE RequestRow(u)'
  BY <1>22 DEF NodeDies
<1>23. ASSUME NEW n \in Nodes, Partition(n) PROVE RequestRow(u)'
  BY <1>23 DEF Partition
<1>24. ASSUME NEW n \in Nodes, NEW s \in Subs, TakeSubmission(n, s) PROVE RequestRow(u)'
  BY <1>24 DEF TakeSubmission
<1>25. CASE UNCHANGED vars
  BY <1>25 DEF vars
<1> QED
  BY <1>1, <1>2, <1>3, <1>4, <1>5, <1>6, <1>7, <1>8, <1>9, <1>10, <1>11, <1>12, <1>13,
     <1>14, <1>15, <1>16, <1>17, <1>18, <1>19, <1>20, <1>21, <1>22, <1>23, <1>24, <1>25
     DEF Next, PageStep, RequestStep, NodeStep

\* What a node has written no other writer takes back.
LEMMA NodeRowsKept ==
    ASSUME TypeOK, Owned, QuietRows, [Next]_vars, Quiet', NEW m \in Nodes
    PROVE  NodeRow(m)'
<1> Quiet /\ ~Fault("db") /\ ~Fault("dispatcher") /\ ~Fault("rpc") /\ ~Fault("problem")
  BY Earlier, Excluded
<1> USE LifecycleAssumption DEF TypeOK, Owned, Early, QuietRows, RequestRow, NodeRow, Row, Right, NoRow, Busy, pageVars
<1>1. ASSUME OpenPage \/ PageInitialize \/ LoadSubmissions \/ DispatcherCrashes
      PROVE  NodeRow(m)'
  BY <1>1 DEF OpenPage, PageInitialize, LoadSubmissions, DispatcherCrashes
<1>2. ASSUME NEW s \in Subs, Submit(s) \/ AppInitialize(s) \/ HandleSubmissionReturns(s) \/
               HandlerStarts(s) \/ DispatcherInitialize(s) \/ ProblemOfSubmission(s) \/
               QueueSubmission(s) \/ HandleSubmissionBreaks(s) \/ LookupFails(s) \/
               SyncProblemFails(s)
      PROVE  NodeRow(m)'
  BY <1>2 DEF Submit, AppInitialize, HandleSubmissionReturns, HandlerStarts,
     DispatcherInitialize, ProblemOfSubmission, QueueSubmission, HandleSubmissionBreaks,
     LookupFails, SyncProblemFails
<1>3. ASSUME NEW s \in Subs, AddSubmission(s) PROVE NodeRow(m)'
  BY <1>3 DEF AddSubmission
<1>4. ASSUME NEW s \in Subs, MarkFailed(s) PROVE NodeRow(m)'
  BY <1>4 DEF MarkFailed
<1>5. ASSUME NEW s \in Subs, AppStatementFails(s) PROVE NodeRow(m)'
  BY <1>5 DEF AppStatementFails
<1>6. ASSUME NEW n \in Nodes, Partition(n)
      PROVE  NodeRow(m)'
  BY <1>6 DEF Partition
<1>7. ASSUME NEW n \in Nodes, NodeLookup(n) PROVE NodeRow(m)'
  BY <1>7 DEF NodeLookup
<1>8. ASSUME NEW n \in Nodes, RunTest(n) PROVE NodeRow(m)'
  BY <1>8 DEF RunTest
<1>9. ASSUME NEW n \in Nodes, SetScore(n) PROVE NodeRow(m)'
  BY <1>9 DEF SetScore
<1>10. ASSUME NEW n \in Nodes, SetVerdictType(n) PROVE NodeRow(m)'
  BY <1>10 DEF SetVerdictType
<1>11. ASSUME NEW n \in Nodes, FailVerdict(n) PROVE NodeRow(m)'
  BY <1>11 DEF FailVerdict
<1>12. ASSUME NEW n \in Nodes, FailScore(n) PROVE NodeRow(m)'
  BY <1>12 DEF FailScore
<1>13. ASSUME NEW n \in Nodes, Respond(n) PROVE NodeRow(m)'
  BY <1>13 DEF Respond
<1>14. ASSUME NEW n \in Nodes, NodeStatementFails(n) PROVE NodeRow(m)'
  BY <1>14 DEF NodeStatementFails
<1>15. ASSUME NEW n \in Nodes, NoTestForProblem(n) PROVE NodeRow(m)'
  BY <1>15 DEF NoTestForProblem
<1>16. ASSUME NEW n \in Nodes, NodeDies(n) PROVE NodeRow(m)'
  BY <1>16 DEF NodeDies
<1>17. ASSUME NEW n \in Nodes, NEW s \in Subs, TakeSubmission(n, s) PROVE NodeRow(m)'
  BY <1>17 DEF TakeSubmission
<1>18. CASE UNCHANGED vars
  BY <1>18 DEF vars
<1> QED
  BY <1>1, <1>2, <1>3, <1>4, <1>5, <1>6, <1>7, <1>8, <1>9, <1>10, <1>11, <1>12, <1>13,
     <1>14, <1>15, <1>16, <1>17, <1>18
     DEF Next, PageStep, RequestStep, NodeStep

\* A final row is Right or FAIL, and no statement changes it.
LEMMA ShownRowsKept ==
    ASSUME TypeOK, Owned, QuietRows, [Next]_vars, Quiet', NEW u \in Mine
    PROVE  ShownRow(u)'
<1> Quiet /\ ~Fault("db") /\ ~Fault("dispatcher") /\ ~Fault("rpc") /\ ~Fault("problem")
  BY Earlier, Excluded
<1> USE LifecycleAssumption DEF TypeOK, Owned, Early, QuietRows, RequestRow, NodeRow, ShownRow, Final, Row, Right, NoRow, Busy, pageVars
<1>1. ASSUME OpenPage \/ PageInitialize \/ DispatcherCrashes
      PROVE  ShownRow(u)'
  BY <1>1 DEF OpenPage, PageInitialize, DispatcherCrashes
<1>2. ASSUME LoadSubmissions PROVE ShownRow(u)'
  BY <1>2 DEF LoadSubmissions
<1>3. ASSUME NEW s \in Subs, Submit(s) \/ AppInitialize(s) \/ HandleSubmissionReturns(s) \/
               HandlerStarts(s) \/ DispatcherInitialize(s) \/ ProblemOfSubmission(s) \/
               QueueSubmission(s) \/ HandleSubmissionBreaks(s) \/ LookupFails(s) \/
               SyncProblemFails(s)
      PROVE  ShownRow(u)'
  BY <1>3 DEF Submit, AppInitialize, HandleSubmissionReturns, HandlerStarts,
     DispatcherInitialize, ProblemOfSubmission, QueueSubmission, HandleSubmissionBreaks,
     LookupFails, SyncProblemFails
<1>4. ASSUME NEW s \in Subs, AddSubmission(s) PROVE ShownRow(u)'
  BY <1>4 DEF AddSubmission
<1>5. ASSUME NEW s \in Subs, MarkFailed(s) PROVE ShownRow(u)'
  BY <1>5 DEF MarkFailed
<1>6. ASSUME NEW s \in Subs, AppStatementFails(s) PROVE ShownRow(u)'
  BY <1>6 DEF AppStatementFails
<1>7. ASSUME NEW n \in Nodes, NodeLookup(n) \/ RunTest(n) \/ Respond(n) \/
               NodeStatementFails(n) \/ NoTestForProblem(n) \/ NodeDies(n) \/ Partition(n)
      PROVE  ShownRow(u)'
  BY <1>7 DEF NodeLookup, RunTest, Respond, NodeStatementFails, NoTestForProblem, NodeDies,
     Partition
<1>8. ASSUME NEW n \in Nodes, SetScore(n) PROVE ShownRow(u)'
  BY <1>8 DEF SetScore
<1>9. ASSUME NEW n \in Nodes, SetVerdictType(n) PROVE ShownRow(u)'
  BY <1>9 DEF SetVerdictType
<1>10. ASSUME NEW n \in Nodes, FailVerdict(n) PROVE ShownRow(u)'
  BY <1>10 DEF FailVerdict
<1>11. ASSUME NEW n \in Nodes, FailScore(n) PROVE ShownRow(u)'
  BY <1>11 DEF FailScore
<1>12. ASSUME NEW n \in Nodes, NEW s \in Subs, TakeSubmission(n, s) PROVE ShownRow(u)'
  BY <1>12 DEF TakeSubmission
<1>13. CASE UNCHANGED vars
  BY <1>13 DEF vars
<1> QED
  BY <1>1, <1>2, <1>3, <1>4, <1>5, <1>6, <1>7, <1>8, <1>9, <1>10, <1>11, <1>12, <1>13
     DEF Next, PageStep, RequestStep, NodeStep

-----------------------------------------------------------------------------
\* Nothing has been submitted, nothing has failed.
LEMMA LifeInit == Init => LifeInv
<1> SUFFICES ASSUME Init PROVE LifeInv
  OBVIOUS
<1> USE LifecycleAssumption DEF Init
<1>1. TypeOK
  BY DEF TypeOK, NoRow, Busy
<1>2. Owned
  BY DEF Owned, Busy
<1>3. Answered /\ TestingHeld
  BY DEF Answered, TestingHeld
<1>4. InTesting
  BY DEF InTesting, NoRow
<1>5. \A s \in Subs : RequestRow(s)
  BY DEF RequestRow, Early
<1>6. \A n \in Nodes : NodeRow(n)
  BY DEF NodeRow
<1>7. \A s \in Mine : ShownRow(s)
  BY DEF ShownRow, Final, NoRow
<1> QED
  BY <1>1, <1>2, <1>3, <1>4, <1>5, <1>6, <1>7 DEF LifeInv, QuietRows

\* No step, and no fault, breaks the invariant.
LEMMA LifeStep == LifeInv /\ [Next]_vars => LifeInv'
<1> SUFFICES ASSUME LifeInv, [Next]_vars PROVE LifeInv'
  OBVIOUS
<1>1. TypeOK /\ Owned /\ Answered /\ InTesting /\ TestingHeld /\ QuietRows
  BY DEF LifeInv
<1>2. TypeOK' /\ Owned' /\ Answered' /\ InTesting' /\ TestingHeld'
  BY <1>1, TypesKept, OwnedKept, AnsweredKept, InTestingKept, TestingHeldKept
<1>3. QuietRows'
  BY <1>1, RequestRowsKept, NodeRowsKept, ShownRowsKept DEF QuietRows
<1> QED
  BY <1>2, <1>3 DEF LifeInv

\* The inductive invariant of the four theorems.
LEMMA LifeInvariant == Spec => []LifeInv
BY LifeInit, LifeStep, PTL DEF Spec

\* Settled means that the dispatcher does not hold it.
LEMMA DroppedFollows == LifeInv => NothingTakenIsDropped
<1> SUFFICES ASSUME LifeInv, NEW s \in Subs, Settled(s)
             PROVE  /\ disp[s] = "queued" => s \in answered \/ Had("dispatcher")
                    /\ row[s].verdict_type = "TS" => Had("dispatcher") \/ Had("db")
  BY DEF NothingTakenIsDropped
<1>1. ~Held(s)
  BY DEF Settled, Held
<1>2. disp[s] = "queued" => s \in answered \/ Had("dispatcher")
  BY <1>1 DEF LifeInv, Answered, NoCrash
<1>3. (row[s].verdict_type = "TS" /\ ~Had("db")) => disp[s] = "queued"
  BY DEF LifeInv, InTesting, NoFailed, Settled
<1>4. row[s].verdict_type = "TS" => Had("dispatcher") \/ Had("db")
  BY <1>1, <1>3 DEF LifeInv, TestingHeld, NoCrash, NoFailed
<1> QED
  BY <1>2, <1>4

\* A settled request is refused by the database, refused by the dispatcher, or queued.
LEMMA SettledFollows == LifeInv => SettledRowIsRight
<1> SUFFICES ASSUME LifeInv, Quiet, NEW s \in Subs, Settled(s)
             PROVE  LET verdict == CASE disp[s] = "queued" -> Truth[s]
                                     [] disp[s] = "none" -> "none"
                                     [] OTHER -> "FAIL"
                    IN row[s] = [verdict_type |-> verdict, score |-> ScoreOf(verdict)]
  BY DEF SettledRowIsRight, Quiet
<1>1. ~Held(s) /\ RequestRow(s) /\ app[s] \in {"done", "http500"}
  BY DEF Settled, Held, LifeInv, QuietRows
<1>2. CASE app[s] = "http500"
  <2>1. disp[s] = "none" /\ row[s] = NoRow
    BY <1>1, <1>2 DEF RequestRow, Early, LifeInv, Owned
  <2> QED
    BY <2>1 DEF NoRow, ScoreOf
<1>3. CASE disp[s] = "queued"
  BY <1>1, <1>3 DEF RequestRow, Right, Row
<1>4. CASE app[s] = "done" /\ disp[s] = "not_found"
  <2>1. row[s] = Row("FAIL", 0)
    BY <1>1, <1>4 DEF RequestRow
  <2> QED
    BY <1>4, <2>1 DEF Row, ScoreOf
<1> QED
  BY <1>1, <1>2, <1>3, <1>4 DEF RequestRow

\* A final row is one of two.
LEMMA ShownFollows == LifeInv => ShownIsFinal
<1> SUFFICES ASSUME LifeInv, Quiet, NEW s \in Mine, Final(shown[s])
             PROVE  row[s] = shown[s] /\ row[s].score = ScoreOf(row[s].verdict_type)
  BY DEF ShownIsFinal, Quiet
<1>1. s \in Subs /\ RequestRow(s) /\ row[s] = shown[s]
  BY LifecycleAssumption DEF LifeInv, QuietRows, ShownRow
<1>2. row[s].verdict_type \notin {"none", "TS"}
  BY <1>1 DEF Final
<1>3. row[s] \in {Row("FAIL", 0), Right(s)}
  BY <1>1, <1>2 DEF RequestRow, Early, Row, NoRow, LifeInv, TypeOK
<1> QED
  BY <1>1, <1>3, LifecycleAssumption DEF Row, Right, ScoreOf
-----------------------------------------------------------------------------
\* Whatever fails, in whatever combination and however often, every variable
\* keeps its type and a node has work exactly while it is busy.
THEOREM LifecycleTypes == Spec => []TypeOK
<1>1. LifeInv => TypeOK
  BY DEF LifeInv
<1> QED
  BY <1>1, LifeInvariant, PTL

\* For any number of submissions, nodes and faults, a submission the
\* dispatcher has taken leaves it only answered, unless the dispatcher was
\* lost, and only that or a failed statement leaves a settled row in testing.
THEOREM TakenIsNotDropped == Spec => []NothingTakenIsDropped
BY DroppedFollows, LifeInvariant, PTL

\* While nodes die and streams break, and nothing else fails, a row nobody will
\* write any more says what testing says of a queued submission, and FAIL of a
\* refused one, however many nodes have tested it at the same time.
THEOREM SettledIsRight == Spec => []SettledRowIsRight
BY SettledFollows, LifeInvariant, PTL

\* While nodes die and streams break, and nothing else fails, a final verdict
\* that the submissions page has shown never changes and has its score.
THEOREM ShownStays == Spec => []ShownIsFinal
BY ShownFollows, LifeInvariant, PTL
=============================================================================
