------------------------ MODULE SubmissionLifecycle ------------------------
(***************************************************************************)
(* A submission from the web application's request to the verdict in the   *)
(* submissions table. The application (problem_submit), the dispatcher     *)
(* (handleSubmissionHandler) and the test nodes write the same row without *)
(* a transaction; every co_await is a point where the others run.          *)
(*                                                                         *)
(* The dispatcher's TestingQueue is reduced to a set of waiting            *)
(* submissions (module TestingQueue has the details), testing to its       *)
(* result (module TestRun), content synchronisation to success or failure  *)
(* (module ContentSync).                                                   *)
(***************************************************************************)
EXTENDS Naturals, Sequences, FiniteSets

CONSTANTS Subs, Nodes,
          NoSub,      \* a node without work
          Mine,       \* those of the user who looks at the submissions page
          Truth,      \* what testing says of each submission
          FaultKinds, \* which of AllFaults may happen
          MaxFaults

AllFaults == {"rpc", "db", "node", "partition", "problem", "dispatcher"}

Full == 100
ScoreOf(verdict) == IF verdict = "AC" THEN Full ELSE 0

ASSUME LifecycleAssumption ==
    /\ NoSub \notin Subs
    /\ Mine \subseteq Subs
    /\ Truth \in [Subs -> {"AC", "WA"}]
    /\ FaultKinds \subseteq AllFaults
    /\ MaxFaults \in Nat

VARIABLES row,      \* the submissions table: [verdict_type, score] or NoRow
          prepared, \* process -> is the statements block registered there?
          app,      \* the request's coroutine
          disp,     \* the dispatcher's handler of the submission
          queue,    \* submissions waiting in the TestingQueue
          work, st, \* a node's submission and the stage of its loop
          zombie,   \* nodes the dispatcher has given up although they run
          answered, \* history: submissions a node has answered to the dispatcher
          faults,   \* history: the kinds of faults so far
          page,     \* a request for the submissions page
          shown     \* history: the final rows it has shown, NoRow for none

vars == <<row, prepared, app, disp, queue, work, st, zombie, answered, faults, page, shown>>

pageVars == <<page, shown>>

NoRow == [verdict_type |-> "none", score |-> 0]

\* A fault of this kind happens.
Fault(kind) ==
    /\ kind \in FaultKinds
    /\ Len(faults) < MaxFaults
    /\ faults' = Append(faults, kind)
-----------------------------------------------------------------------------
(* The application *)

\* problem_submit up to add_submission's first suspension: the insert, or the
\* creation of the table if this process has not registered its statements.
Submit(s) ==
    /\ app[s] = "new"
    /\ app' = [app EXCEPT ![s] = IF prepared["app"] THEN "insert" ELSE "init"]
    /\ UNCHANGED <<row, prepared, disp, queue, work, st, zombie, answered, faults, pageVars>>

\* initialize after CREATE TABLE: registering a block somebody else has
\* registered meanwhile throws, initialize returns false.
AppInitialize(s) ==
    /\ app[s] = "init"
    /\ app' = [app EXCEPT ![s] = IF prepared["app"] THEN "http500" ELSE "insert"]
    /\ prepared' = [prepared EXCEPT !["app"] = TRUE]
    /\ UNCHANGED <<row, disp, queue, work, st, zombie, answered, faults, pageVars>>

\* The row is stored as "TS" and handle_submission calls the dispatcher.
AddSubmission(s) ==
    /\ app[s] = "insert"
    /\ row' = [row EXCEPT ![s] = [verdict_type |-> "TS", score |-> 0]]
    /\ app' = [app EXCEPT ![s] = "calling"]
    /\ disp' = [disp EXCEPT ![s] = "arrived"]
    /\ UNCHANGED <<prepared, queue, work, st, zombie, answered, faults, pageVars>>

\* The RPC's outcome: refused by the dispatcher means marking the row.
HandleSubmissionReturns(s) ==
    /\ app[s] = "calling"
    /\ disp[s] \in {"queued", "not_found", "failed"}
    /\ app' = [app EXCEPT ![s] = IF disp[s] = "queued" THEN "done" ELSE "marking"]
    /\ UNCHANGED <<row, prepared, disp, queue, work, st, zombie, answered, faults, pageVars>>

\* The connection to the dispatcher breaks: AioRpcError, whatever became of
\* the request; one that has not been looked at may be lost.
HandleSubmissionBreaks(s) ==
    /\ Fault("rpc")
    /\ app[s] = "calling"
    /\ app' = [app EXCEPT ![s] = "marking"]
    /\ \/ UNCHANGED disp
       \/ disp[s] = "arrived" /\ disp' = [disp EXCEPT ![s] = "none"]
    /\ UNCHANGED <<row, prepared, queue, work, st, zombie, answered, pageVars>>

\* Mutant: the refusal is only logged.
MarkFailedMutant(s) ==
    /\ app[s] = "marking"
    /\ app' = [app EXCEPT ![s] = "done"]
    /\ UNCHANGED <<row, prepared, disp, queue, work, st, zombie, answered, faults, pageVars>>

\* update_submission_verdict(id, "FAIL", 0.0): one UPDATE.
MarkFailed(s) ==
    /\ app[s] = "marking"
    /\ row' = [row EXCEPT ![s] = [verdict_type |-> "FAIL", score |-> 0]]
    /\ app' = [app EXCEPT ![s] = "done"]
    /\ UNCHANGED <<prepared, disp, queue, work, st, zombie, answered, faults, pageVars>>

\* A failed statement: add_submission returns false, with the row stored or
\* not; update_submission_verdict's result is not looked at.
AppStatementFails(s) ==
    /\ Fault("db")
    /\ \/ /\ app[s] = "insert"
          /\ app' = [app EXCEPT ![s] = "http500"]
          /\ row' \in {row, [row EXCEPT ![s] = [verdict_type |-> "TS", score |-> 0]]}
       \/ /\ app[s] = "marking"
          /\ app' = [app EXCEPT ![s] = "done"]
          /\ UNCHANGED row
    /\ UNCHANGED <<prepared, disp, queue, work, st, zombie, answered, pageVars>>
Final(r) == r.verdict_type \notin {"none", "TS"}

\* problem_submissions, the page of a user's submissions, as the first to use the
\* table: it races with submitters to register the statements.
OpenPage ==
    /\ page = "none" /\ ~prepared["app"]
    /\ page' = "init"
    /\ UNCHANGED <<row, prepared, app, disp, queue, work, st, zombie, answered, faults, shown>>

\* The loser's page is empty; the winner goes on to LoadSubmissions.
PageInitialize ==
    /\ page = "init"
    /\ page' = "none"
    /\ prepared' = [prepared EXCEPT !["app"] = TRUE]
    /\ UNCHANGED <<row, app, disp, queue, work, st, zombie, answered, faults, shown>>

\* loadSubmissionsByUserAndProblem: one SELECT. (When it fails the page is
\* empty.)
LoadSubmissions ==
    /\ page = "none" /\ prepared["app"]
    /\ shown' = [s \in Mine |-> IF Final(row[s]) THEN row[s] ELSE shown[s]]
    /\ UNCHANGED <<row, prepared, app, disp, queue, work, st, zombie, answered, faults, page>>
-----------------------------------------------------------------------------
(* The dispatcher's handler *)

\* Up to problemOfSubmission's first suspension.
HandlerStarts(s) ==
    /\ disp[s] = "arrived"
    /\ disp' = [disp EXCEPT ![s] = IF prepared["dispatcher"] THEN "lookup" ELSE "init"]
    /\ UNCHANGED <<row, prepared, app, queue, work, st, zombie, answered, faults, pageVars>>

DispatcherInitialize(s) ==
    /\ disp[s] = "init"
    /\ disp' = [disp EXCEPT ![s] = IF prepared["dispatcher"] THEN "not_found" ELSE "lookup"]
    /\ prepared' = [prepared EXCEPT !["dispatcher"] = TRUE]
    /\ UNCHANGED <<row, app, queue, work, st, zombie, answered, faults, pageVars>>

ProblemOfSubmission(s) ==
    /\ disp[s] = "lookup"
    /\ disp' = [disp EXCEPT ![s] = IF row[s] = NoRow THEN "not_found" ELSE "sync"]
    /\ UNCHANGED <<row, prepared, app, queue, work, st, zombie, answered, faults, pageVars>>

\* A failed SELECT is answered like an empty one.
LookupFails(s) ==
    /\ Fault("db")
    /\ disp[s] = "lookup"
    /\ disp' = [disp EXCEPT ![s] = "not_found"]
    /\ UNCHANGED <<row, prepared, app, queue, work, st, zombie, answered, pageVars>>

\* The problem is synchronised and the submission queued; or the
\* synchronisation throws and the call ends with INTERNAL.
QueueSubmission(s) ==
    /\ disp[s] = "sync"
    /\ disp' = [disp EXCEPT ![s] = "queued"]
    /\ queue' = queue \cup {s}
    /\ UNCHANGED <<row, prepared, app, work, st, zombie, answered, faults, pageVars>>

SyncProblemFails(s) ==
    /\ Fault("problem")
    /\ disp[s] = "sync"
    /\ disp' = [disp EXCEPT ![s] = "failed"]
    /\ UNCHANGED <<row, prepared, app, queue, work, st, zombie, answered, pageVars>>
Calling(s) == app[s] = "calling"
Handling(s) == disp[s] \in {"arrived", "init", "lookup", "sync"}

\* The dispatcher ends and is started again. The TestingQueue and the handlers
\* are gone; a handler's caller gets an AioRpcError, as does one whose reply was
\* under way; working nodes are left to themselves.
DispatcherCrashes ==
    /\ Fault("dispatcher")
    /\ prepared' = [prepared EXCEPT !["dispatcher"] = FALSE]
    /\ disp' = [s \in Subs |-> IF Handling(s) THEN "none" ELSE disp[s]]
    /\ \E replied \in SUBSET {s \in Subs : Calling(s) /\ ~Handling(s)} :
          app' = [s \in Subs |-> IF Calling(s) /\ s \notin replied THEN "marking" ELSE app[s]]
    /\ queue' = {}
    /\ zombie' = {n \in Nodes : work[n] # NoSub}
    /\ UNCHANGED <<row, work, st, answered, pageVars>>
-----------------------------------------------------------------------------
(* The test nodes *)

TakeSubmission(n, s) ==
    /\ st[n] = "idle"
    /\ s \in queue
    /\ queue' = queue \ {s}
    /\ work' = [work EXCEPT ![n] = s]
    /\ st' = [st EXCEPT ![n] = "lookup"]
    /\ UNCHANGED <<row, prepared, app, disp, zombie, answered, faults, pageVars>>

\* problemOfSubmission, getTest, syncContent: a missing row or a problem
\* without tests leads to failSubmission.
NodeLookup(n) ==
    /\ st[n] = "lookup"
    /\ st' = [st EXCEPT ![n] = IF row[work[n]] = NoRow THEN "fail_verdict" ELSE "test"]
    /\ UNCHANGED <<row, prepared, app, disp, queue, work, zombie, answered, faults, pageVars>>

NoTestForProblem(n) ==
    /\ Fault("problem")
    /\ st[n] = "lookup"
    /\ st' = [st EXCEPT ![n] = "fail_verdict"]
    /\ UNCHANGED <<row, prepared, app, disp, queue, work, zombie, answered, pageVars>>

\* The inner test's run, with the boxes and the sandbox.
RunTest(n) ==
    /\ st[n] = "test"
    /\ st' = [st EXCEPT ![n] = "score"]
    /\ UNCHANGED <<row, prepared, app, disp, queue, work, zombie, answered, faults, pageVars>>

\* Mutant: the verdict is written first.
SetScoreMutant(n) ==
    /\ st[n] = "score"
    /\ row' = [row EXCEPT ![work[n]].verdict_type = Truth[work[n]]]
    /\ st' = [st EXCEPT ![n] = "verdict"]
    /\ UNCHANGED <<prepared, app, disp, queue, work, zombie, answered, faults, pageVars>>

\* SyncResultTest::run after the inner test: first the score ...
SetScore(n) ==
    /\ st[n] = "score"
    /\ row' = [row EXCEPT ![work[n]].score = ScoreOf(Truth[work[n]])]
    /\ st' = [st EXCEPT ![n] = "verdict"]
    /\ UNCHANGED <<prepared, app, disp, queue, work, zombie, answered, faults, pageVars>>

\* ... then the verdict.
SetVerdictType(n) ==
    /\ st[n] = "verdict"
    /\ row' = [row EXCEPT ![work[n]].verdict_type = Truth[work[n]]]
    /\ st' = [st EXCEPT ![n] = "upload"]
    /\ UNCHANGED <<prepared, app, disp, queue, work, zombie, answered, faults, pageVars>>

\* Mutant of failSubmission: the verdict is forgotten.
FailVerdictMutant(n) ==
    /\ st[n] = "fail_verdict"
    /\ st' = [st EXCEPT ![n] = "fail_score"]
    /\ UNCHANGED <<row, prepared, app, disp, queue, work, zombie, answered, faults, pageVars>>

\* failSubmission: first the verdict, then the score.
FailVerdict(n) ==
    /\ st[n] = "fail_verdict"
    /\ row' = [row EXCEPT ![work[n]].verdict_type = "FAIL"]
    /\ st' = [st EXCEPT ![n] = "fail_score"]
    /\ UNCHANGED <<prepared, app, disp, queue, work, zombie, answered, faults, pageVars>>

FailScore(n) ==
    /\ st[n] = "fail_score"
    /\ row' = [row EXCEPT ![work[n]].score = 0]
    /\ st' = [st EXCEPT ![n] = "upload"]
    /\ UNCHANGED <<prepared, app, disp, queue, work, zombie, answered, faults, pageVars>>

\* A failed statement: problemOfSubmission returns nullopt, the writes return
\* false and nobody looks at it.
NodeStatementFails(n) ==
    /\ Fault("db")
    /\ \/ st[n] = "lookup" /\ st' = [st EXCEPT ![n] = "fail_verdict"]
       \/ st[n] = "score" /\ st' = [st EXCEPT ![n] = "verdict"]
       \/ st[n] = "fail_verdict" /\ st' = [st EXCEPT ![n] = "fail_score"]
       \/ st[n] \in {"verdict", "fail_score"} /\ st' = [st EXCEPT ![n] = "upload"]
    /\ UNCHANGED <<row, prepared, app, disp, queue, work, zombie, answered, pageVars>>

\* The results are uploaded and the answer is written; the dispatcher no
\* longer listens to a node it has given up, whose stub then ends.
Respond(n) ==
    /\ st[n] = "upload"
    /\ st' = [st EXCEPT ![n] = "idle"]
    /\ work' = [work EXCEPT ![n] = NoSub]
    /\ zombie' = zombie \ {n}
    /\ answered' = IF n \in zombie THEN answered ELSE answered \cup {work[n]}
    /\ UNCHANGED <<row, prepared, app, disp, queue, faults, pageVars>>

Busy(n) == work[n] # NoSub

\* Mutant: the dead node's entry keeps its submission.
NodeDiesMutant(n) ==
    /\ Fault("node")
    /\ Busy(n)
    /\ queue' = IF n \in zombie THEN queue ELSE queue \cup {work[n]}
    /\ st' = [st EXCEPT ![n] = "idle"]
    /\ zombie' = zombie \ {n}
    /\ UNCHANGED <<row, prepared, app, disp, work, answered, pageVars>>

\* The node ends (an exception of content synchronisation or of the test, or a
\* crash) and is started again; the dispatcher requeues what it had.
NodeDies(n) ==
    /\ Fault("node")
    /\ Busy(n)
    /\ queue' = IF n \in zombie THEN queue ELSE queue \cup {work[n]}
    /\ work' = [work EXCEPT ![n] = NoSub]
    /\ st' = [st EXCEPT ![n] = "idle"]
    /\ zombie' = zombie \ {n}
    /\ UNCHANGED <<row, prepared, app, disp, answered, pageVars>>

\* Mutant: the dispatcher forgets the submission of a broken stream.
PartitionMutant(n) ==
    /\ Fault("partition")
    /\ Busy(n) /\ n \notin zombie
    /\ zombie' = zombie \cup {n}
    /\ UNCHANGED <<row, prepared, app, disp, queue, work, st, answered, pageVars>>

\* The stream to a working node breaks: its submission is requeued, the node
\* goes on testing it.
Partition(n) ==
    /\ Fault("partition")
    /\ Busy(n) /\ n \notin zombie
    /\ zombie' = zombie \cup {n}
    /\ queue' = queue \cup {work[n]}
    /\ UNCHANGED <<row, prepared, app, disp, work, st, answered, pageVars>>
-----------------------------------------------------------------------------
Init ==
    /\ row = [s \in Subs |-> NoRow]
    /\ prepared = [p \in {"app", "dispatcher"} |-> FALSE]
    /\ app = [s \in Subs |-> "new"]
    /\ disp = [s \in Subs |-> "none"]
    /\ queue = {}
    /\ work = [n \in Nodes |-> NoSub]
    /\ st = [n \in Nodes |-> "idle"]
    /\ zombie = {}
    /\ answered = {}
    /\ faults = <<>>
    /\ page = "none"
    /\ shown = [s \in Mine |-> NoRow]

RequestStep(s) ==
    \/ Submit(s)
    \/ AppInitialize(s)
    \/ AddSubmission(s)
    \/ HandleSubmissionReturns(s)
    \/ MarkFailed(s)
    \/ HandlerStarts(s)
    \/ DispatcherInitialize(s)
    \/ ProblemOfSubmission(s)
    \/ QueueSubmission(s)

NodeStep(n) ==
    \/ \E s \in Subs : TakeSubmission(n, s)
    \/ NodeLookup(n)
    \/ RunTest(n)
    \/ SetScore(n)
    \/ SetVerdictType(n)
    \/ FailVerdict(n)
    \/ FailScore(n)
    \/ Respond(n)

PageStep == OpenPage \/ PageInitialize \/ LoadSubmissions

Next ==
    \/ PageStep
    \/ DispatcherCrashes
    \/ \E s \in Subs :
          \/ RequestStep(s)
          \/ HandleSubmissionBreaks(s)
          \/ AppStatementFails(s)
          \/ LookupFails(s)
          \/ SyncProblemFails(s)
    \/ \E n \in Nodes :
          \/ NodeStep(n)
          \/ NodeStatementFails(n)
          \/ NoTestForProblem(n)
          \/ NodeDies(n)
          \/ Partition(n)

Spec == Init /\ [][Next]_vars

\* Coroutines run on, the database answers, and an idle node is handed work
\* (which the dispatcher does for what is pushed and not for what is requeued).
FairSpec ==
    /\ Spec
    /\ \A s \in Subs : WF_vars(RequestStep(s))
    /\ \A n \in Nodes : WF_vars(NodeStep(n))
-----------------------------------------------------------------------------
\* Every variable has its type, and a node has work exactly while it is busy.
TypeOK ==
    /\ row \in [Subs -> [verdict_type : {"none", "TS", "FAIL", "AC", "WA"}, score : {0, Full}]]
    /\ prepared \in [{"app", "dispatcher"} -> BOOLEAN]
    /\ app \in [Subs -> {"new", "init", "insert", "calling", "marking", "done", "http500"}]
    /\ disp \in [Subs -> {"none", "arrived", "init", "lookup", "sync", "queued", "not_found", "failed"}]
    /\ queue \subseteq Subs
    /\ work \in [Nodes -> Subs \cup {NoSub}]
    /\ st \in [Nodes -> {"idle", "lookup", "test", "score", "verdict", "upload",
                         "fail_verdict", "fail_score"}]
    /\ \A n \in Nodes : Busy(n) <=> st[n] # "idle"
    /\ zombie \subseteq {n \in Nodes : Busy(n)}
    /\ answered \subseteq Subs
    /\ faults \in Seq(FaultKinds)
    /\ page \in {"none", "init"}
    /\ shown \in [Mine -> [verdict_type : {"none", "TS", "FAIL", "AC", "WA"}, score : {0, Full}]]

\* Nobody will write the row of s any more.
Settled(s) ==
    /\ app[s] \in {"done", "http500"}
    /\ disp[s] \notin {"arrived", "init", "lookup", "sync"}
    /\ s \notin queue
    /\ \A n \in Nodes : work[n] # s

\* No faults but these so far.
Only(kinds) == \A k \in DOMAIN faults : faults[k] \in kinds

\* Some fault of this kind has happened.
Had(kind) == ~Only(AllFaults \ {kind})

\* A verdict that the submissions page has shown is final, and shown with its
\* score: AC with full marks, the others with none, also while nodes die and
\* nodes that lost their dispatcher write the same row again (SyncResultTest
\* writes the score before the verdict, the page reads both in one SELECT).
ShownIsFinal ==
    Only({"node", "partition"}) =>
        \A s \in Mine : Final(shown[s]) =>
            /\ row[s] = shown[s]
            /\ row[s].score = ScoreOf(row[s].verdict_type)

\* When all is said and done the row of a queued submission says what testing
\* says, however often it was tested, and by how many nodes at a time; the row
\* of a refused one says FAIL.
SettledRowIsRight ==
    Only({"node", "partition"}) =>
        \A s \in Subs : Settled(s) =>
            LET verdict == CASE disp[s] = "queued" -> Truth[s]
                             [] disp[s] = "none" -> "none"
                             [] OTHER -> "FAIL"
            IN row[s] = [verdict_type |-> verdict, score |-> ScoreOf(verdict)]

\* A submission the dispatcher has taken leaves it only after some node has
\* answered for it on a stream the dispatcher listens to, unless the dispatcher
\* itself is lost, which keeps its queue in memory only; and nothing but that and
\* a failed statement, whatever else fails and in whatever combination, leaves
\* a row in testing for ever (TestingQueue, problem_submit, failSubmission).
NothingTakenIsDropped ==
    \A s \in Subs : Settled(s) =>
        /\ disp[s] = "queued" => s \in answered \/ Had("dispatcher")
        /\ row[s].verdict_type = "TS" => Had("dispatcher") \/ Had("db")

\* NOT_FOUND is the answer only for a submission the table does not have. This
\* does not hold: two handlers may initialise the table at the same time, and
\* the loser's initialize returns false.
NotFoundMeansAbsent ==
    \A s \in Subs : disp[s] = "not_found" => row[s] = NoRow

\* Every stored submission gets a verdict, broken RPCs and problems without
\* tests notwithstanding: it does not stay in testing. (A failed UPDATE leaves it
\* there, and a requeued one may wait for ever: RequeuedEventuallyTested of
\* module TestingQueue.)
EventuallyJudged ==
    \A s \in Subs : row[s].verdict_type = "TS" ~>
        row[s].verdict_type \notin {"TS", "none"} \/ ~Only({"rpc", "problem"})
=============================================================================
