---------------------------- MODULE TestStorage ----------------------------
(***************************************************************************)
(* How a test node comes to the Test object of a problem: at start-up the  *)
(* plugins register their types with the factories; the first submission   *)
(* of a problem has the problem synchronised from the content server, its  *)
(* problem.xml read and the test tree built, and TestStorage keeps the     *)
(* result for as long as the process lives. Meanwhile the problem's author *)
(* uploads new versions. An exception ends the node's only coroutine, and  *)
(* with it the process; the dispatcher requeues the submission.            *)
(*                                                                         *)
(* One problem, one node. That the node is started again is the operator's *)
(* part, synchronisation is ContentSync, testing is TestRun.               *)
(***************************************************************************)
EXTENDS Integers, Sequences, FiniteSets

CONSTANTS Plugins,   \* the libraries of the plugins directory
          Provides,  \* the type names each of them registers
          StubType,  \* the configured type of the queue manager's stub
          Packages,  \* the versions of the problem, in the order of their upload
          Work,      \* bound: submissions of the problem
          MaxFaults

\* A version names its builder, "" for none, and lists its tests, each with the
\* types its constructor creates and the tests that it looks up.
TestEntry == [name : STRING, uses : SUBSET STRING, needs : SUBSET STRING]

ASSUME StorageAssumption ==
    /\ Provides \in [Plugins -> SUBSET STRING]
    /\ Packages \in Seq([builder : STRING, tests : Seq(TestEntry)])
    /\ Packages # <<>>
    /\ Work \in Nat
    /\ MaxFaults \in Nat

Unset == -2   \* tests_ has no entry
Null == -1    \* tests_ has a nullptr
Mixed == -1   \* the problem's directory is none of the versions

VARIABLES pc,      \* where the process stands
          toLoad,  \* plugins not yet tried
          types,   \* registered_types_ of the factories
          server,  \* the version on the content server
          disk,    \* the version in the node's problem directory, 0 for none
          cache,   \* tests_: Unset, Null, or the version the Test was built from
          begun,   \* the server's version when the synchronisation began
          left,    \* submissions without an answer
          floor,   \* history: the server's version when the process started
          faults

storageVars == <<pc, toLoad, types, server, disk, cache, begun, left, floor, faults>>

Fault == faults < MaxFaults /\ faults' = faults + 1
-----------------------------------------------------------------------------
(* problem.xml and the default problem builder *)

Tests(v) == Packages[v].tests

\* getAllTestNames: tests without a name are passed over.
TestNames(v) == SelectSeq([i \in 1..Len(Tests(v)) |-> Tests(v)[i].name], LAMBDA s : s # "")

\* getTestConfig: the first test of that name.
TestConfig(v, name) ==
    LET named == {i \in 1..Len(Tests(v)) : Tests(v)[i].name = name}
    IN Tests(v)[CHOOSE i \in named : \A j \in named : i <= j]

\* Mutant: the builder forgets the tests it has made (addTest).
ConstructsMutant(v, i) ==
    LET config == TestConfig(v, TestNames(v)[i])
    IN config.uses \subseteq types /\ config.needs = {}

\* TestFactory::create and the constructor of the i-th test: all types are known,
\* and the tests it looks up (getTestByName) were added before it.
Constructs(v, i) ==
    LET names == TestNames(v)
        config == TestConfig(v, names[i])
    IN  /\ config.uses \subseteq types
        /\ config.needs \subseteq {names[j] : j \in 1..(i - 1)}

\* DefaultProblemBuilder::build gets through, and finds "main" in the end.
Builds(v) == \A i \in 1..Len(TestNames(v)) : Constructs(v, i)
HasMain(v) == \E i \in 1..Len(TestNames(v)) : TestNames(v)[i] = "main"

\* getProblemBuilderName
HasBuilder(v) == Packages[v].builder # ""
-----------------------------------------------------------------------------
(* Start-up *)

\* The process is started (again), with empty factories and an empty TestStorage.
Start ==
    /\ pc = "down"
    /\ pc' = "loading"
    /\ toLoad' = Plugins
    /\ types' = {}
    /\ cache' = Unset
    /\ floor' = server
    /\ UNCHANGED <<server, disk, begun, left, faults>>

\* PluginManager::load and registerTypes
LoadPlugin(p) ==
    /\ pc = "loading" /\ p \in toLoad
    /\ toLoad' = toLoad \ {p}
    /\ types' = types \cup Provides[p]
    /\ UNCHANGED <<pc, server, disk, cache, begun, left, floor, faults>>

\* dlopen or dlsym fails: main only logs it.
LoadFails(p) ==
    /\ Fault
    /\ pc = "loading" /\ p \in toLoad
    /\ toLoad' = toLoad \ {p}
    /\ UNCHANGED <<pc, types, server, disk, cache, begun, left, floor>>

\* The stub is created and connects. An unknown type ends main.
CreateStub ==
    /\ pc = "loading" /\ toLoad = {}
    /\ pc' = IF StubType \in types THEN "idle" ELSE "down"
    /\ UNCHANGED <<toLoad, types, server, disk, cache, begun, left, floor, faults>>
-----------------------------------------------------------------------------
(* A submission *)

\* Mutant: it also asks when there is no submission.
TakeSubmissionMutant ==
    /\ pc = "idle"
    /\ pc' = "getTest"
    /\ UNCHANGED <<toLoad, types, server, disk, cache, begun, left, floor, faults>>

TakeSubmission ==
    /\ pc = "idle" /\ left > 0
    /\ pc' = "getTest"
    /\ UNCHANGED <<toLoad, types, server, disk, cache, begun, left, floor, faults>>

\* connect: a nullptr is answered by failSubmission.
With(entry) == IF entry = Null THEN "failing" ELSE "testing"

\* Mutant: the problem is synchronised for every submission.
EnsureTestExistsMutant ==
    /\ pc = "getTest"
    /\ IF cache # Unset THEN pc' = With(cache) /\ disk' = server
                        ELSE pc' = "syncing" /\ UNCHANGED disk
    /\ begun' = IF cache # Unset THEN begun ELSE server
    /\ UNCHANGED <<toLoad, types, server, cache, left, floor, faults>>

\* ensureTestExists up to its first await
EnsureTestExists ==
    /\ pc = "getTest"
    /\ pc' = IF cache # Unset THEN With(cache) ELSE "syncing"
    /\ begun' = IF cache # Unset THEN begun ELSE server
    /\ UNCHANGED <<toLoad, types, server, disk, cache, left, floor, faults>>

\* ensureTestExists after the synchronisation, with this problem.xml: no builder is
\* kept as a nullptr, as is a tree without "main"; an unknown builder and a test
\* that cannot be constructed throw, and nothing is kept.
BuildTest(v) ==
    IF HasBuilder(v) /\ (Packages[v].builder \notin types \/ ~Builds(v))
    THEN pc' = "down" /\ UNCHANGED cache
    ELSE /\ cache' = IF HasBuilder(v) /\ HasMain(v) THEN v ELSE Null
         /\ pc' = With(cache')

\* syncContent returns, with a version that was on the server meanwhile; an
\* upload that falls into the synchronisation may leave files of several.
Synced ==
    /\ pc = "syncing"
    /\ \E v \in begun..server :
          /\ disk' \in IF begun < server THEN {v, Mixed} ELSE {v}
          /\ BuildTest(v)
    /\ UNCHANGED <<toLoad, types, server, begun, left, floor, faults>>

\* syncContent throws, with some of the files exchanged.
SyncFails ==
    /\ Fault
    /\ pc = "syncing"
    /\ disk' \in {disk, Mixed}
    /\ pc' = "down"
    /\ UNCHANGED <<toLoad, types, server, cache, begun, left, floor>>

\* The test is run, or failSubmission; the answer is written.
Answer ==
    /\ pc \in {"testing", "failing"}
    /\ pc' = "idle"
    /\ left' = left - 1
    /\ UNCHANGED <<toLoad, types, server, disk, cache, begun, floor, faults>>

\* The test or the stream throws, or the process is killed.
Crash ==
    /\ Fault
    /\ pc # "down"
    /\ pc' = "down"
    /\ UNCHANGED <<toLoad, types, server, disk, cache, begun, left, floor>>

\* The author uploads the next version.
Upload ==
    /\ server < Len(Packages)
    /\ server' = server + 1
    /\ UNCHANGED <<pc, toLoad, types, disk, cache, begun, left, floor, faults>>
-----------------------------------------------------------------------------
StorageInit ==
    /\ pc = "down"
    /\ toLoad = {}
    /\ types = {}
    /\ server = 1
    /\ disk = 0
    /\ cache = Unset
    /\ begun = 1
    /\ left = Work
    /\ floor = 1
    /\ faults = 0

NodeStep ==
    \/ \E p \in Plugins : LoadPlugin(p)
    \/ CreateStub
    \/ TakeSubmission
    \/ EnsureTestExists
    \/ Synced
    \/ Answer

StorageNext ==
    \/ Start
    \/ NodeStep
    \/ \E p \in Plugins : LoadFails(p)
    \/ SyncFails
    \/ Crash
    \/ Upload

\* A process that runs goes on. Nothing in the code starts it again.
StorageSpec == StorageInit /\ [][StorageNext]_storageVars /\ WF_storageVars(NodeStep)
-----------------------------------------------------------------------------
\* Every variable has its type; the process of a node that works has its stub.
StorageTypeOK ==
    /\ pc \in {"down", "loading", "idle", "getTest", "syncing", "testing", "failing"}
    /\ toLoad \subseteq Plugins
    /\ types \subseteq UNION {Provides[p] : p \in Plugins}
    /\ server \in 1..Len(Packages)
    /\ disk \in {Mixed} \cup 0..Len(Packages)
    /\ cache \in {Unset, Null} \cup 1..Len(Packages)
    /\ begun \in 1..server
    /\ left \in 0..Work
    /\ floor \in 1..server
    /\ faults \in 0..MaxFaults

\* What the cache holds, the node's files say, and the server has had since the
\* process started, whatever is uploaded later, however synchronisation fails and
\* the process is restarted: a submission is tested with the files its test tree
\* was built from, "Test not found" is remembered only for a version that has no
\* test, and a restart brings a corrected problem to the node (only that does, as
\* the cache has no expiry). The exception is an upload during the very
\* synchronisation, whose mixture of files then stays until the restart
\* (TestStorage::ensureTestExists).
CacheMatchesFiles ==
    cache # Unset =>
        /\ cache # Null => cache >= floor
        /\ IF disk = Mixed THEN begun < server
           ELSE /\ disk >= floor
                /\ cache = IF HasBuilder(disk) /\ HasMain(disk) THEN disk ELSE Null

\* A problem whose test tree cannot be built takes down each node it is sent to;
\* once the last version, which can be built, is on the server, every submission
\* is answered, if only the operator starts a node that is down again.
EventuallyAnswered ==
    []<>(pc # "down") => (server = Len(Packages) ~> left = 0)
=============================================================================
