# A TLA+ model of oink-judge

oink-judge is an online judge: a web application takes submissions, a
dispatcher hands them to test nodes, the nodes run the tests in a sandbox and
write verdicts into PostgreSQL, and a content service keeps problems and
submissions in step between machines; accounts live in PostgreSQL and Redis.
The C++ servers are single-threaded asio/gRPC coroutine programs, so all of their concurrency is interleaving at
`co_await` (`run()` on one context: `dispatcher/src/server_starter.cpp`,
`test_node/src/test_node_starter.cpp`, `content_service/src/server_starter.cpp`);
between processes there is gRPC, the shared table and the file system.

Every action in these modules is one stretch of a coroutine between two
suspensions, or one event of the environment (a broken stream, a crash, a
statement that fails, a second that passes). Paths below are relative to
`src/`; PROJECT.json maps each definition to its lines.

## 1. Inventory

| Component | State it keeps | Operations | What makes it correct |
|---|---|---|---|
| Dispatcher: `TestingQueue`, `QueueManagerService`, `Invoker` | the queue of submissions, the connected invokers with `busy_with`, a channel of capacity 2 per invoker | `pushSubmission`, `connectInvoker`, `freeInvoker`, `disconnectInvoker`, the read and write loop of each Connect stream | no submission is lost or held twice, lookups by id succeed, no channel overflows, new work never waits beside an idle invoker, everything is tested in the end |
| Dispatcher: `handleSubmissionHandler` | the coroutine of each request | look up the problem, sync the problem's content, push | NOT_FOUND only for absent submissions; what it takes is judged |
| Test node: `QueueManagerServiceStub::connect` | the submission in hand | read a request, find the test, run it, write the verdict, answer | a verdict is written whatever happens to the test; score and verdict agree |
| Test node: tests and verdict builders | one builder per problem reused by every run, two sandbox boxes, report files at fixed paths | compile, run and check each test, skip, clean up | the verdict is that of this run's tests |
| Database: `ConnectionPool`, `PooledConnection`, `StatementActionLog` | slots, their in-use marks, the log of prepared-statement blocks | `acquire`, `initialize`, release, `prepareStatements`, `unprepareStatements` | leases are exclusive and synchronised, slots do not leak, `acquire` returns |
| Database: `LibpqConnection` | an execution flag with its queue of waiters, the replay cursor | queries, `quote`, `syncStatements` | one command at a time, in order, each log action replayed once |
| Test node: plugins, factories, `TestStorage`, problem builders | registered types, the `Test` tree of each problem, kept for the life of the process | load plugins, sync a problem, read `problem.xml`, build the tree | the kept test is the one of the files it runs on; a corrected problem is judged |
| Database: `TableSubmissions` | rows with verdict and score | insert, update, look up, list for a page | what a page shows as final is final; rows say what the tests said |
| Content service: server and client | a directory tree and `manifest.json` per replica, time of the last full scan | download, upload, create; the server's handlers | a finished copy leaves equal replicas, manifests do not lie, nothing is overwritten by `createFile` |
| Web application: submit | the coroutine of each request | insert the row, call the dispatcher, mark FAIL | as `handleSubmission` |
| Web application: auth | users, refresh tokens (PostgreSQL), sessions (Redis) | register, login, refresh, logout, me, delete account, each a row of single statements and Redis commands | a name is given away once, a deleted account gets nothing, deletion and logout end the sessions and tokens they are about |
| Awaitable bridge and the database's Python binding | the thread's current bridge and each bridge's previous one, an io_context per bridge, the Future of each call | `activate`, `deactivate`, `poll`, `async with`, calls of bound functions | nested blocks restore their outer one, a call in an open block is answered, a Future is released as often as it is owned |
| Logger, package converter, page routes | none that changes while serving | start-up, formatting, one-shot conversion | not modelled |

How they interact: `problem_submit` (Python) inserts the row, then calls the
dispatcher's HandleSubmission; the handler reads the table, syncs content, and
pushes into the `TestingQueue`; a stream handler's write loop sends the
submission to a node; the node syncs content, tests, writes score and verdict
into the same row, and answers on the stream, which frees its invoker. Every
process reaches the table through its own `ConnectionPool` of
`LibpqConnection`s.

Hard behaviours: streams that break between an assignment and its answer; nodes
that restart under their id; partitioned nodes that test on; two coroutines in
`acquire()` or `initialize()` at once; logs that grow while they are replayed;
manifests compared once and applied over many awaits; files torn by a crash;
builders, tests and files that outlive a run; problems corrected while
they are judged; tasks that share the thread's current bridge; a login that races with the deletion of
its account. PROJECT.json lists these as hazards, each at its line with the properties that watch it.

## 2. Modules

| Module | Models | Notes |
|---|---|---|
| `TestingQueue` | `dispatcher/src/testing_queue.cpp`, `queue_manager_service.cpp`, `invoker.cpp`; the node's `connect()` | A connection is one start of a test node process. `connected_invokers` keeps the vector's order, because `findInvokerIndexById` takes the first match. `OverlappingIds` says whether a node may come back before its old stream's end is noticed. |
| `Judging` | what the dispatcher promises | at-least-once judging; `TestingQueue` implements it (`ImplementsJudging`) |
| `ConnectionPool` | `database/src/connection_pool.cpp`, `pooled_connection.cpp`, the statement log | `pc` names the suspension a task is at; a slot carries the state of its connection (cursor, blocks, broken). |
| `LibpqConnection` | `database/src/libpq_connection.cpp` | Sending and reading a command are two stretches. `busy` is libpq's own "another command is already in progress", which a half-read error result leaves set. |
| `ContentSync` | `content_service/` server, client, scanner, manifest; `app/services/content_service/` | One content directory. A file is its data, modification time in seconds and permissions; the hash is the data. Torn files have the content `Cut`. The Python client (`app/services/content_service/`) awaits the same calls in the same order as the C++ one, so both take the same actions, some mapped to the one source and some to the other; they differ in `Received` and `Loaded`, the conversions the Python client makes. `plan` says what each task is to do and never changes; `todo` is the set of changes left to apply, whose order the manifests determine (`IsNext`). |
| `SubmissionLifecycle` | `problem_submit`, `problem_submissions`, `handleSubmissionHandler`, the node's loop, `TableSubmissions` | `page` and `shown` are a reader of the submissions page, which lists the submissions of `Mine`. Composes the others in reduced form: the queue is a set, testing its result, content sync success or failure. `faults` remembers the kinds of failures so far, so that each property says under which failures the code keeps it. |
| `TestRun` | `test_node/src/tests/`, `verdict_builders/` | `truth` records what this run's tests really gave. |
| `Auth` | `app/auth/`: `AuthService`, the two tables, `SessionStore`, the API's dependencies | A task is one request, a step one SQL statement or Redis command. `held` and `late` remember what clients held and whether the account was deleted when a request began. |
| `TestStorage` | `test_node_starter.cpp`, `plugin_manager/`, `type_factory.inl`, `test_storage.cpp`, the default problem builder, `problem_config_utils.cpp` | One node and one problem, whose versions (`Packages`) the author uploads one after the other. A version is what the builder reads of `problem.xml`: the builder's name and, per test, the types it creates and the tests it looks up. `Mixed` is a directory left by an upload or a failure within a synchronisation. |
| `AwaitableBridge` | `awaitable_support/`, the bound functions of `database/python_binding/binding.cpp` | A step is what one Python task does between two awaits. `Requests` are calls as the binding sees them: kind of function, types of parameters, keywords. `opened` and `nested` record in which order blocks were entered and left. |
| `*_proofs` | | lemmas and proofs, section 6 |
| `MC*` | | constants for TLC |

Abstractions to know about. The dispatcher's `Invoker` subclass hook
`canTestSubmission` is the constant relation `CanTest` (the base class takes
all). Submission ids, paths and file contents are model values. Payload
encoding, logging and HTML are left out. Requests to the content server are
well formed (its path validation is reduced to its existence checks). In
`SubmissionLifecycle` an idle node may be handed any waiting submission; the
order, and the requeued submission nobody is offered, are `TestingQueue`'s
subject. Names ending in `Mutant` (or saying what they break) are faulty
variants of the definition after them; they are in no specification and exist
to show that the properties notice such a bug.

## 3. Runs

| Run | Instance | Shows |
|---|---|---|
| `queue` | 3 connections of 2 ids (one node restarts), 2 submissions, a node that refuses one of them, every stream and node may fail, fairness | `NoSubmissionLost`, `OneHolder`, `LookupNeverFails`, `OneRequestInFlight`, `IdleOnlyBesideRequeued`; `TestedOrRequeued`: if one node stays connected, every accepted submission is tested or has been requeued; and that the queue implements `Judging` |
| `queue_overlap` (violation) | overlapping ids | a submission in progress vanishes |
| `pool` | 2 tasks with 3 acquires each, 1 block, `pool_min` = `pool_max` = 2, log of up to 2 actions, 2 failures, fairness | `SlotsBounded`, `InUseByOneOwner`, `LeaseIsSynced`, `AcquireReturns` |
| `libpq` | 2 queries, 2 syncs of different length, a quote; two of them may be rejected, fairness | `OneHolderWhileBusy`, `ReplayedOnceInOrder`, `CallsEnd` |
| `content` | a C++ and a Python client, 2 paths, 4 contents (1 ASCII) and 2 permissions; three plans: two downloads beside a Python upload, two uploads beside a creation, a Python download beside an upload and a creation; 1 crash, disconnect or edit | `ManifestHonest`, `CompletedMeansEqual`, `FailsOnlyWhenDisturbed` |
| `content_create_race` (violation) | the upload plan | two creations of one file both succeed |
| `life` | 2 submissions, one of them on the reader's page, 2 nodes, any 2 faults of 6 kinds, fairness | `ShownIsFinal`, `NothingTakenIsDropped`, `SettledRowIsRight`, `EventuallyJudged` |
| `testrun` | 3 tests, min builder, 2 submissions, unreliable sandbox and checker, fairness | `VerdictOfThisRun`, `RunEnds` |
| `testrun_sum` (violation) | sum builder | every test is skipped |
| `storage` | 2 plugins, 5 versions of a problem (no builder, `main` before what it uses, no `main`, a type of a plugin that may not load, a repeated name), 3 submissions, 2 faults, fairness | `CacheMatchesFiles`, `EventuallyAnswered` |
| `bridge` | 2 bridges, 2 calls of each kind of function with good and bad arguments, 1 suspension, fairness | `ChainIsNesting`, `RefsMatchOwners`, `AwaitedCallSettles` |
| `auth` | 4 requests on 1 account, 1 of them broken off anywhere, sessions, sets and tokens expiring at any time; requests are interchangeable (symmetry) | `RegisteredOnce`, `NothingForDeleted`, `DeleteEndsSessions`, `LogoutEnds` |

Every passing run but `pool` also checks its module's `TypeOK` (`StorageTypeOK`
in `TestStorage`); the pool's is proved (`PoolTypes`).

Why these bounds are enough for the cases that matter. Queue: a restart under
one id beside another node, a submission requeued while another waits, an
invoker that cannot take the head of the queue; two submissions suffice for
every order of two, and the proofs of section 6 remove the bound. Pool: two
tasks race through an `initialize()` of two slots, and two failures may hit any
connect or replay, part way too, or the lease holder's own statement; they reach
the bound on the slots, and after a leak a task waits for the other's slot. The
log grows during a replay. Section 6 proves the safety properties for all sizes.
That acquires are finitely many keeps newcomers from taking each freed slot
before a waiting task's timer: `waitForAvailableSlot` has no queue and promises
no more. Libpq: five callers give every position in the waiter
queue. Content: two paths give every pair of added, modified, removed and
permission-only changes; one event at any point of three interleaved jobs gives
the torn file, the orphaned request and the edit under a running copy; one
`Tick` beside the writes' own seconds lets the rescan interval elapse or not.
Lifecycle: two faults give the pairs that hurt, such as a partition followed by
the death of the successor or of the dispatcher; submissions meet only in the
queue and at a node, so two suffice. Storage: each version differs from a right
one in one way, three submissions reach an empty cache, a filled one and one
emptied by a restart. Bridge: two bridges nest, overlap in both orders and reuse
each other; calls meet only in a poll. Test run: two submissions give what one leaves to
the next; three tests a first, a middle and a last. Auth: accounts do not touch
each other, so one suffices; four requests give a login, a refresh of its
token, a deletion, and one more that races with all of them.

`CHECK_DEADLOCK FALSE` is set because every instance has finitely many requests
and stops when they are served.

The pool's and the lifecycle's properties are conditional where the code's
promise is: see section 5.

## 4. Fairness

Weak fairness of each coroutine's next step: asio resumes every ready
coroutine, gRPC delivers or fails every call, timers fire, PostgreSQL answers
or fails. In `TestingQueue` failures are not fair, and
neither is the start of nodes: `TestedOrRequeued` speaks of behaviours in which
some node that can test the submission stays connected from some time on; in `ConnectionPool` lease holders
give their lease back, which is a destructor; in `SubmissionLifecycle` no fault
is fair; a waiting submission is handed to an idle node, which holds for pushed
submissions (`TestedOrRequeued`) and is just what fails for requeued ones.
`TestRun` assumes only that the node goes on. `TestStorage` assumes that a
process that runs goes on and that `syncContent` ends; uploads, faults and the
start of a process are not fair, as `run_oink_judge.sh` starts a node once, and
`EventuallyAnswered` speaks of behaviours in which a node that is down is
started again. In `AwaitableBridge` the
asyncio loop keeps turning, so the driver of a block that is open polls again,
and what a coroutine waits for happens; Python owes neither the end of a block
nor a call. `Auth` has safety properties only.

## 5. What the code does not do

Found by the violation runs, and recorded as findings:

* `queue_overlap`: entries are found by node id, so a node that is back before
  its old stream ends has the wrong entry removed.
* `content_create_race`: `createFileHandler` checks, awaits, then stores.
* `testrun_sum`: `VerdictBuilderSum` stops before its first test.

Stated in the modules as definitions that do not hold, each with the property
that does hold beside it, and in no run:

* `RequeuedEventuallyTested` (`TestingQueue`): `disconnectInvoker` requeues
  without offering the submission to the invokers that are idle already
  (`testing_queue.cpp:42`), so it waits until somebody connects or is freed.
  `TestedOrRequeued` and `IdleOnlyBesideRequeued` hold.
* `NotFoundMeansAbsent` (`SubmissionLifecycle`): two first requests initialise
  `TableSubmissions` together; `prepareStatements` throws for the loser, which
  is told NOT_FOUND (`table_submissions.cpp:95`). Its row ends as FAIL
  (`SettledRowIsRight`).
* `CurrentIsAlive` (`AwaitableBridge`): blocks of two tasks that overlap instead
  of nesting bring back a destroyed bridge from `previous_`, and the `__aexit__`
  of the first to leave raises. `ChainIsNesting` holds for nested use.
* `DrainedOnDeactivate` (`AwaitableBridge`): `deactivate` says that it drains
  the remaining handlers (`awaitable_bridge.cpp:55`), but `stop()` and
  `restart()` neither run nor forget any; what is left is run by the next block
  of the same bridge.

Met while modelling, and visible in how a passing property is conditioned:

* `acquire()` checks the pool's size before it awaits the new connection:
  `pool_max` is exceeded by racing tasks. And an `initialize()` that throws keeps
  the slots it has created while `initialized_` stays false, so the next
  `acquire()` creates `pool_min` more (`connection_pool.cpp:64`). `SlotsBounded`
  is the bound kept; it is reached.
* If `syncStatements` throws in `acquire()`, the slot stays marked in use; once
  all are, `acquire()` polls for ever. That a slot in use has an owner
  (`InUseByOneOwner`) holds until something fails, and `AcquireReturns` as long
  as one slot has not leaked.
* The cached scan compares times in whole seconds: set `SameSecond = TRUE` and
  `ManifestHonest` fails.
* A broken HandleSubmission reply makes the application write FAIL for a
  submission the dispatcher has taken; FAIL may even come after the node's
  verdict. `SettledRowIsRight` therefore excludes RPC failures.
* The results of `setScore` and `setVerdictType` are ignored, so a failed
  UPDATE leaves the row in testing: `EventuallyJudged` excludes them.
* `SingleTest::run` ignores the outcome of `check.sh` and reads whatever report
  lies there: `VerdictOfThisRun` excludes tests whose report was lost.
* The Python client decodes files as latin-1 and the binding stores them as
  UTF-8 (`content_storage.py:81`, and the reverse at `:172`), so a file that is
  not ASCII is stored as something else, is reported as modified by the next
  sync, and a local one may not be convertible at all. `CompletedMeansEqual` and
  `FailsOnlyWhenDisturbed` are about ASCII contents there.
* `SessionStore.create` renews the life of the user's session set one command
  after it adds to it. If the set expires in between, `delete_account` does not
  find the session: with `IndexMayLapse = TRUE`, `DeleteEndsSessions` fails. A
  logout that breaks off between SREM and DEL leaves such a session too
  (`HalfLoggedOut`). Neither helps a deleted account: every use of a session
  looks at the role again (`NothingForDeleted`).
* Two refreshes with one token may both succeed (it is validated, then revoked
  after an await), and the loser of two racing registrations gets the primary
  key's error as a 500 instead of "Username already taken".
* The dispatcher's queue is in memory only: a crash of the dispatcher leaves
  its submissions in TS, and there is no recovery code. `NothingTakenIsDropped`
  says that only this and a failed UPDATE do.
* `TestStorage` keeps a test, and a nullptr, until the process ends: a corrected
  problem reaches a node that has judged it only with its restart
  (`CacheMatchesFiles`).
* An upload that falls into a node's synchronisation may leave files of several
  versions, which nothing repairs while the process lives: the exception in
  `CacheMatchesFiles`.
* A problem whose tree cannot be built ends the node's process, and its
  requeued submission the next node's, until a version that can be built is
  uploaded: the premise of `EventuallyAnswered`.
* `awaitAndResolve` steals the coroutine's reference to the Future before
  `set_result` raises, and `setFutureException` steals it again: a cancelled
  call that returns, and a result without a Python value, lose a reference too
  many. `RefsMatchOwners` names the two cases.
* A reader's page sees score and verdict of two UPDATEs, and rows of nodes that
  test on behind a partition. What it shows is final while only nodes and their
  connections fail (`ShownIsFinal`); a FAIL after a broken reply, or an UPDATE
  that failed, may follow what was shown.

## 6. Proofs

`TestingQueue_proofs` proves, for every set of connections, ids, submissions
and every `CanTest`:

* `TypeCorrect`: `Spec => []TypeOK`, with overlapping ids allowed;
* under `OverlappingIds = FALSE` (stated in each theorem): `QueueInvariant`,
  and from it `NothingLost` (`NoSubmissionLost`), `HeldOnce` (`OneHolder`),
  `LookupSucceeds` (`LookupNeverFails`), `NeverTwoRequests`
  (`OneRequestInFlight`).

None of the last four is inductive. That a disconnect requeues the right
submission needs the entry found by id to be the connection's own: `Registered`
(entries and running handlers correspond one to one) and `OneConnPerId` (two
live connections never share an id). That an answer frees an invoker whose
submission is really tested needs `RequestTracked`: the one request of an
invoker is in its channel, on the stream, at the node or answered, at only one
of these places, and it is the submission in `busy_with`; `BeforeHandshake`
starts this off, `WorkingNodeHasSubmission` and `SentAreAccepted` keep the
node's and the queue's contents among the accepted submissions. `QueueInv` is
their conjunction with `TypeOK`, `NoSubmissionLost` and `OneHolder`; the proof
has one lemma per part with one case per action. `LookupSucceeds` and
`NeverTwoRequests` follow from it in one step. The assumptions used are
`QueueAssumption` and no more. The module begins with facts on `RemoveAt`-style
removal, `Append` and ranges of sequences.

Two more results of the same kind use `QueueInv`. `IdleOnlyBesideThoseRequeued`
(`IdleOnlyBesideRequeued`) looks at the two places where an invoker becomes idle
or a submission is queued: `tryInvoker` takes the first submission the invoker
can test, `trySubmission` the first invoker that can test the submission, so
each leaves nothing behind but what was requeued. `QueueImplementsJudging`
(`ImplementsJudging`) is the refinement of `Judging`. The lemma `Places` says
what a step of the queue does to the sets of queued and of assigned submissions:
one joins (`Joins`, which is `Accept`), an invoker takes the next one, with or
without having finished one that is tested (`HandedOut`: `Assign`, `Finish`),
one is put back (`PutBack`: `Return`), or all stay and perhaps a result is
stored (`Stays`: `StoreResult` or a stutter). That what an answer finishes is
tested and what a disconnect puts back is assigned to nobody else needs
`RequestTracked` and `OneHolder`.

`Auth_proofs` proves, for every set of tasks and users and any number of broken
requests, from `AuthAssumption` alone and with sets that may lapse:
`AuthTypeCorrect` (`TypeOK`), `AtMostOneRegisters` (`RegisteredOnce`),
`DeletedGetNothing` (`NothingForDeleted`) and `LogoutIsFinal` (`LogoutEnds`).
The inductive invariant `AuthInv` adds to the types what the statements a
request passes tell about the stores: it is on the route of its kind
(`RequestShape`), its cookies come from a finished login or refresh
(`CookiesIssued`, so no later `SET` or `INSERT` revives them), a late request
has not passed a look at the role (`LateIsStopped`), a registration that
inserted found no row (`OneRegisters`), a logout past its `DEL` left no session
(`LoggingOut`). All statements are first shown to be steps of one shape (`Goes`,
`KeepsRoles`, `KeepsDead`: one case per statement), and the invariant is then
kept by that shape.

`DeletionIsComplete` (`DeleteEndsSessions`) assumes `IndexMayLapse = FALSE`, as
it does not hold otherwise (section 5). Its invariant `DeleteInv` follows a
session from the `SADD` of its login to the `SMEMBERS` of a deletion: a session
that a client holds while the account lives is in its user's set and the set
outlives it (`Entered`, `Findable`), a deletion that has read the set has it
among those it will delete (`FoundAll`), and it marks the account, revokes the
tokens and deletes the sessions in this order (`DeletedFirst`, `TokensRevoked`).

`LibpqConnection_proofs` proves `LibpqTypeCorrect` (`TypeOK`),
`OneHolderAtATime` (`OneHolderWhileBusy`) and `ReplayIsOrdered`
(`ReplayedOnceInOrder`) for any callers, kinds of calls and logs. The invariant
`LibpqInv` says who asked for the connection, in order: those served, the one
woken and not yet resumed, the waiters (`Ordered`); each waiter waits once and
only while somebody holds the connection (`Waiting`, `Held`); and libpq is busy
for the holder's command or because one was rejected (`Refusing`), from which
it follows that concurrency alone has no call refused. A stretch of the holder
is one lemma (`QueueStepKeeps`), from the view in which the holder is alone and
the served and the waiting are all who asked (`Alone`, `Base`).

`ConnectionPool_proofs` proves `LeasesAreExclusive` (`InUseByOneOwner`) and
`LeasesAreSynced` (`LeaseIsSynced`) for any tasks, blocks, pool sizes, faults
and logs. `PoolInv` says of the slots (`View`) that each has replayed a prefix of
the log and has the blocks in force after it (`Good`), that a task has a slot
just while it syncs or uses it (`Owns`) and is behind its copy of the log while
it syncs (`Sync`); a connection that `createSlot` builds is behind its copy too
(`Building`), and no slot has two owners (`Unshared`). `View` takes the slots as
a parameter, as `acquire()` appends a slot and takes one in the same stretch.
`InForceStep` and `InForcePrefix` are what one more action means for the blocks
in force.

`PoolSizeBounded` (`SlotsBounded`) and `PoolTypes` (`TypeOK`) rest on `SizeInv`,
which counts the slots that exist together with those the tasks in
`createSlot()` have still to create (`Pending`, a set with one element for each,
so that the library's facts on cardinality apply). Until the pool is initialised
every slot comes from an `initialize()`, whose task accounts for `pool_min` and
each of whose failures leaves at most `pool_min - 1`; from then on a task sets out to
create a slot only when it sees fewer than `pool_max`, whatever the others have
under way. The first half is what a bound on the slots alone misses. An earlier,
smaller bound did not survive the attempt to prove it: it had forgotten the
slots of failed initializations.

`AwaitableBridge_proofs` proves `RefsAreOwners` (`RefsMatchOwners`) and
`BridgeTypesCorrect` (`TypeOK`) for any bridges, calls and overlaps of blocks.
`FuturesFollow` is what makes the first inductive: what the state of a coroutine
says about its Future. `NestedBlocksChain` (`ChainIsNesting`) adds that the open
blocks are on different bridges (`Once`), that each bridge's `previous_` is the
block below (`Linked`), and that a bridge without a block has given back its
loop and its `previous_` (`Clean`), so that it can be entered again.

`SubmissionLifecycle_proofs` proves `LifecycleTypes` (`TypeOK`),
`TakenIsNotDropped` (`NothingTakenIsDropped`), `SettledIsRight`
(`SettledRowIsRight`) and `ShownStays` (`ShownIsFinal`) for any submissions,
nodes and faults, from `LifecycleAssumption`. `LifeInv` says who still owes a row
its verdict, under the faults each statement can bear: only what a handler
queued is in the queue or at a node (`Owned`); until the dispatcher is lost it
holds what it took until it is answered (`Answered`); until a statement fails a
row in testing belongs to its request or to the dispatcher (`InTesting`,
`TestingHeld`); and while only nodes and streams fail, the row keeps step with
the request, the handler and every node at once, and with what the page has
shown (`QuietRows`): all who write a row of a queued submission write the same,
in the order score, verdict, so a second tester changes nothing.

`TestNode_proofs` proves `RunTypes` (`TypeOK`) and `VerdictIsOfThisRun`
(`VerdictOfThisRun`) of `TestRun` for any number of tests and submissions.
`RunInv` relates the builder's current verdict to what this run's tests gave so
far (`DecidedSoFar`): full marks while all pass, no way back after a failure,
since the min builder keeps the lower score and a skipped test mends nothing.
`Testset::run` clears the builder first, so what the run before it left has no
part in this. Of `TestStorage` it proves `StorageTypeCorrect` (`StorageTypeOK`)
and `CacheIsOfItsFiles` (`CacheMatchesFiles`) from `StorageAssumption`, for any
problem, plugins and faults. What makes it inductive is `SyncingIsFirst`: files
change only while nothing is kept, and a synchronisation began after the process
did. (The module extends both, which is why the names of `TestStorage`'s
specification begin with `Storage`.)

`ContentSync_proofs` is about any clients, C++ and Python, any paths, contents
and coroutines, and any number of crashes, lost connections, cut files and
edits. `SyncTypes` (`TypeOK`) holds whatever the clock does. The others assume
`SameSecond = FALSE` (a file's modification time tells its versions apart), as
the cached scan itself does (section 5): `CachedScanIsHonest`
(`ManifestHonest`), `CompletedCopiesAreEqual` (`CompletedMeansEqual`) and
`OnlyTheDisturbedFail` (`FailsOnlyWhenDisturbed`). Two more follow from the same
invariant: `CachedScanIsFullScan`, that at any moment the cached scan of a
replica would find what hashing every file finds, and
`OnlyTheDisturbedOverwrite`, that what an undisturbed upload creates is still
missing when it is stored, which bounds what `content_create_race` shows.

The inductive invariant `SyncInv` has three parts.

* `Typed` and `Shaped`. `Awaits` says by a task's `pc` which call it awaits, at
  which stage, and that the call's path is among the changes it has still to
  apply. It holds of lost tasks too, whose requests the server may still carry
  out.
* `Honest`: `ManifestHonest`, and nothing is of the future (`NotOfTheFuture`). A
  write gives a file a time that no entry has, so the entry cannot vouch for it;
  `ManifestHonest` alone does not say that an entry's time has passed.
* `Copies`: what an undisturbed task knows of both replicas. After `getManifest`
  it has a true picture of the server (`Knows`). A download leaves that as it is,
  and has made every path not in `todo` as the server's, while a path that only
  needs its permissions has the right content already (`Downloading`); the last is
  what lets several downloads write the same client without disturbing each
  other. An upload's picture of its own client stays true, and the server has what
  is done, what it had of the rest, and at the one path under way what the stage of
  the call says (`Uploading`, `UploadsAt`).

The steps of other tasks either touch nothing an undisturbed task looks at
(`Spared`) or disturb it; `CopyStep` and `WorldStep` reduce each action to this
and to what it does to its own task. `DownloadStretch` and `UploadStretch` are
about the loops between two `co_await`s: what a stretch applies on the way, and
the call it ends with.

Only model-checked: all liveness (`TestedOrRequeued`, `AcquireReturns`,
`CallsEnd`, `EventuallyJudged`, `RunEnds`, `EventuallyAnswered`,
`AwaitedCallSettles`), since fairness is beyond the prover. Every invariant of a
passing run is proved.

## 7. Not modelled

Problem tables and aggregators (their only callers are commented out in
`sync_result_test.cpp`); the Polygon converter (a one-shot conversion of
files); the logger and the settings other than `problem.xml` (text, and
constants of the models); page rendering; the legacy auth client (one SQL
statement per call); `shared/utils/src/async.cpp`, which the build leaves out. Of the binding, the accessors of query results, rows and
fields, which only read; of the factories, the parser of parameterized names;
of `TableSubmissions`, the getters of single columns, which nothing but the
binding calls. The socket handling of `LibpqConnection`
(`rebindSocketIfNeeded`, which compares descriptor numbers) needs a model of
the kernel's descriptors and is left out.

## 8. Plan

What a next step could add: the problem tables, should their callers come back;
`rebindSocketIfNeeded` with the kernel's reuse of descriptors; and a proof of
`TestedOrRequeued` and `EventuallyAnswered` by a prover that handles fairness.
