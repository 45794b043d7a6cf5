---------------------------- MODULE TestingQueue ----------------------------
(***************************************************************************)
(* The dispatcher's TestingQueue together with the Connect streams of      *)
(* QueueManagerService that drive it and the test nodes at the other end.  *)
(*                                                                         *)
(* The dispatcher runs one grpc_ctx.run() thread, so a handler is atomic   *)
(* between two co_awaits: one action here is one such stretch of code.     *)
(* A connection c \in Conns is one incarnation of a test node process (the *)
(* process calls connect() once and exits when it returns); IdOf[c] is the *)
(* node id that incarnation is configured with and sends in its handshake. *)
(***************************************************************************)
EXTENDS Naturals, Sequences, FiniteSets, SequencesExt

CONSTANTS Submissions,   \* submission ids
          Conns,         \* connections: one per test node process start
          NodeIds,       \* configured node ids
          IdOf,          \* the node id each connection announces
          CanTest,       \* pairs <<node id, submission>>: canTestSubmission
          OverlappingIds \* may a node start while the dispatcher still serves
                         \* an older connection with the same node id?

None == "none"

ASSUME QueueAssumption ==
    /\ IdOf \in [Conns -> NodeIds]
    /\ CanTest \subseteq NodeIds \X Submissions
    /\ OverlappingIds \in BOOLEAN
    /\ None \notin Submissions

VARIABLES submission_queue,    \* TestingQueue::submission_queue_
          connected_invokers,  \* TestingQueue::connected_invokers_
          channel,             \* per Invoker: sends not yet received
          handler,             \* connectHandler's progress per connection
          link,                \* the bidirectional stream
          up, down,            \* messages in the stream, to and from the server
          node, node_sub,      \* the test node's connect() loop
          accepted,            \* submissions pushSubmission was called for
          tested,              \* submissions whose result a node has stored
          requeued             \* submissions disconnectInvoker ever put back

dispatcherVars == <<submission_queue, connected_invokers, channel>>
nodeVars == <<node, node_sub>>
historyVars == <<accepted, tested, requeued>>
vars == <<submission_queue, connected_invokers, channel, handler, link, up,
          down, node, node_sub, accepted, tested, requeued>>

(***************************************************************************)
(* TestingQueue.                                                           *)
(***************************************************************************)

First(i, S) == i \in S /\ \A j \in S : i <= j

\* findInvokerIndexById returns the first of these; ids need not be unique.
EntriesOf(invokers, id) == {k \in DOMAIN invokers : IdOf[invokers[k].conn] = id}

CanTestSubmission(c, s) == <<IdOf[c], s>> \in CanTest

\* The queue positions tryInvoker's loop would stop at.
Testable(c) ==
    {i \in DOMAIN submission_queue : CanTestSubmission(c, submission_queue[i])}

\* Mutant: busy_with.empty() is not asked.
IdleForMutant(s) ==
    {k \in DOMAIN connected_invokers : CanTestSubmission(connected_invokers[k].conn, s)}

\* The entries trySubmission's loop would stop at.
IdleFor(s) ==
    {k \in DOMAIN connected_invokers :
        /\ connected_invokers[k].busy = None
        /\ CanTestSubmission(connected_invokers[k].conn, s)}

SendSubmissionForTesting(s, c, invokers) ==
    /\ \E k \in DOMAIN invokers :
          /\ First(k, EntriesOf(invokers, IdOf[c]))
          /\ connected_invokers' = [invokers EXCEPT ![k].busy = s]
    /\ channel' = [channel EXCEPT ![c] = Append(@, s)]

\* Mutant: the submission sent is not erased from the queue.
TryInvokerMutant(c, invokers) ==
    \E i \in DOMAIN submission_queue :
        /\ First(i, Testable(c))
        /\ SendSubmissionForTesting(submission_queue[i], c, invokers)
        /\ UNCHANGED submission_queue

\* tryInvoker returning true ...
TryInvoker(c, invokers) ==
    \E i \in DOMAIN submission_queue :
        /\ First(i, Testable(c))
        /\ SendSubmissionForTesting(submission_queue[i], c, invokers)
        /\ submission_queue' = RemoveAt(submission_queue, i)

\* ... and false.
TryInvokerFails(c) == Testable(c) = {}

TrySubmission(s) ==
    \E k \in DOMAIN connected_invokers :
        /\ First(k, IdleFor(s))
        /\ SendSubmissionForTesting(s, connected_invokers[k].conn, connected_invokers)
        /\ UNCHANGED submission_queue

\* Mutant: a freed invoker is not offered the queue.
FreeInvokerMutant(id) ==
    \E k \in DOMAIN connected_invokers :
        /\ First(k, EntriesOf(connected_invokers, id))
        /\ connected_invokers' = [connected_invokers EXCEPT ![k].busy = None]
        /\ UNCHANGED <<submission_queue, channel>>

FreeInvoker(id) ==
    \E k \in DOMAIN connected_invokers :
        /\ First(k, EntriesOf(connected_invokers, id))
        /\ \/ TryInvoker(connected_invokers[k].conn, connected_invokers)
           \/ /\ TryInvokerFails(connected_invokers[k].conn)
              /\ connected_invokers' = [connected_invokers EXCEPT ![k].busy = None]
              /\ UNCHANGED <<submission_queue, channel>>

\* Mutant: a new invoker is not offered the queue.
ConnectInvokerMutant(c) ==
    /\ connected_invokers' = Append(connected_invokers, [conn |-> c, busy |-> None])
    /\ UNCHANGED <<submission_queue, channel>>

ConnectInvoker(c) ==
    LET invokers == Append(connected_invokers, [conn |-> c, busy |-> None])
    IN  \/ TryInvoker(c, invokers)
        \/ /\ TryInvokerFails(c)
           /\ connected_invokers' = invokers
           /\ UNCHANGED <<submission_queue, channel>>

\* Mutants: the submission in progress is dropped; the queue gets an empty id;
\* the first entry is erased, whoever it belongs to.
DisconnectInvokerDrops(id) ==
    \E k \in DOMAIN connected_invokers :
        /\ First(k, EntriesOf(connected_invokers, id))
        /\ connected_invokers' = RemoveAt(connected_invokers, k)
        /\ UNCHANGED <<submission_queue, requeued>>

DisconnectInvokerUnchecked(id) ==
    \E k \in DOMAIN connected_invokers :
        /\ First(k, EntriesOf(connected_invokers, id))
        /\ connected_invokers' = RemoveAt(connected_invokers, k)
        /\ submission_queue' = <<connected_invokers[k].busy>> \o submission_queue
        /\ requeued' = requeued \cup {connected_invokers[k].busy}

DisconnectInvokerWrongEntry(id) ==
    \E k \in DOMAIN connected_invokers :
        /\ k = 1
        /\ connected_invokers' = RemoveAt(connected_invokers, k)
        /\ IF connected_invokers[k].busy # None
           THEN /\ submission_queue' = <<connected_invokers[k].busy>> \o submission_queue
                /\ requeued' = requeued \cup {connected_invokers[k].busy}
           ELSE UNCHANGED <<submission_queue, requeued>>

DisconnectInvoker(id) ==
    \E k \in DOMAIN connected_invokers :
        /\ First(k, EntriesOf(connected_invokers, id))
        /\ connected_invokers' = RemoveAt(connected_invokers, k)
        /\ IF connected_invokers[k].busy # None
           THEN /\ submission_queue' = <<connected_invokers[k].busy>> \o submission_queue
                /\ requeued' = requeued \cup {connected_invokers[k].busy}
           ELSE UNCHANGED <<submission_queue, requeued>>

PushSubmission(s) ==
    /\ s \notin accepted
    /\ accepted' = accepted \cup {s}
    /\ \/ TrySubmission(s)
       \/ /\ IdleFor(s) = {}
          /\ submission_queue' = Append(submission_queue, s)
          /\ UNCHANGED <<connected_invokers, channel>>
    /\ UNCHANGED <<handler, link, up, down, nodeVars, tested, requeued>>

(***************************************************************************)
(* QueueManagerService: connectHandler and its two loops.                  *)
(***************************************************************************)

\* The handshake arrives; the invoker is registered and both loops start.
ConnectHandler(c) ==
    /\ handler[c] = "none"
    /\ up[c] # <<>>
    /\ up' = [up EXCEPT ![c] = Tail(@)]
    /\ handler' = [handler EXCEPT ![c] = "serving"]
    /\ ConnectInvoker(c)
    /\ UNCHANGED <<link, down, nodeVars, historyVars>>

\* The read of the handshake fails: INVALID_ARGUMENT, nothing registered.
RejectHandshake(c) ==
    /\ handler[c] = "none"
    /\ link[c] = "broken"
    /\ up[c] = <<>>
    /\ handler' = [handler EXCEPT ![c] = "closed"]
    /\ UNCHANGED <<dispatcherVars, link, up, down, nodeVars, historyVars>>

\* A TestSubmissionResponse: whatever the invoker was busy with is finished.
ReadLoop(c) ==
    /\ handler[c] = "serving"
    /\ up[c] # <<>>
    /\ up' = [up EXCEPT ![c] = Tail(@)]
    /\ FreeInvoker(IdOf[c])
    /\ UNCHANGED <<handler, link, down, nodeVars, historyVars>>

\* rpc.read fails: readLoop returns and wait_for_one cancels writeLoop. Until
\* connectHandler resumes the invoker is still registered.
ReadLoopFails(c) ==
    /\ handler[c] = "serving"
    /\ link[c] = "broken"
    /\ up[c] = <<>>
    /\ handler' = [handler EXCEPT ![c] = "closing"]
    /\ UNCHANGED <<dispatcherVars, link, up, down, nodeVars, historyVars>>

\* The result of rpc.write is ignored: a broken stream swallows the request.
WriteLoop(c) ==
    /\ handler[c] \in {"serving", "closing"}
    /\ channel[c] # <<>>
    /\ channel' = [channel EXCEPT ![c] = Tail(@)]
    /\ down' = IF link[c] = "up" THEN [down EXCEPT ![c] = Append(@, Head(channel[c]))]
                                 ELSE down
    /\ UNCHANGED <<submission_queue, connected_invokers, handler, link, up,
                   nodeVars, historyVars>>

\* Both loops have ended: connectHandler resumes.
Disconnect(c) ==
    /\ handler[c] = "closing"
    /\ handler' = [handler EXCEPT ![c] = "closed"]
    /\ DisconnectInvoker(IdOf[c])
    /\ UNCHANGED <<channel, link, up, down, nodeVars, accepted, tested>>

(***************************************************************************)
(* The test node's connect() loop, and the failures of node and stream.    *)
(***************************************************************************)

\* Nothing in the code keeps two live connections from announcing one id; with
\* OverlappingIds = FALSE the deployment does.
MayStart(c) ==
    OverlappingIds \/ \A d \in Conns \ {c} :
        IdOf[d] = IdOf[c] => node[d] = "off" \/ handler[d] = "closed"

NodeStart(c) ==
    /\ node[c] = "off"
    /\ MayStart(c)
    /\ node' = [node EXCEPT ![c] = "ready"]
    /\ link' = [link EXCEPT ![c] = "up"]
    /\ up' = [up EXCEPT ![c] = Append(@, "handshake")]
    /\ UNCHANGED <<dispatcherVars, handler, down, node_sub, historyVars>>

NodeRead(c) ==
    /\ node[c] = "ready"
    /\ down[c] # <<>>
    /\ node' = [node EXCEPT ![c] = "testing"]
    /\ node_sub' = [node_sub EXCEPT ![c] = Head(down[c])]
    /\ down' = [down EXCEPT ![c] = Tail(@)]
    /\ UNCHANGED <<dispatcherVars, handler, link, up, historyVars>>

\* Testing ends (failSubmission's early paths included): the result is stored.
NodeTest(c) ==
    /\ node[c] = "testing"
    /\ node' = [node EXCEPT ![c] = "responding"]
    /\ tested' = tested \cup {node_sub[c]}
    /\ UNCHANGED <<dispatcherVars, handler, link, up, down, node_sub, accepted, requeued>>

\* The result of rpc.write is ignored here too.
NodeRespond(c) ==
    /\ node[c] = "responding"
    /\ node' = [node EXCEPT ![c] = "ready"]
    /\ node_sub' = [node_sub EXCEPT ![c] = None]
    /\ up' = IF link[c] = "up" THEN [up EXCEPT ![c] = Append(@, "response")] ELSE up
    /\ UNCHANGED <<dispatcherVars, handler, link, down, historyVars>>

\* A read without a request: finish() and leave the loop for good.
NodeExit(c) ==
    /\ node[c] = "ready"
    /\ link[c] = "broken"
    /\ down[c] = <<>>
    /\ node' = [node EXCEPT ![c] = "gone"]
    /\ UNCHANGED <<dispatcherVars, handler, link, up, down, node_sub, historyVars>>

\* What is still readable after the stream broke: some prefix of each direction.
LosesSuffix(c) ==
    /\ \E i \in 0 .. Len(up[c]) : up' = [up EXCEPT ![c] = SubSeq(@, 1, i)]
    /\ \E i \in 0 .. Len(down[c]) : down' = [down EXCEPT ![c] = SubSeq(@, 1, i)]

\* The network drops the stream; the node goes on with what it is testing.
LinkBreak(c) ==
    /\ link[c] = "up"
    /\ link' = [link EXCEPT ![c] = "broken"]
    /\ LosesSuffix(c)
    /\ UNCHANGED <<dispatcherVars, handler, nodeVars, historyVars>>

\* The node process dies: an exception out of connect(), or a real crash.
NodeCrash(c) ==
    /\ node[c] \in {"ready", "testing", "responding"}
    /\ node' = [node EXCEPT ![c] = "gone"]
    /\ node_sub' = [node_sub EXCEPT ![c] = None]
    /\ link' = [link EXCEPT ![c] = "broken"]
    /\ LosesSuffix(c)
    /\ UNCHANGED <<dispatcherVars, handler, historyVars>>

-----------------------------------------------------------------------------

Init ==
    /\ submission_queue = <<>>
    /\ connected_invokers = <<>>
    /\ channel = [c \in Conns |-> <<>>]
    /\ handler = [c \in Conns |-> "none"]
    /\ link = [c \in Conns |-> "idle"]
    /\ up = [c \in Conns |-> <<>>]
    /\ down = [c \in Conns |-> <<>>]
    /\ node = [c \in Conns |-> "off"]
    /\ node_sub = [c \in Conns |-> None]
    /\ accepted = {}
    /\ tested = {}
    /\ requeued = {}

\* Steps that running code takes by itself.
Progress(c) ==
    \/ ConnectHandler(c) \/ RejectHandshake(c)
    \/ ReadLoop(c) \/ ReadLoopFails(c) \/ WriteLoop(c) \/ Disconnect(c)
    \/ NodeRead(c) \/ NodeTest(c) \/ NodeRespond(c) \/ NodeExit(c)

Next ==
    \/ \E s \in Submissions : PushSubmission(s)
    \/ \E c \in Conns : Progress(c) \/ NodeStart(c) \/ LinkBreak(c) \/ NodeCrash(c)

Spec == Init /\ [][Next]_vars

\* Every coroutine and every live node is scheduled; pushes, failures and the
\* starting of nodes are the environment's choice.
FairSpec ==
    /\ Spec
    /\ \A c \in Conns :
        /\ WF_vars(ConnectHandler(c)) /\ WF_vars(RejectHandshake(c))
        /\ WF_vars(ReadLoop(c) \/ ReadLoopFails(c))
        /\ WF_vars(WriteLoop(c)) /\ WF_vars(Disconnect(c))
        /\ WF_vars(NodeRead(c) \/ NodeExit(c))
        /\ WF_vars(NodeTest(c)) /\ WF_vars(NodeRespond(c))
-----------------------------------------------------------------------------
(* Properties.                                                             *)

Queued == ToSet(submission_queue)
Assigned == {connected_invokers[k].busy : k \in DOMAIN connected_invokers} \ {None}

\* Every variable of the queue, the handlers, the streams and the nodes holds a
\* value the code can put there.
TypeOK ==
    /\ submission_queue \in Seq(Submissions)
    /\ connected_invokers \in Seq([conn : Conns, busy : Submissions \cup {None}])
    /\ channel \in [Conns -> Seq(Submissions)]
    /\ handler \in [Conns -> {"none", "serving", "closing", "closed"}]
    /\ link \in [Conns -> {"idle", "up", "broken"}]
    /\ up \in [Conns -> Seq({"handshake", "response"})]
    /\ down \in [Conns -> Seq(Submissions)]
    /\ node \in [Conns -> {"off", "ready", "testing", "responding", "gone"}]
    /\ node_sub \in [Conns -> Submissions \cup {None}]
    /\ accepted \subseteq Submissions
    /\ tested \subseteq Submissions
    /\ requeued \subseteq Submissions

\* A submission that handleSubmission accepted is queued, recorded as some
\* invoker's busy_with, or its result is stored: no crash of a node, broken
\* stream, swallowed write or assignment to a dying invoker makes it vanish.
NoSubmissionLost == accepted \subseteq Queued \cup Assigned \cup tested

\* The queue and the busy_with fields together name a submission at most once:
\* requeueing on disconnect never leaves a second copy to be tested twice.
OneHolder ==
    /\ \A i, j \in DOMAIN submission_queue :
          submission_queue[i] = submission_queue[j] => i = j
    /\ \A k, l \in DOMAIN connected_invokers :
          connected_invokers[k].busy = connected_invokers[l].busy
             => k = l \/ connected_invokers[k].busy = None
    /\ Queued \cap Assigned = {}

\* freeInvoker and disconnectInvoker, called by a handler for the id of its own
\* connection, always find an entry: their "not found" exception, which would
\* escape from connectHandler, is never raised.
LookupNeverFails ==
    \A c \in Conns : handler[c] \in {"serving", "closing"}
                        => EntriesOf(connected_invokers, IdOf[c]) # {}

\* A served node has at most one request under way, from channel to response,
\* so a channel never reaches its capacity of 2, and any response is the
\* response to what the invoker is recorded as busy with.
OneRequestInFlight ==
    \A c \in Conns : handler[c] = "serving" =>
        Len(channel[c]) + Len(down[c]) + Len(up[c])
            + (IF node[c] \in {"testing", "responding"} THEN 1 ELSE 0) <= 1

\* trySubmission and tryInvoker never leave an invoker idle beside a queued
\* submission it can test, except one that disconnectInvoker put back: that one
\* is not offered to the invokers that are already idle.
IdleOnlyBesideRequeued ==
    \A i \in DOMAIN submission_queue :
        IdleFor(submission_queue[i]) # {} => submission_queue[i] \in requeued

\* Submissions still on their way to or at a node that may yet test them.
Travelling ==
    UNION {ToSet(channel[c]) : c \in {d \in Conns : handler[d] # "closed"}}
    \cup UNION {ToSet(down[c]) : c \in {d \in Conns : node[d] # "gone"}}
    \cup {node_sub[c] : c \in Conns}

\* The weakest form of the promise: a submission in progress when its invoker
\* disconnects is queued again, or at least someone still has it.
InProgressRequeued ==
    accepted \subseteq Queued \cup Assigned \cup tested \cup Travelling

\* From some time on c is connected for good and can test s.
StaysFor(c, s) ==
    <>[](handler[c] = "serving" /\ link[c] = "up" /\ CanTestSubmission(c, s))

\* If one node that can test it stays connected, every accepted submission is
\* eventually tested or has been put back by a disconnect.
TestedOrRequeued ==
    \A s \in Submissions, c \in Conns :
        StaysFor(c, s) => (s \in accepted ~> s \in tested \cup requeued)

\* The in-progress submission of a disconnected invoker is received by another
\* one and so tested in the end, if some node that can test it stays. This does
\* not hold: an invoker that is idle already is not offered it.
RequeuedEventuallyTested ==
    \A s \in Submissions, c \in Conns :
        StaysFor(c, s) => (s \in requeued ~> s \in tested)

\* What the dispatcher promises its clients, and how its state maps to it.
StatusOf(s) ==
    CASE s \in Queued   -> "pending"
      [] s \in Assigned \ Queued -> "assigned"
      [] s \in accepted \ (Queued \cup Assigned) -> "finished"
      [] OTHER -> "unknown"

Promise == INSTANCE Judging WITH
    status <- [s \in Submissions |-> StatusOf(s)]

\* The queue implements at-least-once judging: a submission is finished only
\* after a result is stored, and a finished one is never handed out again.
ImplementsJudging == Promise!Spec
-----------------------------------------------------------------------------
(* The inductive invariant behind the safety properties, in named parts.   *)
(* All but WorkingNodeHasSubmission and SentAreAccepted need ids not to    *)
(* overlap.                                                                *)

Working(c) == node[c] \in {"testing", "responding"}
Live(c) == node[c] # "off" /\ handler[c] # "closed"

WorkingNodeHasSubmission ==
    \A c \in Conns : Working(c) => node_sub[c] \in Submissions

\* The registered connections are those whose handler runs the two loops.
Registered ==
    /\ \A k, l \in DOMAIN connected_invokers :
          connected_invokers[k].conn = connected_invokers[l].conn => k = l
    /\ \A k \in DOMAIN connected_invokers :
          handler[connected_invokers[k].conn] \in {"serving", "closing"}
    /\ \A c \in Conns : handler[c] \in {"serving", "closing"} =>
          \E k \in DOMAIN connected_invokers : connected_invokers[k].conn = c

OneConnPerId ==
    \A c, d \in Conns : Live(c) /\ Live(d) /\ IdOf[c] = IdOf[d] => c = d

BeforeHandshake ==
    \A c \in Conns :
        /\ node[c] = "off" => handler[c] = "none" /\ link[c] = "idle" /\ up[c] = <<>>
        /\ handler[c] = "none" =>
              /\ channel[c] = <<>> /\ down[c] = <<>> /\ ~Working(c)
              /\ up[c] # <<>> => Len(up[c]) = 1

\* Where the one request of a registered invoker is, and that it is the
\* submission recorded in busy_with.
Tracks(c, b) ==
    /\ channel[c] # <<>> => Len(channel[c]) = 1 /\ channel[c][1] = b
    /\ down[c] # <<>> => Len(down[c]) = 1 /\ down[c][1] = b /\ channel[c] = <<>>
    /\ Working(c) => node_sub[c] = b /\ channel[c] = <<>> /\ down[c] = <<>>
    /\ node[c] = "responding" => b \in tested
    /\ up[c] # <<>> => /\ Len(up[c]) = 1 /\ b \in tested
                       /\ channel[c] = <<>> /\ down[c] = <<>> /\ ~Working(c)

RequestTracked ==
    \A k \in DOMAIN connected_invokers :
        Tracks(connected_invokers[k].conn, connected_invokers[k].busy)

SentAreAccepted ==
    /\ Queued \cup Assigned \subseteq accepted
    /\ \A c \in Conns : /\ channel[c] \in Seq(accepted) /\ down[c] \in Seq(accepted)
                        /\ Working(c) => node_sub[c] \in accepted

\* Each submission has one place, each invoker one request, and the handler of
\* each registered invoker knows both.
QueueInv ==
    /\ TypeOK /\ WorkingNodeHasSubmission /\ Registered /\ OneConnPerId
    /\ BeforeHandshake /\ RequestTracked /\ SentAreAccepted
    /\ NoSubmissionLost /\ OneHolder
=============================================================================
