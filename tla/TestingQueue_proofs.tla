------------------------ MODULE TestingQueue_proofs ------------------------
(* Type correctness, conservation of submissions and the refinement of     *)
(* Judging, for every number of submissions, nodes and connections.        *)
EXTENDS TestingQueue, SequenceTheorems, TLAPS
-----------------------------------------------------------------------------
(* What the sequence operations of the model do to length and elements. *)

\* erase(begin() + i) drops element i and moves the later ones up.
LEMMA RemoveAtElements ==
    ASSUME NEW S, NEW s \in Seq(S), NEW i \in DOMAIN s
    PROVE  /\ RemoveAt(s, i) \in Seq(S)
           /\ DOMAIN RemoveAt(s, i) = 1 .. (Len(s) - 1)
           /\ \A j \in 1 .. (Len(s) - 1) :
                 RemoveAt(s, i)[j] = IF j < i THEN s[j] ELSE s[j + 1]
<1> DEFINE a == SubSeq(s, 1, i - 1)
           b == SubSeq(s, i + 1, Len(s))
<1>1. i \in 1 .. Len(s) /\ Len(s) \in Nat
  OBVIOUS
<1>2. a \in Seq(S) /\ Len(a) = i - 1 /\ \A j \in 1 .. (i - 1) : a[j] = s[j]
  BY <1>1, SubSeqProperties
<1>3. b \in Seq(S) /\ Len(b) = Len(s) - i /\ \A j \in 1 .. (Len(s) - i) : b[j] = s[i + j]
  BY <1>1, SubSeqProperties
<1>4. RemoveAt(s, i) = a \o b
  BY DEF RemoveAt
<1> HIDE DEF a, b
<1>5. a \o b \in Seq(S) /\ Len(a \o b) = Len(s) - 1
  BY <1>1, <1>2, <1>3
<1>6. ASSUME NEW j \in 1 .. (Len(s) - 1)
      PROVE  (a \o b)[j] = IF j < i THEN s[j] ELSE s[j + 1]
  BY <1>1, <1>2, <1>3
<1>7. QED
  BY <1>1, <1>4, <1>5, <1>6

\* Every element of the shortened sequence is one of the others, and every
\* other element is still there.
LEMMA RemoveAtOthers ==
    ASSUME NEW S, NEW s \in Seq(S), NEW i \in DOMAIN s
    PROVE  /\ \A j \in DOMAIN RemoveAt(s, i) :
                 \E m \in DOMAIN s : m # i /\ RemoveAt(s, i)[j] = s[m]
           /\ \A m \in DOMAIN s : m # i =>
                 \E j \in DOMAIN RemoveAt(s, i) : RemoveAt(s, i)[j] = s[m]
<1> DEFINE r == RemoveAt(s, i)
<1>1. /\ DOMAIN r = 1 .. (Len(s) - 1)
      /\ \A j \in 1 .. (Len(s) - 1) : r[j] = IF j < i THEN s[j] ELSE s[j + 1]
  BY RemoveAtElements
<1>2. DOMAIN s = 1 .. Len(s) /\ Len(s) \in Nat
  OBVIOUS
<1> HIDE DEF r
<1>3. ASSUME NEW j \in DOMAIN r
      PROVE  \E m \in DOMAIN s : m # i /\ r[j] = s[m]
  <2>1. CASE j < i
    <3>1. j \in DOMAIN s /\ j # i /\ r[j] = s[j]
      BY <1>1, <1>2, <2>1
    <3> QED BY <3>1
  <2>2. CASE ~(j < i)
    <3>1. j + 1 \in DOMAIN s /\ j + 1 # i /\ r[j] = s[j + 1]
      BY <1>1, <1>2, <2>2
    <3> QED BY <3>1
  <2>3. QED BY <2>1, <2>2
<1>4. ASSUME NEW m \in DOMAIN s, m # i
      PROVE  \E j \in DOMAIN r : r[j] = s[m]
  <2>1. CASE m < i
    <3>1. m \in DOMAIN r /\ r[m] = s[m]
      BY <1>1, <1>2, <2>1
    <3> QED BY <3>1
  <2>2. CASE ~(m < i)
    <3>1. m - 1 \in DOMAIN r /\ r[m - 1] = s[m]
      BY <1>1, <1>2, <1>4, <2>2
    <3> QED BY <3>1
  <2>3. QED BY <2>1, <2>2
<1>5. QED
  BY <1>3, <1>4 DEF r

\* A sequence that names each of its elements once still does.
LEMMA RemoveAtInjective ==
    ASSUME NEW S, NEW s \in Seq(S), NEW i \in DOMAIN s,
           \A k, l \in DOMAIN s : s[k] = s[l] => k = l
    PROVE  /\ ToSet(RemoveAt(s, i)) = ToSet(s) \ {s[i]}
           /\ \A k, l \in DOMAIN RemoveAt(s, i) :
                 RemoveAt(s, i)[k] = RemoveAt(s, i)[l] => k = l
<1>1. ToSet(RemoveAt(s, i)) = ToSet(s) \ {s[i]}
  BY RemoveAtOthers DEF ToSet
<1>2. \A k, l \in DOMAIN RemoveAt(s, i) : RemoveAt(s, i)[k] = RemoveAt(s, i)[l] => k = l
  <2> DEFINE r == RemoveAt(s, i)
  <2>1. /\ DOMAIN r = 1 .. (Len(s) - 1)
        /\ \A j \in 1 .. (Len(s) - 1) : r[j] = IF j < i THEN s[j] ELSE s[j + 1]
    BY RemoveAtElements
  <2>2. DOMAIN s = 1 .. Len(s) /\ Len(s) \in Nat
    OBVIOUS
  <2> HIDE DEF r
  <2>3. ASSUME NEW k \in DOMAIN r, NEW l \in DOMAIN r, r[k] = r[l]
        PROVE  k = l
    <3> DEFINE At(j) == IF j < i THEN j ELSE j + 1
    <3>1. At(k) \in DOMAIN s /\ At(l) \in DOMAIN s /\ s[At(k)] = s[At(l)]
      BY <2>1, <2>2, <2>3
    <3>2. At(k) = At(l)
      BY <3>1
    <3> QED BY <2>1, <2>2, <3>2
  <2>4. QED
    BY <2>3 DEF r
<1>3. QED
  BY <1>1, <1>2

\* push_back.
LEMMA AppendElements ==
    ASSUME NEW S, NEW s \in Seq(S), NEW e \in S
    PROVE  /\ Append(s, e) \in Seq(S)
           /\ DOMAIN Append(s, e) = 1 .. (Len(s) + 1)
           /\ \A j \in 1 .. Len(s) : Append(s, e)[j] = s[j]
           /\ Append(s, e)[Len(s) + 1] = e
           /\ ToSet(Append(s, e)) = ToSet(s) \cup {e}
BY DEF ToSet

\* insert(begin(), e).
LEMMA ConsElements ==
    ASSUME NEW S, NEW s \in Seq(S), NEW e \in S
    PROVE  /\ <<e>> \o s \in Seq(S)
           /\ DOMAIN (<<e>> \o s) = 1 .. (Len(s) + 1)
           /\ (<<e>> \o s)[1] = e
           /\ \A j \in 1 .. Len(s) : (<<e>> \o s)[j + 1] = s[j]
           /\ ToSet(<<e>> \o s) = ToSet(s) \cup {e}
<1>1. /\ <<e>> \o s \in Seq(S)
      /\ DOMAIN (<<e>> \o s) = 1 .. (Len(s) + 1)
      /\ (<<e>> \o s)[1] = e
      /\ \A j \in 1 .. Len(s) : (<<e>> \o s)[j + 1] = s[j]
  OBVIOUS
<1>2. \A j \in 2 .. (Len(s) + 1) : (<<e>> \o s)[j] = s[j - 1] /\ j - 1 \in DOMAIN s
  BY <1>1
<1>3. ToSet(<<e>> \o s) = ToSet(s) \cup {e}
  <2>1. ASSUME NEW j \in DOMAIN (<<e>> \o s)
        PROVE  (<<e>> \o s)[j] \in ToSet(s) \cup {e}
    BY <1>1, <1>2 DEF ToSet
  <2>2. ASSUME NEW j \in DOMAIN s
        PROVE  s[j] \in ToSet(<<e>> \o s)
    <3>1. j + 1 \in DOMAIN (<<e>> \o s) /\ (<<e>> \o s)[j + 1] = s[j]
      BY <1>1
    <3> QED BY <3>1 DEF ToSet
  <2>3. e \in ToSet(<<e>> \o s)
    BY <1>1 DEF ToSet
  <2>4. QED
    BY <2>1, <2>2, <2>3 DEF ToSet
<1>4. QED
  BY <1>1, <1>3

\* A sequence of one element.
LEMMA OneElement ==
    ASSUME NEW S, NEW q \in Seq(S), Len(q) = 1
    PROVE  Head(q) = q[1] /\ Tail(q) = <<>>
<1>1. Tail(q) \in Seq(S) /\ Len(Tail(q)) = 0
  BY q # <<>>, HeadTailProperties
<1>2. Tail(q) = <<>>
  BY <1>1, EmptySeq
<1>3. Head(q) = q[1]
  OBVIOUS
<1>4. QED
  BY <1>2, <1>3

\* The one request appended to an empty channel.
LEMMA AppendToEmpty ==
    ASSUME NEW S, NEW x \in S
    PROVE  /\ Append(<<>>, x) = <<x>> /\ <<x>> \in Seq(S)
           /\ Len(<<x>>) = 1 /\ <<x>>[1] = x
OBVIOUS
-----------------------------------------------------------------------------
(* Invariants *)

Entry == [conn : Conns, busy : Submissions \cup {None}]

\* Entries of a sequence of entries, also after busy_with was assigned.
LEMMA EntryType ==
    ASSUME NEW invokers \in Seq(Entry), NEW k \in DOMAIN invokers,
           NEW b \in Submissions \cup {None}
    PROVE  /\ invokers[k].conn \in Conns
           /\ invokers[k].busy \in Submissions \cup {None}
           /\ [invokers EXCEPT ![k].busy = b] \in Seq(Entry)
           /\ DOMAIN [invokers EXCEPT ![k].busy = b] = DOMAIN invokers
           /\ \A j \in DOMAIN invokers :
                 /\ [invokers EXCEPT ![k].busy = b][j].conn = invokers[j].conn
                 /\ [invokers EXCEPT ![k].busy = b][j].busy =
                       IF j = k THEN b ELSE invokers[j].busy
<1>1. k \in 1 .. Len(invokers) /\ invokers[k] \in Entry
  BY ElementOfSeq
<1>2. [invokers[k] EXCEPT !.busy = b] \in Entry
  BY <1>1 DEF Entry
<1>3. [invokers EXCEPT ![k].busy = b] = [invokers EXCEPT ![k] = [invokers[k] EXCEPT !.busy = b]]
  OBVIOUS
<1>4. [invokers EXCEPT ![k].busy = b] \in Seq(Entry)
  BY <1>1, <1>2, <1>3, ExceptSeq
<1>5. \A j \in DOMAIN invokers : invokers[j] \in Entry
  BY ElementOfSeq
<1>6. QED
  BY <1>1, <1>4, <1>5 DEF Entry

\* What a send does to the types.
LEMMA SendType ==
    ASSUME TypeOK, NEW s \in Submissions, NEW c \in Conns, NEW invokers \in Seq(Entry),
           SendSubmissionForTesting(s, c, invokers)
    PROVE  /\ connected_invokers' \in Seq(Entry)
           /\ channel' \in [Conns -> Seq(Submissions)]
<1>1. PICK k \in DOMAIN invokers : connected_invokers' = [invokers EXCEPT ![k].busy = s]
  BY DEF SendSubmissionForTesting
<1>3. connected_invokers' \in Seq(Entry)
  BY <1>1, EntryType
<1>4. channel' \in [Conns -> Seq(Submissions)]
  BY DEF SendSubmissionForTesting, TypeOK
<1>5. QED
  BY <1>3, <1>4

LEMMA TryInvokerType ==
    ASSUME TypeOK, NEW c \in Conns, NEW invokers \in Seq(Entry), TryInvoker(c, invokers)
    PROVE  /\ submission_queue' \in Seq(Submissions)
           /\ connected_invokers' \in Seq(Entry)
           /\ channel' \in [Conns -> Seq(Submissions)]
<1>1. PICK i \in DOMAIN submission_queue :
         /\ SendSubmissionForTesting(submission_queue[i], c, invokers)
         /\ submission_queue' = RemoveAt(submission_queue, i)
  BY DEF TryInvoker
<1>2. submission_queue[i] \in Submissions /\ submission_queue \in Seq(Submissions)
  BY DEF TypeOK
<1>3. submission_queue' \in Seq(Submissions)
  BY <1>1, <1>2, RemoveAtElements
<1>4. QED
  BY <1>1, <1>2, <1>3, SendType

LEMMA LosesSuffixType ==
    ASSUME TypeOK, NEW c \in Conns, LosesSuffix(c)
    PROVE  /\ up' \in [Conns -> Seq({"handshake", "response"})]
           /\ down' \in [Conns -> Seq(Submissions)]
<1>1. PICK i \in 0 .. Len(up[c]) : up' = [up EXCEPT ![c] = SubSeq(@, 1, i)]
  BY DEF LosesSuffix
<1>2. PICK j \in 0 .. Len(down[c]) : down' = [down EXCEPT ![c] = SubSeq(@, 1, j)]
  BY DEF LosesSuffix
<1>3. SubSeq(up[c], 1, i) \in Seq({"handshake", "response"})
  BY DEF TypeOK
<1>4. SubSeq(down[c], 1, j) \in Seq(Submissions)
  BY DEF TypeOK
<1>5. QED
  BY <1>1, <1>2, <1>3, <1>4 DEF TypeOK

\* Every step keeps the types, and a working node keeps its submission.
LEMMA TypeStep ==
    ASSUME TypeOK, WorkingNodeHasSubmission, [Next]_vars
    PROVE  TypeOK' /\ WorkingNodeHasSubmission'
<1> USE DEF TypeOK, WorkingNodeHasSubmission, Working
<1>q. connected_invokers \in Seq(Entry)
  BY DEF Entry
<1>e. Seq(Entry) = Seq([conn : Conns, busy : Submissions \cup {None}])
  BY DEF Entry
<1>1. ASSUME NEW s \in Submissions, PushSubmission(s)
      PROVE  TypeOK' /\ WorkingNodeHasSubmission'
  <2>1. CASE TrySubmission(s)
    <3>1. PICK k \in DOMAIN connected_invokers :
             /\ SendSubmissionForTesting(s, connected_invokers[k].conn, connected_invokers)
             /\ UNCHANGED submission_queue
      BY <2>1 DEF TrySubmission
    <3>2. connected_invokers[k].conn \in Conns
      BY <1>q, EntryType
    <3>3. /\ connected_invokers' \in Seq(Entry)
          /\ channel' \in [Conns -> Seq(Submissions)]
      BY <1>q, <3>1, <3>2, SendType
    <3>4. QED
      BY <1>1, <1>e, <3>1, <3>3 DEF PushSubmission, nodeVars
  <2>2. CASE /\ submission_queue' = Append(submission_queue, s)
             /\ UNCHANGED <<connected_invokers, channel>>
    BY <1>1, <2>2 DEF PushSubmission, nodeVars
  <2>3. QED
    BY <1>1, <2>1, <2>2 DEF PushSubmission
<1>2. ASSUME NEW c \in Conns, ConnectHandler(c)
      PROVE  TypeOK' /\ WorkingNodeHasSubmission'
  <2> DEFINE invokers == Append(connected_invokers, [conn |-> c, busy |-> None])
  <2>1. invokers \in Seq(Entry)
    BY <1>q DEF Entry
  <2>2. /\ submission_queue' \in Seq(Submissions)
        /\ connected_invokers' \in Seq(Entry)
        /\ channel' \in [Conns -> Seq(Submissions)]
    <3>1. CASE TryInvoker(c, invokers)
      BY <2>1, <3>1, TryInvokerType
    <3>2. CASE connected_invokers' = invokers /\ UNCHANGED <<submission_queue, channel>>
      BY <2>1, <3>2
    <3>3. QED
      BY <1>2, <3>1, <3>2 DEF ConnectHandler, ConnectInvoker
  <2>3. Tail(up[c]) \in Seq({"handshake", "response"})
    BY <1>2, HeadTailProperties DEF ConnectHandler
  <2>4. QED
    BY <1>2, <1>e, <2>2, <2>3 DEF ConnectHandler, nodeVars, historyVars
<1>3. ASSUME NEW c \in Conns, ReadLoop(c)
      PROVE  TypeOK' /\ WorkingNodeHasSubmission'
  <2>1. PICK k \in DOMAIN connected_invokers :
           \/ TryInvoker(connected_invokers[k].conn, connected_invokers)
           \/ /\ connected_invokers' = [connected_invokers EXCEPT ![k].busy = None]
              /\ UNCHANGED <<submission_queue, channel>>
    BY <1>3 DEF ReadLoop, FreeInvoker
  <2>0. connected_invokers[k].conn \in Conns
    BY <1>q, EntryType
  <2>2. /\ submission_queue' \in Seq(Submissions)
        /\ connected_invokers' \in Seq(Entry)
        /\ channel' \in [Conns -> Seq(Submissions)]
    <3>1. CASE TryInvoker(connected_invokers[k].conn, connected_invokers)
      BY <1>q, <2>0, <3>1, TryInvokerType
    <3>2. CASE /\ connected_invokers' = [connected_invokers EXCEPT ![k].busy = None]
               /\ UNCHANGED <<submission_queue, channel>>
      BY <1>q, <3>2, EntryType
    <3>3. QED
      BY <2>1, <3>1, <3>2
  <2>3. Tail(up[c]) \in Seq({"handshake", "response"})
    BY <1>3, HeadTailProperties DEF ReadLoop
  <2>4. QED
    BY <1>3, <1>e, <2>2, <2>3 DEF ReadLoop, nodeVars, historyVars
<1>4. ASSUME NEW c \in Conns, Disconnect(c)
      PROVE  TypeOK' /\ WorkingNodeHasSubmission'
  <2>1. PICK k \in DOMAIN connected_invokers :
           /\ connected_invokers' = RemoveAt(connected_invokers, k)
           /\ IF connected_invokers[k].busy # None
              THEN /\ submission_queue' = <<connected_invokers[k].busy>> \o submission_queue
                   /\ requeued' = requeued \cup {connected_invokers[k].busy}
              ELSE UNCHANGED <<submission_queue, requeued>>
    BY <1>4 DEF Disconnect, DisconnectInvoker
  <2>2. connected_invokers' \in Seq(Entry)
    BY <1>q, <2>1, RemoveAtElements
  <2>3. connected_invokers[k].busy \in Submissions \cup {None}
    BY <1>q, EntryType
  <2>4. submission_queue' \in Seq(Submissions) /\ requeued' \subseteq Submissions
    <3>1. CASE connected_invokers[k].busy # None
      <4>1. connected_invokers[k].busy \in Submissions /\ submission_queue \in Seq(Submissions)
        BY <2>3, <3>1
      <4>2. <<connected_invokers[k].busy>> \o submission_queue \in Seq(Submissions)
        BY <4>1, ConsElements
      <4>3. QED
        BY <2>1, <3>1, <4>1, <4>2
    <3>2. CASE connected_invokers[k].busy = None
      BY <2>1, <3>2
    <3>3. QED
      BY <3>1, <3>2
  <2>5. QED
    BY <1>4, <1>e, <2>2, <2>4 DEF Disconnect, nodeVars
<1>5. ASSUME NEW c \in Conns, LinkBreak(c) \/ NodeCrash(c)
      PROVE  TypeOK' /\ WorkingNodeHasSubmission'
  <2>1. /\ up' \in [Conns -> Seq({"handshake", "response"})]
        /\ down' \in [Conns -> Seq(Submissions)]
    BY <1>5, LosesSuffixType DEF LinkBreak, NodeCrash
  <2>2. QED
    BY <1>5, <2>1 DEF LinkBreak, NodeCrash, dispatcherVars, nodeVars, historyVars
<1>6. ASSUME NEW c \in Conns, RejectHandshake(c) \/ ReadLoopFails(c) \/ NodeExit(c)
      PROVE  TypeOK' /\ WorkingNodeHasSubmission'
  BY <1>6 DEF RejectHandshake, ReadLoopFails, NodeExit, dispatcherVars, nodeVars, historyVars
<1>7. ASSUME NEW c \in Conns, WriteLoop(c)
      PROVE  TypeOK' /\ WorkingNodeHasSubmission'
  BY <1>7 DEF WriteLoop, nodeVars, historyVars
<1>8. ASSUME NEW c \in Conns, NodeStart(c) \/ NodeRead(c) \/ NodeTest(c) \/ NodeRespond(c)
      PROVE  TypeOK' /\ WorkingNodeHasSubmission'
  <2>1. CASE NodeStart(c)
    BY <2>1 DEF NodeStart, dispatcherVars, historyVars
  <2>2. CASE NodeRead(c)
    BY <2>2 DEF NodeRead, dispatcherVars, historyVars
  <2>3. CASE NodeTest(c)
    BY <2>3 DEF NodeTest, dispatcherVars
  <2>4. CASE NodeRespond(c)
    BY <2>4 DEF NodeRespond, dispatcherVars, historyVars
  <2>5. QED
    BY <1>8, <2>1, <2>2, <2>3, <2>4
<1>9. CASE UNCHANGED vars
  BY <1>9 DEF vars
<1>10. QED
  BY <1>1, <1>2, <1>3, <1>4, <1>5, <1>6, <1>7, <1>8, <1>9 DEF Next, Progress

\* Whatever the ids, whatever fails: the queue holds submissions, the entries
\* hold connections and a submission or none, the streams only what the code
\* sends.
THEOREM TypeCorrect == Spec => []TypeOK
<1>1. Init => TypeOK /\ WorkingNodeHasSubmission
  BY DEF Init, TypeOK, WorkingNodeHasSubmission, Working
<1>2. TypeOK /\ WorkingNodeHasSubmission /\ [Next]_vars
         => TypeOK' /\ WorkingNodeHasSubmission'
  BY TypeStep
<1>3. QED
  BY <1>1, <1>2, PTL DEF Spec
-----------------------------------------------------------------------------
(* Conservation: what the invariant says of the vector of entries.         *)

BusyOnce(inv) ==
    \A k, l \in DOMAIN inv : inv[k].busy = inv[l].busy => k = l \/ inv[k].busy = None
ConnOnce(inv) == \A k, l \in DOMAIN inv : inv[k].conn = inv[l].conn => k = l
AssignedIn(inv) == {inv[k].busy : k \in DOMAIN inv} \ {None}

\* No invoker is idle beside a submission it can test, but for those put back.
IdleOnly ==
    \A x \in Queued, k \in DOMAIN connected_invokers :
        /\ connected_invokers[k].busy = None
        /\ CanTestSubmission(connected_invokers[k].conn, x)
        => x \in requeued

\* What a step makes of the places of submissions: s joins; b is handed out and
\* done leaves; b is put back. None stands for no submission.
Joins(s) ==
    /\ s \notin Queued \cup Assigned \cup accepted
    /\ accepted' = accepted \cup {s} /\ tested' = tested
    /\ \/ Queued' = Queued \cup {s} /\ Assigned' = Assigned
       \/ Queued' = Queued /\ Assigned' = Assigned \cup {s}

HandedOut(b, done) ==
    /\ b # None => b \in Queued
    /\ Queued' = Queued \ {b}
    /\ Assigned' = (Assigned \ {done}) \cup ({b} \ {None})
    /\ UNCHANGED <<accepted, tested>>

PutBack(b) ==
    /\ b # None => b \in Assigned
    /\ Queued' = Queued \cup ({b} \ {None})
    /\ Assigned' = Assigned \ {b}
    /\ UNCHANGED <<accepted, tested>>

-----------------------------------------------------------------------------
(* Facts about one state.                                                  *)

\* The invariant in terms of the vector of entries.
LEMMA EntriesInv ==
    ASSUME QueueInv
    PROVE  /\ connected_invokers \in Seq(Entry)
           /\ BusyOnce(connected_invokers) /\ ConnOnce(connected_invokers)
           /\ Assigned = AssignedIn(connected_invokers)
           /\ \A k \in DOMAIN connected_invokers :
                 /\ connected_invokers[k].conn \in Conns
                 /\ connected_invokers[k].busy \in Submissions \cup {None}
<1>1. connected_invokers \in Seq(Entry)
  BY DEF QueueInv, TypeOK, Entry
<1>2. \A k \in DOMAIN connected_invokers : connected_invokers[k] \in Entry
  BY <1>1, ElementOfSeq
<1>3. QED
  BY <1>1, <1>2 DEF QueueInv, OneHolder, Registered, BusyOnce, ConnOnce, AssignedIn,
                    Assigned, Entry

\* busy_with of entry k becomes b, which nobody holds.
LEMMA AssignBusy ==
    ASSUME QueueInv, NEW k \in DOMAIN connected_invokers, NEW b \in Submissions \cup {None},
           b \notin Assigned,
           DOMAIN connected_invokers' = DOMAIN connected_invokers,
           \A j \in DOMAIN connected_invokers :
               connected_invokers'[j].busy = IF j = k THEN b ELSE connected_invokers[j].busy
    PROVE  /\ BusyOnce(connected_invokers)'
           /\ Assigned' = (Assigned \ {connected_invokers[k].busy}) \cup ({b} \ {None})
<1>1. BusyOnce(connected_invokers)
  BY EntriesInv
<1>2. \A j \in DOMAIN connected_invokers : connected_invokers[j].busy = b => b = None
  BY DEF Assigned
<1>3. BusyOnce(connected_invokers)'
  BY <1>1, <1>2 DEF BusyOnce
<1>4. ASSUME NEW x \in Assigned'
      PROVE  x \in (Assigned \ {connected_invokers[k].busy}) \cup ({b} \ {None})
  BY <1>1 DEF Assigned, BusyOnce
<1>5. ASSUME NEW x \in (Assigned \ {connected_invokers[k].busy}) \cup ({b} \ {None})
      PROVE  x \in Assigned'
  BY DEF Assigned
<1>6. QED
  BY <1>3, <1>4, <1>5

\* findInvokerIndexById, asked for the id of a served connection, finds the
\* entry of that connection.
LEMMA OwnEntry ==
    ASSUME QueueInv, NEW c \in Conns, handler[c] \in {"serving", "closing"},
           NEW k \in DOMAIN connected_invokers,
           First(k, EntriesOf(connected_invokers, IdOf[c]))
    PROVE  connected_invokers[k].conn = c
<1> DEFINE d == connected_invokers[k].conn
<1>1. d \in Conns /\ IdOf[d] = IdOf[c]
  BY EntriesInv DEF First, EntriesOf
<1>2. handler[d] \in {"serving", "closing"}
  BY DEF QueueInv, Registered
<1>3. Live(c) /\ Live(d)
  BY <1>1, <1>2 DEF QueueInv, BeforeHandshake, Live
<1>4. QED
  BY <1>1, <1>3 DEF QueueInv, OneConnPerId

\* An invoker with an empty busy_with has nothing under way.
LEMMA IdleIsQuiet ==
    ASSUME QueueInv, NEW k \in DOMAIN connected_invokers,
           connected_invokers[k].busy = None
    PROVE  LET c == connected_invokers[k].conn
           IN  channel[c] = <<>> /\ down[c] = <<>> /\ up[c] = <<>> /\ ~Working(c)
<1> DEFINE c == connected_invokers[k].conn
<1>1. c \in Conns
  BY EntriesInv
<1>2. Tracks(c, None)
  BY DEF QueueInv, RequestTracked
<1>3. None \notin Submissions
  BY QueueAssumption
<1>4. channel[c] \in Seq(Submissions) /\ down[c] \in Seq(Submissions) /\ tested \subseteq Submissions
  BY <1>1 DEF QueueInv, TypeOK
<1>5. Working(c) => node_sub[c] \in Submissions
  BY <1>1 DEF QueueInv, WorkingNodeHasSubmission
<1> HIDE DEF c
<1>6. channel[c] = <<>>
  BY <1>2, <1>3, <1>4 DEF Tracks
<1>7. down[c] = <<>>
  BY <1>2, <1>3, <1>4 DEF Tracks
<1>8. up[c] = <<>> /\ ~Working(c)
  BY <1>2, <1>3, <1>4, <1>5 DEF Tracks
<1>9. QED
  BY <1>6, <1>7, <1>8 DEF c

\* Sending to a served connection assigns that connection's own entry.
LEMMA SendOwn ==
    ASSUME QueueInv, NEW k \in DOMAIN connected_invokers, NEW s,
           SendSubmissionForTesting(s, connected_invokers[k].conn, connected_invokers)
    PROVE  connected_invokers' = [connected_invokers EXCEPT ![k].busy = s]
<1> DEFINE c == connected_invokers[k].conn
<1>1. c \in Conns /\ handler[c] \in {"serving", "closing"}
  BY EntriesInv DEF QueueInv, Registered
<1>2. PICK m \in DOMAIN connected_invokers :
         /\ First(m, EntriesOf(connected_invokers, IdOf[c]))
         /\ connected_invokers' = [connected_invokers EXCEPT ![m].busy = s]
  BY DEF SendSubmissionForTesting
<1>3. connected_invokers[m].conn = c
  BY <1>1, <1>2, OwnEntry
<1>4. m = k
  BY <1>3, EntriesInv DEF ConnOnce
<1>5. QED
  BY <1>2, <1>4
-----------------------------------------------------------------------------
(* One lemma per action.                                                   *)

LEMMA PushInv ==
    ASSUME QueueInv, TypeOK', NEW s \in Submissions, PushSubmission(s)
    PROVE  QueueInv' /\ Joins(s) /\ (IdleOnly => IdleOnly')
<1>0. UNCHANGED <<handler, link, up, down, node, node_sub, tested, requeued>>
      /\ accepted' = accepted \cup {s} /\ s \notin accepted
  BY DEF PushSubmission, nodeVars
<1>f. s \notin Queued /\ s \notin Assigned
  BY <1>0 DEF QueueInv, SentAreAccepted
<1>u. WorkingNodeHasSubmission' /\ OneConnPerId'
  BY <1>0 DEF QueueInv, WorkingNodeHasSubmission, OneConnPerId, Working, Live
<1>1. CASE TrySubmission(s)
  <2>1. PICK k \in DOMAIN connected_invokers :
           /\ connected_invokers[k].busy = None
           /\ SendSubmissionForTesting(s, connected_invokers[k].conn, connected_invokers)
           /\ UNCHANGED submission_queue
    BY <1>1 DEF TrySubmission, First, IdleFor
  <2>p. PICK c \in Conns : c = connected_invokers[k].conn
    BY EntriesInv
  <2>2. c \in Conns /\ handler[c] \in {"serving", "closing"}
    BY <2>p DEF QueueInv, Registered
  <2>3. connected_invokers' = [connected_invokers EXCEPT ![k].busy = s]
    BY <2>1, SendOwn
  <2>4. /\ DOMAIN connected_invokers' = DOMAIN connected_invokers
        /\ \A j \in DOMAIN connected_invokers :
              /\ connected_invokers'[j].conn = connected_invokers[j].conn
              /\ connected_invokers'[j].busy = IF j = k THEN s ELSE connected_invokers[j].busy
    BY <2>3, EntriesInv, EntryType
  <2>5. /\ BusyOnce(connected_invokers)'
        /\ Assigned' = Assigned \cup {s}
    <3>1. s \in Submissions \cup {None} /\ s # None /\ None \notin Assigned
      BY QueueAssumption DEF Assigned
    <3>2. /\ BusyOnce(connected_invokers)'
          /\ Assigned' = (Assigned \ {connected_invokers[k].busy}) \cup ({s} \ {None})
      BY <1>f, <2>4, <3>1, AssignBusy
    <3>3. QED
      BY <2>1, <3>1, <3>2
  <2>6. channel' = [channel EXCEPT ![c] = <<s>>]
    <3>1. channel[c] = <<>>
      BY <2>1, <2>p, IdleIsQuiet
    <3>2. channel' = [channel EXCEPT ![c] = Append(@, s)]
      BY <2>1, <2>p DEF SendSubmissionForTesting
    <3>3. QED
      BY <3>1, <3>2
  <2>c. \A d \in Conns : channel'[d] = IF d = c THEN <<s>> ELSE channel[d]
    BY <2>6 DEF QueueInv, TypeOK
  <2>7. Registered'
    BY <1>0, <2>4 DEF QueueInv, Registered
  <2>8. BeforeHandshake'
    BY <1>0, <2>2, <2>c DEF QueueInv, BeforeHandshake, Working
  <2>9. RequestTracked'
    <3>1. ASSUME NEW j \in DOMAIN connected_invokers
          PROVE  Tracks(connected_invokers[j].conn, connected_invokers[j].busy)'
      <4>1. CASE j = k
        <5>1. channel'[c] = <<s>> /\ down[c] = <<>> /\ up[c] = <<>> /\ ~Working(c)
          BY <2>1, <2>p, <2>c, IdleIsQuiet
        <5>2. connected_invokers'[j].conn = c /\ connected_invokers'[j].busy = s
          BY <2>4, <2>p, <4>1
        <5>3. Len(channel'[c]) = 1 /\ channel'[c][1] = s
          BY <5>1
        <5>4. Tracks(c, s)'
          BY <1>0, <5>1, <5>3 DEF Tracks, Working
        <5>5. QED
          BY <5>2, <5>4 DEF Tracks, Working
      <4>2. CASE j # k
        <5>1. connected_invokers[j].conn \in Conns /\ connected_invokers[j].conn # c
          BY <2>p, <4>2, EntriesInv DEF ConnOnce
        <5>2. channel'[connected_invokers[j].conn] = channel[connected_invokers[j].conn]
          BY <2>c, <5>1
        <5>3. Tracks(connected_invokers[j].conn, connected_invokers[j].busy)
          BY DEF QueueInv, RequestTracked
        <5>4. QED
          BY <1>0, <2>4, <4>2, <5>2, <5>3 DEF Tracks, Working
      <4>3. QED
        BY <4>1, <4>2
    <3>2. QED
      BY <2>4, <3>1 DEF RequestTracked
  <2>10. SentAreAccepted'
    <3>1. Queued' = Queued
      BY <2>1 DEF Queued
    <3>2. \A d \in Conns : channel'[d] \in Seq(accepted') /\ down'[d] \in Seq(accepted')
      <4>1. <<s>> \in Seq(accepted')
        BY <1>0
      <4>2. \A d \in Conns : channel[d] \in Seq(accepted') /\ down[d] \in Seq(accepted')
        BY <1>0, SeqMonotonic DEF QueueInv, SentAreAccepted
      <4>3. QED
        BY <1>0, <2>c, <4>1, <4>2
    <3>3. QED
      BY <1>0, <2>5, <3>1, <3>2 DEF QueueInv, SentAreAccepted, Working
  <2>11. NoSubmissionLost' /\ OneHolder'
    <3>1. Queued' = Queued
      BY <2>1 DEF Queued
    <3>2. QED
      BY <1>0, <1>f, <2>1, <2>5, <3>1 DEF QueueInv, NoSubmissionLost, OneHolder, BusyOnce
  <2>12. Queued' = Queued
    BY <2>1 DEF Queued
  <2>13. Joins(s)
    BY <1>0, <1>f, <2>5, <2>12 DEF Joins
  <2>14. IdleOnly => IdleOnly'
    <3>1. s # None
      BY QueueAssumption
    <3>2. QED
      BY <1>0, <2>4, <2>12, <3>1 DEF IdleOnly, CanTestSubmission
  <2>15. QED
    BY <1>u, <2>7, <2>8, <2>9, <2>10, <2>11, <2>13, <2>14 DEF QueueInv
<1>2. CASE /\ IdleFor(s) = {}
           /\ submission_queue' = Append(submission_queue, s)
           /\ UNCHANGED <<connected_invokers, channel>>
  <2>1. /\ DOMAIN submission_queue' = 1 .. (Len(submission_queue) + 1)
        /\ \A j \in 1 .. Len(submission_queue) : submission_queue'[j] = submission_queue[j]
        /\ submission_queue'[Len(submission_queue) + 1] = s
        /\ Queued' = Queued \cup {s}
    BY <1>2, AppendElements DEF QueueInv, TypeOK, Queued
  <2>2. Assigned' = Assigned
    BY <1>2 DEF Assigned
  <2>3. \A i, j \in DOMAIN submission_queue' :
           submission_queue'[i] = submission_queue'[j] => i = j
    <3>1. DOMAIN submission_queue = 1 .. Len(submission_queue) /\ Len(submission_queue) \in Nat
      BY DEF QueueInv, TypeOK
    <3>2. \A i \in DOMAIN submission_queue : submission_queue[i] # s
      BY <1>f DEF Queued, ToSet
    <3>3. QED
      BY <2>1, <3>1, <3>2 DEF QueueInv, OneHolder
  <2>4. NoSubmissionLost' /\ OneHolder'
    BY <1>0, <1>2, <1>f, <2>1, <2>2, <2>3 DEF QueueInv, NoSubmissionLost, OneHolder
  <2>5. SentAreAccepted'
    <3>1. \A d \in Conns : channel[d] \in Seq(accepted') /\ down[d] \in Seq(accepted')
      BY <1>0, SeqMonotonic DEF QueueInv, SentAreAccepted
    <3>2. QED
      BY <1>0, <1>2, <2>1, <2>2, <3>1 DEF QueueInv, SentAreAccepted, Working
  <2>6. Registered' /\ BeforeHandshake' /\ RequestTracked'
    BY <1>0, <1>2 DEF QueueInv, Registered, BeforeHandshake, RequestTracked, Tracks, Working
  <2>7. Joins(s)
    BY <1>0, <1>f, <2>1, <2>2 DEF Joins
  <2>8. IdleOnly => IdleOnly'
    <3>1. \A k \in DOMAIN connected_invokers :
             ~(connected_invokers[k].busy = None /\ CanTestSubmission(connected_invokers[k].conn, s))
      BY <1>2 DEF IdleFor
    <3>2. QED
      BY <1>0, <1>2, <2>1, <3>1 DEF IdleOnly, CanTestSubmission
  <2>9. QED
    BY <1>u, <2>4, <2>5, <2>6, <2>7, <2>8 DEF QueueInv
<1>3. QED
  BY <1>1, <1>2 DEF PushSubmission
\* A response has been read: entry k of connection c takes b, which is the next
\* submission of the queue or None, and what it was busy with is tested.
LEMMA ReadInv ==
    ASSUME QueueInv, TypeOK', NEW c \in Conns, ReadLoop(c)
    PROVE  /\ QueueInv'
           /\ \E done \in Assigned \cap tested, b \in Submissions \cup {None} : HandedOut(b, done)
           /\ IdleOnly => IdleOnly'
<1>0. /\ handler[c] = "serving" /\ up[c] # <<>> /\ up' = [up EXCEPT ![c] = Tail(@)]
      /\ UNCHANGED <<handler, link, down, node, node_sub, accepted, tested, requeued>>
  BY DEF ReadLoop, nodeVars, historyVars
<1>1. PICK k \in DOMAIN connected_invokers :
         /\ First(k, EntriesOf(connected_invokers, IdOf[c]))
         /\ \/ TryInvoker(connected_invokers[k].conn, connected_invokers)
            \/ /\ TryInvokerFails(connected_invokers[k].conn)
               /\ connected_invokers' = [connected_invokers EXCEPT ![k].busy = None]
               /\ UNCHANGED <<submission_queue, channel>>
  BY DEF ReadLoop, FreeInvoker
<1>2. connected_invokers[k].conn = c
  BY <1>0, <1>1, OwnEntry
<1>3. PICK old \in Submissions \cup {None} : old = connected_invokers[k].busy
  BY EntriesInv
<1>4. /\ Len(up[c]) = 1 /\ old \in tested /\ channel[c] = <<>> /\ down[c] = <<>> /\ ~Working(c)
  <2>1. Tracks(c, old)
    BY <1>2, <1>3 DEF QueueInv, RequestTracked
  <2>2. QED
    BY <1>0, <2>1 DEF Tracks
<1>5. /\ \A d \in Conns : up'[d] = IF d = c THEN <<>> ELSE up[d]
  <2>1. Tail(up[c]) = <<>>
    <3>1. up[c] \in Seq({"handshake", "response"})
      BY DEF QueueInv, TypeOK
    <3>2. Tail(up[c]) \in Seq({"handshake", "response"}) /\ Len(Tail(up[c])) = 0
      BY <1>0, <1>4, <3>1, HeadTailProperties
    <3>3. QED
      BY <3>2, EmptySeq
  <2>2. QED
    BY <1>0, <2>1 DEF QueueInv, TypeOK
<1>6. PICK b \in Submissions \cup {None} :
         /\ b = None => \A x \in Queued : ~CanTestSubmission(c, x)
         /\ connected_invokers' = [connected_invokers EXCEPT ![k].busy = b]
         /\ b \notin Assigned
         /\ Queued' = Queued \ {b}
         /\ b # None => b \in Queued
         /\ \A i, j \in DOMAIN submission_queue' :
               submission_queue'[i] = submission_queue'[j] => i = j
         /\ \A d \in Conns : channel'[d] = IF d = c /\ b # None THEN <<b>> ELSE channel[d]
  <2>1. CASE TryInvoker(c, connected_invokers)
    <3>1. PICK i \in DOMAIN submission_queue :
             /\ SendSubmissionForTesting(submission_queue[i], c, connected_invokers)
             /\ submission_queue' = RemoveAt(submission_queue, i)
      BY <2>1 DEF TryInvoker
    <3>2. PICK s \in Submissions : s = submission_queue[i]
      BY DEF QueueInv, TypeOK
    <3>3. connected_invokers' = [connected_invokers EXCEPT ![k].busy = s]
      BY <1>2, <3>1, <3>2, SendOwn
    <3>4. s \in Queued
      BY <3>2 DEF Queued, ToSet
    <3>5. s \notin Assigned
      BY <3>4 DEF QueueInv, OneHolder
    <3>6. /\ Queued' = Queued \ {s}
          /\ \A m, j \in DOMAIN submission_queue' :
                submission_queue'[m] = submission_queue'[j] => m = j
      <4>1. /\ submission_queue \in Seq(Submissions)
            /\ \A m, j \in DOMAIN submission_queue :
                  submission_queue[m] = submission_queue[j] => m = j
        BY DEF QueueInv, TypeOK, OneHolder
      <4>2. /\ ToSet(RemoveAt(submission_queue, i)) = ToSet(submission_queue) \ {submission_queue[i]}
            /\ \A m, j \in DOMAIN RemoveAt(submission_queue, i) :
                  RemoveAt(submission_queue, i)[m] = RemoveAt(submission_queue, i)[j] => m = j
        BY <4>1, RemoveAtInjective
      <4>3. Queued' = ToSet(submission_queue')
        BY DEF Queued, ToSet
      <4>4. QED
        BY <3>1, <3>2, <4>2, <4>3 DEF Queued
    <3>7. \A d \in Conns : channel'[d] = IF d = c THEN <<s>> ELSE channel[d]
      BY <1>4, <3>1, <3>2 DEF SendSubmissionForTesting, QueueInv, TypeOK
    <3>8. s # None
      BY QueueAssumption
    <3>9. QED
      BY <3>3, <3>4, <3>5, <3>6, <3>7, <3>8
  <2>2. CASE /\ TryInvokerFails(c)
             /\ connected_invokers' = [connected_invokers EXCEPT ![k].busy = None]
             /\ UNCHANGED <<submission_queue, channel>>
    <3>0. \A x \in Queued : ~CanTestSubmission(c, x)
      BY <2>2 DEF TryInvokerFails, Testable, Queued, ToSet
    <3>1. None \notin Assigned /\ None \notin Queued
      BY QueueAssumption DEF Assigned, QueueInv, Queued, TypeOK, ToSet
    <3>2. Queued' = Queued
      BY <2>2 DEF Queued
    <3>3. \A i, j \in DOMAIN submission_queue' :
               submission_queue'[i] = submission_queue'[j] => i = j
      BY <2>2 DEF QueueInv, OneHolder
    <3>4. QED
      BY <2>2, <3>0, <3>1, <3>2, <3>3
  <2>3. QED
    BY <1>1, <1>2, <2>1, <2>2
<1>7. /\ DOMAIN connected_invokers' = DOMAIN connected_invokers
      /\ \A j \in DOMAIN connected_invokers :
            /\ connected_invokers'[j].conn = connected_invokers[j].conn
            /\ connected_invokers'[j].busy = IF j = k THEN b ELSE connected_invokers[j].busy
  BY <1>6, EntriesInv, EntryType
<1>8. /\ BusyOnce(connected_invokers)'
      /\ Assigned' = (Assigned \ {old}) \cup ({b} \ {None})
  BY <1>3, <1>6, <1>7, AssignBusy
<1>9. WorkingNodeHasSubmission' /\ OneConnPerId'
  BY <1>0 DEF QueueInv, WorkingNodeHasSubmission, OneConnPerId, Working, Live
<1>10. Registered'
  BY <1>0, <1>7 DEF QueueInv, Registered
<1>11. BeforeHandshake'
  BY <1>0, <1>5, <1>6 DEF QueueInv, BeforeHandshake, Working
<1>12. RequestTracked'
  <2>1. ASSUME NEW j \in DOMAIN connected_invokers
        PROVE  Tracks(connected_invokers[j].conn, connected_invokers[j].busy)'
    <3>1. CASE j = k
      <4>1. channel'[c] = IF b # None THEN <<b>> ELSE <<>>
        BY <1>4, <1>6
      <4>2. channel'[c] # <<>> => Len(channel'[c]) = 1 /\ channel'[c][1] = b
        BY <4>1
      <4>3. up'[c] = <<>>
        BY <1>5
      <4>4. Tracks(c, b)'
        BY <1>0, <1>4, <4>2, <4>3 DEF Tracks, Working
      <4>5. QED
        BY <1>2, <1>7, <3>1, <4>4 DEF Tracks, Working
    <3>2. CASE j # k
      <4>1. PICK d \in Conns : d = connected_invokers[j].conn
        BY EntriesInv
      <4>2. d # c
        BY <1>2, <3>2, <4>1, EntriesInv DEF ConnOnce
      <4>3. channel'[d] = channel[d] /\ up'[d] = up[d]
        BY <1>5, <1>6, <4>2
      <4>4. Tracks(d, connected_invokers[j].busy)
        BY <4>1 DEF QueueInv, RequestTracked
      <4>5. QED
        BY <1>0, <1>7, <3>2, <4>1, <4>3, <4>4 DEF Tracks, Working
    <3>3. QED
      BY <3>1, <3>2
  <2>2. QED
    BY <1>7, <2>1 DEF RequestTracked
<1>13. SentAreAccepted'
  <2>1. b # None => b \in accepted
    BY <1>6 DEF QueueInv, SentAreAccepted
  <2>2. b # None => <<b>> \in Seq(accepted)
    BY <2>1
  <2>3. \A d \in Conns : channel'[d] \in Seq(accepted)
    BY <1>6, <2>2 DEF QueueInv, SentAreAccepted
  <2>4. QED
    BY <1>0, <1>6, <1>8, <2>1, <2>3 DEF QueueInv, SentAreAccepted, Working
<1>14. NoSubmissionLost' /\ OneHolder'
  <2>1. NoSubmissionLost'
    <3>1. accepted \subseteq (Queued \cup Assigned \cup tested) \cap Submissions
      BY DEF QueueInv, NoSubmissionLost, TypeOK
    <3>2. None \notin Submissions
      BY QueueAssumption
    <3>3. accepted \subseteq Queued' \cup Assigned' \cup tested
      BY <1>4, <1>6, <1>8, <3>1, <3>2
    <3>4. QED
      BY <1>0, <3>3 DEF NoSubmissionLost
  <2>2. OneHolder'
    BY <1>6, <1>8 DEF QueueInv, OneHolder, BusyOnce
  <2>3. QED
    BY <2>1, <2>2
<1>15. HandedOut(b, old) /\ old \in Assigned \cap tested
  <2>1. old \in Assigned
    <3>1. old # None
      BY <1>4, QueueAssumption DEF QueueInv, TypeOK
    <3>2. QED
      BY <1>3, <3>1 DEF Assigned
  <2>2. QED
    BY <1>0, <1>4, <1>6, <1>8, <2>1 DEF HandedOut
<1>16. IdleOnly => IdleOnly'
  <2>1. SUFFICES ASSUME IdleOnly, NEW x \in Queued', NEW j \in DOMAIN connected_invokers',
                        connected_invokers'[j].busy = None,
                        CanTestSubmission(connected_invokers'[j].conn, x)
                 PROVE  x \in requeued
    BY <1>0 DEF IdleOnly, CanTestSubmission
  <2>2. x \in Queued
    BY <1>6
  <2>3. CASE j = k
    BY <1>2, <1>6, <1>7, <2>1, <2>2, <2>3
  <2>4. CASE j # k
    BY <1>7, <2>1, <2>2, <2>4 DEF IdleOnly
  <2>5. QED
    BY <2>3, <2>4
<1>17. QED
  BY <1>9, <1>10, <1>11, <1>12, <1>13, <1>14, <1>15, <1>16 DEF QueueInv

\* A handshake has been read: an entry for c is added, holding b, the first
\* submission of the queue that the node can test, or None.
LEMMA ConnectInv ==
    ASSUME QueueInv, TypeOK', NEW c \in Conns, ConnectHandler(c)
    PROVE  /\ QueueInv'
           /\ \E b \in Submissions \cup {None} : HandedOut(b, None)
           /\ IdleOnly => IdleOnly'
<1>0. /\ handler[c] = "none" /\ up[c] # <<>> /\ up' = [up EXCEPT ![c] = Tail(@)]
      /\ handler' = [handler EXCEPT ![c] = "serving"]
      /\ UNCHANGED <<link, down, node, node_sub, accepted, tested, requeued>>
  BY DEF ConnectHandler, nodeVars, historyVars
<1> DEFINE inv == Append(connected_invokers, [conn |-> c, busy |-> None])
           n == Len(connected_invokers)
<1>1. /\ channel[c] = <<>> /\ down[c] = <<>> /\ ~Working(c) /\ node[c] # "off" /\ Live(c)
      /\ Len(up[c]) = 1
  BY <1>0 DEF QueueInv, BeforeHandshake, Live
<1>2. \A k \in DOMAIN connected_invokers :
         connected_invokers[k].conn # c /\ IdOf[connected_invokers[k].conn] # IdOf[c]
  <2>1. ASSUME NEW k \in DOMAIN connected_invokers
        PROVE  connected_invokers[k].conn # c /\ IdOf[connected_invokers[k].conn] # IdOf[c]
    <3>1. PICK d \in Conns : d = connected_invokers[k].conn
      BY EntriesInv
    <3>2. handler[d] \in {"serving", "closing"}
      BY <3>1 DEF QueueInv, Registered
    <3>3. Live(d) /\ d # c
      BY <1>0, <3>2 DEF QueueInv, BeforeHandshake, Live
    <3>4. QED
      BY <1>1, <3>1, <3>3 DEF QueueInv, OneConnPerId
  <2>2. QED
    BY <2>1
<1>3. /\ inv \in Seq(Entry)
      /\ DOMAIN inv = 1 .. (n + 1)
      /\ \A j \in 1 .. n : inv[j] = connected_invokers[j]
      /\ inv[n + 1] = [conn |-> c, busy |-> None]
  <2>1. [conn |-> c, busy |-> None] \in Entry /\ connected_invokers \in Seq(Entry)
    BY EntriesInv DEF Entry
  <2>2. QED
    BY <2>1, AppendElements
<1>4. DOMAIN connected_invokers = 1 .. n /\ n \in Nat
  BY EntriesInv
<1>5. \A d \in Conns : up'[d] = IF d = c THEN <<>> ELSE up[d]
  <2>1. Tail(up[c]) = <<>>
    <3>1. up[c] \in Seq({"handshake", "response"})
      BY DEF QueueInv, TypeOK
    <3>2. Tail(up[c]) \in Seq({"handshake", "response"}) /\ Len(Tail(up[c])) = 0
      BY <1>0, <1>1, <3>1, HeadTailProperties
    <3>3. QED
      BY <3>2, EmptySeq
  <2>2. QED
    BY <1>0, <2>1 DEF QueueInv, TypeOK
<1>6. \A d \in Conns : handler'[d] = IF d = c THEN "serving" ELSE handler[d]
  BY <1>0 DEF QueueInv, TypeOK
<1>7. PICK b \in Submissions \cup {None} :
         /\ b = None => \A x \in Queued : ~CanTestSubmission(c, x)
         /\ connected_invokers' = [inv EXCEPT ![n + 1].busy = b]
         /\ b \notin Assigned
         /\ Queued' = Queued \ {b}
         /\ b # None => b \in Queued
         /\ \A i, j \in DOMAIN submission_queue' :
               submission_queue'[i] = submission_queue'[j] => i = j
         /\ \A d \in Conns : channel'[d] = IF d = c /\ b # None THEN <<b>> ELSE channel[d]
  <2>1. CASE TryInvoker(c, inv)
    <3>1. PICK i \in DOMAIN submission_queue :
             /\ SendSubmissionForTesting(submission_queue[i], c, inv)
             /\ submission_queue' = RemoveAt(submission_queue, i)
      BY <2>1 DEF TryInvoker
    <3>2. PICK s \in Submissions : s = submission_queue[i]
      BY DEF QueueInv, TypeOK
    <3>3. connected_invokers' = [inv EXCEPT ![n + 1].busy = s]
      <4>1. PICK m \in DOMAIN inv : /\ IdOf[inv[m].conn] = IdOf[c]
                                    /\ connected_invokers' = [inv EXCEPT ![m].busy = s]
        BY <3>1, <3>2 DEF SendSubmissionForTesting, First, EntriesOf
      <4>2. m = n + 1
        <5> HIDE DEF inv, n
        <5> QED BY <1>2, <1>3, <1>4, <4>1
      <4>3. QED
        BY <4>1, <4>2
    <3>4. s \in Queued
      BY <3>2 DEF Queued, ToSet
    <3>5. s \notin Assigned
      BY <3>4 DEF QueueInv, OneHolder
    <3>6. /\ Queued' = Queued \ {s}
          /\ \A m, j \in DOMAIN submission_queue' :
                submission_queue'[m] = submission_queue'[j] => m = j
      <4>1. /\ submission_queue \in Seq(Submissions)
            /\ \A m, j \in DOMAIN submission_queue :
                  submission_queue[m] = submission_queue[j] => m = j
        BY DEF QueueInv, TypeOK, OneHolder
      <4>2. /\ ToSet(RemoveAt(submission_queue, i)) = ToSet(submission_queue) \ {submission_queue[i]}
            /\ \A m, j \in DOMAIN RemoveAt(submission_queue, i) :
                  RemoveAt(submission_queue, i)[m] = RemoveAt(submission_queue, i)[j] => m = j
        BY <4>1, RemoveAtInjective
      <4>3. Queued' = ToSet(submission_queue')
        BY DEF Queued, ToSet
      <4>4. QED
        BY <3>1, <3>2, <4>2, <4>3 DEF Queued
    <3>7. \A d \in Conns : channel'[d] = IF d = c THEN <<s>> ELSE channel[d]
      BY <1>1, <3>1, <3>2 DEF SendSubmissionForTesting, QueueInv, TypeOK
    <3>8. s # None
      BY QueueAssumption
    <3>9. QED
      BY <3>3, <3>4, <3>5, <3>6, <3>7, <3>8
  <2>2. CASE /\ TryInvokerFails(c)
             /\ connected_invokers' = inv /\ UNCHANGED <<submission_queue, channel>>
    <3>0. \A x \in Queued : ~CanTestSubmission(c, x)
      BY <2>2 DEF TryInvokerFails, Testable, Queued, ToSet
    <3>1. None \notin Assigned /\ None \notin Queued
      BY QueueAssumption DEF Assigned, QueueInv, Queued, TypeOK, ToSet
    <3>2. Queued' = Queued
      BY <2>2 DEF Queued
    <3>3. \A i, j \in DOMAIN submission_queue' :
               submission_queue'[i] = submission_queue'[j] => i = j
      BY <2>2 DEF QueueInv, OneHolder
    <3>4. inv = [inv EXCEPT ![n + 1].busy = None]
      <4>1. n + 1 \in DOMAIN inv /\ inv[n + 1].busy = None /\ inv[n + 1] \in Entry
        BY <1>3, <1>4, ElementOfSeq
      <4> HIDE DEF inv, n
      <4>2. [inv[n + 1] EXCEPT !.busy = None] = inv[n + 1]
        BY <4>1 DEF Entry
      <4>3. QED
        BY <1>3, <4>1, <4>2
    <3>5. QED
      BY <2>2, <3>0, <3>1, <3>2, <3>3, <3>4
  <2>3. QED
    BY <2>1, <2>2 DEF ConnectHandler, ConnectInvoker
<1> HIDE DEF inv, n
<1>8. /\ DOMAIN connected_invokers' = 1 .. (n + 1)
      /\ \A j \in 1 .. n : /\ connected_invokers'[j].conn = connected_invokers[j].conn
                            /\ connected_invokers'[j].busy = connected_invokers[j].busy
      /\ connected_invokers'[n + 1].conn = c
      /\ connected_invokers'[n + 1].busy = b
  <2>1. n + 1 \in DOMAIN inv
    BY <1>3, <1>4
  <2>2. /\ DOMAIN [inv EXCEPT ![n + 1].busy = b] = DOMAIN inv
        /\ \A j \in DOMAIN inv :
              /\ [inv EXCEPT ![n + 1].busy = b][j].conn = inv[j].conn
              /\ [inv EXCEPT ![n + 1].busy = b][j].busy = IF j = n + 1 THEN b ELSE inv[j].busy
    BY <1>3, <2>1, EntryType
  <2>3. QED
    BY <1>3, <1>4, <1>7, <2>1, <2>2
<1>9. BusyOnce(connected_invokers)' /\ ConnOnce(connected_invokers)'
      /\ Assigned' = Assigned \cup ({b} \ {None})
  <2>1. BusyOnce(connected_invokers) /\ ConnOnce(connected_invokers)
    BY EntriesInv
  <2>2. \A j \in DOMAIN connected_invokers : connected_invokers[j].busy = b => b = None
    BY <1>7 DEF Assigned
  <2>3. \A j \in DOMAIN connected_invokers' : j \in DOMAIN connected_invokers \/ j = n + 1
    BY <1>4, <1>8
  <2>4. n + 1 \in DOMAIN connected_invokers' /\ DOMAIN connected_invokers \subseteq DOMAIN connected_invokers'
    BY <1>4, <1>8
  <2>5. \A j \in DOMAIN connected_invokers :
           /\ connected_invokers'[j].conn = connected_invokers[j].conn
           /\ connected_invokers'[j].busy = connected_invokers[j].busy
    BY <1>4, <1>8
  <2>6. connected_invokers'[n + 1].conn = c /\ connected_invokers'[n + 1].busy = b
    BY <1>8
  <2>7. BusyOnce(connected_invokers)'
    BY <2>1, <2>2, <2>3, <2>5, <2>6 DEF BusyOnce
  <2>8. ConnOnce(connected_invokers)'
    BY <1>2, <2>1, <2>3, <2>5, <2>6 DEF ConnOnce
  <2>9. Assigned' = Assigned \cup ({b} \ {None})
    <3>1. ASSUME NEW x \in Assigned'
          PROVE  x \in Assigned \cup ({b} \ {None})
      BY <2>3, <2>5, <2>6 DEF Assigned
    <3>2. ASSUME NEW x \in Assigned \cup ({b} \ {None})
          PROVE  x \in Assigned'
      BY <2>4, <2>5, <2>6 DEF Assigned
    <3>3. QED
      BY <3>1, <3>2
  <2>10. QED
    BY <2>7, <2>8, <2>9
<1>10. WorkingNodeHasSubmission' /\ OneConnPerId'
  BY <1>0, <1>1, <1>6 DEF QueueInv, WorkingNodeHasSubmission, OneConnPerId, Working, Live
<1>11. Registered'
  <2>1. \A k \in DOMAIN connected_invokers' :
           handler'[connected_invokers'[k].conn] \in {"serving", "closing"}
    BY <1>2, <1>4, <1>6, <1>8, EntriesInv DEF QueueInv, Registered
  <2>2. \A d \in Conns : handler'[d] \in {"serving", "closing"} =>
          \E k \in DOMAIN connected_invokers' : connected_invokers'[k].conn = d
    <3>1. ASSUME NEW d \in Conns, handler'[d] \in {"serving", "closing"}
          PROVE  \E k \in DOMAIN connected_invokers' : connected_invokers'[k].conn = d
      <4>1. CASE d = c
        BY <1>4, <1>8, <4>1
      <4>2. CASE d # c
        <5>1. PICK k \in DOMAIN connected_invokers : connected_invokers[k].conn = d
          BY <1>6, <3>1, <4>2 DEF QueueInv, Registered
        <5>2. k \in DOMAIN connected_invokers' /\ connected_invokers'[k].conn = d
          BY <1>4, <1>8, <5>1
        <5>3. QED
          BY <5>2
      <4>3. QED
        BY <4>1, <4>2
    <3>2. QED
      BY <3>1
  <2>3. QED
    BY <1>9, <2>1, <2>2 DEF Registered, ConnOnce
<1>12. BeforeHandshake'
  BY <1>0, <1>1, <1>5, <1>6, <1>7 DEF QueueInv, BeforeHandshake, Working
<1>13. RequestTracked'
  <2>1. ASSUME NEW j \in DOMAIN connected_invokers'
        PROVE  Tracks(connected_invokers[j].conn, connected_invokers[j].busy)'
    <3>1. CASE j = n + 1
      <4>1. channel'[c] = IF b # None THEN <<b>> ELSE <<>>
        BY <1>1, <1>7
      <4>2. channel'[c] # <<>> => Len(channel'[c]) = 1 /\ channel'[c][1] = b
        BY <4>1
      <4>3. up'[c] = <<>>
        BY <1>5
      <4>4. Tracks(c, b)'
        BY <1>0, <1>1, <4>2, <4>3 DEF Tracks, Working
      <4>5. QED
        BY <1>8, <3>1, <4>4 DEF Tracks, Working
    <3>2. CASE j # n + 1
      <4>0. j \in DOMAIN connected_invokers /\ j \in 1 .. n
        BY <1>4, <1>8, <3>2
      <4>1. PICK d \in Conns : d = connected_invokers[j].conn
        BY <4>0, EntriesInv
      <4>2. d # c
        BY <1>2, <4>0, <4>1
      <4>3. channel'[d] = channel[d] /\ up'[d] = up[d]
        BY <1>5, <1>7, <4>2
      <4>4. Tracks(d, connected_invokers[j].busy)
        BY <4>0, <4>1 DEF QueueInv, RequestTracked
      <4>5. QED
        BY <1>0, <1>8, <4>0, <4>1, <4>3, <4>4 DEF Tracks, Working
    <3>3. QED
      BY <3>1, <3>2
  <2>2. QED
    BY <2>1 DEF RequestTracked
<1>14. SentAreAccepted'
  <2>1. b # None => b \in accepted
    BY <1>7 DEF QueueInv, SentAreAccepted
  <2>2. b # None => <<b>> \in Seq(accepted)
    BY <2>1
  <2>3. \A d \in Conns : channel'[d] \in Seq(accepted)
    BY <1>7, <2>2 DEF QueueInv, SentAreAccepted
  <2>4. QED
    BY <1>0, <1>7, <1>9, <2>1, <2>3 DEF QueueInv, SentAreAccepted, Working
<1>15. NoSubmissionLost' /\ OneHolder'
  <2>1. NoSubmissionLost'
    <3>1. accepted \subseteq (Queued \cup Assigned \cup tested) \cap Submissions
      BY DEF QueueInv, NoSubmissionLost, TypeOK
    <3>2. None \notin Submissions
      BY QueueAssumption
    <3>3. accepted \subseteq Queued' \cup Assigned' \cup tested
      BY <1>7, <1>9, <3>1, <3>2
    <3>4. QED
      BY <1>0, <3>3 DEF NoSubmissionLost
  <2>2. OneHolder'
    BY <1>7, <1>9 DEF QueueInv, OneHolder, BusyOnce
  <2>3. QED
    BY <2>1, <2>2
<1>16. HandedOut(b, None)
  <2>1. None \notin Assigned
    BY DEF Assigned
  <2>2. QED
    BY <1>0, <1>7, <1>9, <2>1 DEF HandedOut
<1>17. IdleOnly => IdleOnly'
  <2>1. SUFFICES ASSUME IdleOnly, NEW x \in Queued', NEW j \in DOMAIN connected_invokers',
                        connected_invokers'[j].busy = None,
                        CanTestSubmission(connected_invokers'[j].conn, x)
                 PROVE  x \in requeued
    BY <1>0 DEF IdleOnly, CanTestSubmission
  <2>2. x \in Queued
    BY <1>7
  <2>3. CASE j = n + 1
    BY <1>7, <1>8, <2>1, <2>2, <2>3
  <2>4. CASE j # n + 1
    <3>1. j \in DOMAIN connected_invokers /\ j \in 1 .. n
      BY <1>4, <1>8, <2>4
    <3>2. QED
      BY <1>8, <2>1, <2>2, <3>1 DEF IdleOnly
  <2>5. QED
    BY <2>3, <2>4
<1>18. QED
  BY <1>10, <1>11, <1>12, <1>13, <1>14, <1>15, <1>16, <1>17 DEF QueueInv

\* connectHandler resumes: the connection's own entry k is erased and what it
\* was busy with goes to the front of the queue.
LEMMA DisconnectInv ==
    ASSUME QueueInv, TypeOK', NEW c \in Conns, Disconnect(c)
    PROVE  /\ QueueInv'
           /\ \E b \in Submissions \cup {None} : PutBack(b)
           /\ IdleOnly => IdleOnly'
<1>0. /\ handler[c] = "closing" /\ handler' = [handler EXCEPT ![c] = "closed"]
      /\ UNCHANGED <<channel, link, up, down, node, node_sub, accepted, tested>>
  BY DEF Disconnect, nodeVars
<1>1. PICK k \in DOMAIN connected_invokers :
         /\ First(k, EntriesOf(connected_invokers, IdOf[c]))
         /\ connected_invokers' = RemoveAt(connected_invokers, k)
         /\ IF connected_invokers[k].busy # None
            THEN /\ submission_queue' = <<connected_invokers[k].busy>> \o submission_queue
                 /\ requeued' = requeued \cup {connected_invokers[k].busy}
            ELSE UNCHANGED <<submission_queue, requeued>>
  BY DEF Disconnect, DisconnectInvoker
<1>2. connected_invokers[k].conn = c
  BY <1>0, <1>1, OwnEntry
<1>3. PICK b \in Submissions \cup {None} : b = connected_invokers[k].busy
  BY EntriesInv
<1>4. \A d \in Conns : handler'[d] = IF d = c THEN "closed" ELSE handler[d]
  BY <1>0 DEF QueueInv, TypeOK
<1> DEFINE n == Len(connected_invokers)
           At(j) == IF j < k THEN j ELSE j + 1
<1>5. /\ \A j \in DOMAIN connected_invokers' :
            /\ At(j) \in DOMAIN connected_invokers /\ At(j) # k
            /\ connected_invokers'[j] = connected_invokers[At(j)]
      /\ \A i, j \in DOMAIN connected_invokers' : At(i) = At(j) => i = j
  <2>1. connected_invokers \in Seq(Entry)
    BY EntriesInv
  <2>2. /\ DOMAIN connected_invokers' = 1 .. (n - 1)
        /\ \A j \in 1 .. (n - 1) : connected_invokers'[j]
                 = IF j < k THEN connected_invokers[j] ELSE connected_invokers[j + 1]
    BY <1>1, <2>1, RemoveAtElements
  <2>3. DOMAIN connected_invokers = 1 .. n /\ n \in Nat /\ k \in 1 .. n
    BY <2>1
  <2> HIDE DEF n
  <2>4. QED
    BY <2>2, <2>3
<1>6. \A m \in DOMAIN connected_invokers : m # k =>
         \E j \in DOMAIN connected_invokers' : connected_invokers'[j] = connected_invokers[m]
  BY <1>1, EntriesInv, RemoveAtOthers
<1> HIDE DEF At, n
<1>7. /\ BusyOnce(connected_invokers)' /\ ConnOnce(connected_invokers)'
      /\ Assigned' = Assigned \ {b}
  <2>1. BusyOnce(connected_invokers) /\ ConnOnce(connected_invokers)
    BY EntriesInv
  <2>2. BusyOnce(connected_invokers)'
    BY <1>5, <2>1 DEF BusyOnce
  <2>3. ConnOnce(connected_invokers)'
    BY <1>5, <2>1 DEF ConnOnce
  <2>4. ASSUME NEW x \in Assigned'
        PROVE  x \in Assigned \ {b}
    BY <1>3, <1>5, <2>1 DEF Assigned, BusyOnce
  <2>5. ASSUME NEW x \in Assigned \ {b}
        PROVE  x \in Assigned'
    BY <1>3, <1>6 DEF Assigned
  <2>6. QED
    BY <2>2, <2>3, <2>4, <2>5
<1>8. /\ Queued' = Queued \cup ({b} \ {None})
      /\ \A i, j \in DOMAIN submission_queue' :
            submission_queue'[i] = submission_queue'[j] => i = j
  <2>0. submission_queue \in Seq(Submissions)
        /\ \A i, j \in DOMAIN submission_queue : submission_queue[i] = submission_queue[j] => i = j
    BY DEF QueueInv, TypeOK, OneHolder
  <2>1. CASE b # None
    <3>1. submission_queue' = <<b>> \o submission_queue
      BY <1>1, <1>3, <2>1
    <3>2. b \in Submissions
      BY <2>1
    <3>3. /\ DOMAIN submission_queue' = 1 .. (Len(submission_queue) + 1)
          /\ submission_queue'[1] = b
          /\ \A j \in 1 .. Len(submission_queue) : submission_queue'[j + 1] = submission_queue[j]
          /\ ToSet(submission_queue') = ToSet(submission_queue) \cup {b}
      BY <2>0, <3>1, <3>2, ConsElements
    <3>4. Queued' = Queued \cup ({b} \ {None})
      <4>1. Queued' = ToSet(submission_queue')
        BY DEF Queued, ToSet
      <4>2. QED
        BY <2>1, <3>3, <4>1 DEF Queued
    <3>5. \A j \in DOMAIN submission_queue : submission_queue[j] # b
      <4>1. b \in Assigned
        BY <1>3, <2>1 DEF Assigned
      <4>2. QED
        BY <4>1 DEF QueueInv, OneHolder, Queued, ToSet
    <3>6. ASSUME NEW i \in DOMAIN submission_queue', NEW j \in DOMAIN submission_queue',
                 submission_queue'[i] = submission_queue'[j]
          PROVE  i = j
      <4>1. DOMAIN submission_queue = 1 .. Len(submission_queue) /\ Len(submission_queue) \in Nat
        BY <2>0
      <4>2. \A l \in DOMAIN submission_queue' : l # 1 =>
               l - 1 \in DOMAIN submission_queue /\ submission_queue'[l] = submission_queue[l - 1]
        BY <3>3, <4>1
      <4>3. CASE i = 1 \/ j = 1
        BY <3>3, <3>5, <3>6, <4>2, <4>3
      <4>4. CASE i # 1 /\ j # 1
        <5>1. i - 1 = j - 1
          BY <2>0, <3>6, <4>2, <4>4
        <5>2. QED
          BY <3>3, <4>1, <5>1
      <4>5. QED
        BY <4>3, <4>4
    <3>7. QED
      BY <3>4, <3>6
  <2>2. CASE b = None
    <3>1. submission_queue' = submission_queue
      BY <1>1, <1>3, <2>2
    <3>2. Queued' = Queued
      BY <3>1 DEF Queued
    <3>3. QED
      BY <2>0, <2>2, <3>1, <3>2
  <2>3. QED
    BY <2>1, <2>2
<1>9. WorkingNodeHasSubmission' /\ OneConnPerId'
  BY <1>0, <1>4 DEF QueueInv, WorkingNodeHasSubmission, OneConnPerId, Working, Live
<1>10. Registered'
  <2>1. ASSUME NEW j \in DOMAIN connected_invokers'
        PROVE  handler'[connected_invokers'[j].conn] \in {"serving", "closing"}
    <3>1. PICK d \in Conns : d = connected_invokers[At(j)].conn
      BY <1>5, EntriesInv
    <3>2. d # c
      BY <1>2, <1>5, <3>1, EntriesInv DEF ConnOnce
    <3>3. handler[d] \in {"serving", "closing"}
      BY <1>5, <3>1 DEF QueueInv, Registered
    <3>4. QED
      BY <1>4, <1>5, <3>1, <3>2, <3>3
  <2>2. ASSUME NEW d \in Conns, handler'[d] \in {"serving", "closing"}
        PROVE  \E j \in DOMAIN connected_invokers' : connected_invokers'[j].conn = d
    <3>1. d # c /\ handler[d] \in {"serving", "closing"}
      BY <1>4, <2>2
    <3>2. PICK m \in DOMAIN connected_invokers : connected_invokers[m].conn = d
      BY <3>1 DEF QueueInv, Registered
    <3>3. m # k
      BY <1>2, <3>1, <3>2
    <3>4. QED
      BY <1>6, <3>2, <3>3
  <2>3. QED
    BY <1>7, <2>1, <2>2 DEF Registered, ConnOnce
<1>11. BeforeHandshake'
  BY <1>0, <1>4 DEF QueueInv, BeforeHandshake, Working
<1>12. RequestTracked'
  <2>1. ASSUME NEW j \in DOMAIN connected_invokers'
        PROVE  Tracks(connected_invokers[j].conn, connected_invokers[j].busy)'
    <3>1. Tracks(connected_invokers[At(j)].conn, connected_invokers[At(j)].busy)
      BY <1>5 DEF QueueInv, RequestTracked
    <3>2. QED
      BY <1>0, <1>5, <3>1 DEF Tracks, Working
  <2>2. QED
    BY <2>1 DEF RequestTracked
<1>13. SentAreAccepted'
  <2>1. b # None => b \in accepted
    BY <1>3 DEF QueueInv, SentAreAccepted, Assigned
  <2>2. QED
    BY <1>0, <1>7, <1>8, <2>1 DEF QueueInv, SentAreAccepted, Working
<1>14. NoSubmissionLost' /\ OneHolder'
  <2>1. accepted \subseteq Queued' \cup Assigned' \cup tested
    <3>1. accepted \subseteq (Queued \cup Assigned \cup tested) \cap Submissions
      BY DEF QueueInv, NoSubmissionLost, TypeOK
    <3>2. None \notin Submissions
      BY QueueAssumption
    <3>3. QED
      BY <1>7, <1>8, <3>1, <3>2
  <2>2. OneHolder'
    BY <1>7, <1>8 DEF QueueInv, OneHolder, BusyOnce
  <2>3. QED
    BY <1>0, <2>1, <2>2 DEF NoSubmissionLost
<1>15. PutBack(b)
  BY <1>0, <1>3, <1>7, <1>8 DEF PutBack, Assigned
<1>16. IdleOnly => IdleOnly'
  <2>1. requeued \subseteq requeued' /\ (b # None => b \in requeued')
    BY <1>1, <1>3
  <2>2. SUFFICES ASSUME IdleOnly, NEW x \in Queued', NEW j \in DOMAIN connected_invokers',
                        connected_invokers'[j].busy = None,
                        CanTestSubmission(connected_invokers'[j].conn, x)
                 PROVE  x \in requeued'
    BY DEF IdleOnly, CanTestSubmission
  <2>3. CASE x \in Queued
    BY <1>5, <2>1, <2>2, <2>3 DEF IdleOnly
  <2>4. QED
    BY <1>8, <2>1, <2>3
<1>17. QED
  BY <1>9, <1>10, <1>11, <1>12, <1>13, <1>14, <1>15, <1>16 DEF QueueInv
-----------------------------------------------------------------------------
(* The other actions leave the queue and the entries alone and touch one   *)
(* connection only.                                                        *)

BeforeHandshakeOf(c) ==
    /\ node[c] = "off" => handler[c] = "none" /\ link[c] = "idle" /\ up[c] = <<>>
    /\ handler[c] = "none" =>
          /\ channel[c] = <<>> /\ down[c] = <<>> /\ ~Working(c)
          /\ up[c] # <<>> => Len(up[c]) = 1

SentAreAcceptedOf(c) ==
    /\ channel[c] \in Seq(accepted) /\ down[c] \in Seq(accepted)
    /\ Working(c) => node_sub[c] \in accepted

Served(c) == handler[c] \in {"serving", "closing"}

OthersUntouched(c) ==
    \A d \in Conns \ {c} :
        /\ handler'[d] = handler[d] /\ node'[d] = node[d] /\ node_sub'[d] = node_sub[d]
        /\ channel'[d] = channel[d] /\ up'[d] = up[d] /\ down'[d] = down[d]
        /\ link'[d] = link[d]

\* What a step local to connection c has to keep for the invariant to hold.
LEMMA LocalStep ==
    ASSUME QueueInv, TypeOK', NEW c \in Conns,
           UNCHANGED <<submission_queue, connected_invokers, accepted>>,
           tested \subseteq tested', OthersUntouched(c),
           Served(c) <=> Served(c)', OneConnPerId',
           BeforeHandshakeOf(c)', SentAreAcceptedOf(c)',
           \A b \in Submissions \cup {None} : Served(c) /\ Tracks(c, b) => Tracks(c, b)'
    PROVE  QueueInv'
<1>1. Queued' = Queued /\ Assigned' = Assigned
  BY DEF Queued, Assigned
<1>2. WorkingNodeHasSubmission'
  <2>1. accepted' \subseteq Submissions
    BY DEF TypeOK
  <2>2. \A d \in Conns : d = c \/ (Working(d)' <=> Working(d))
    BY DEF OthersUntouched, Working
  <2>3. QED
    BY <2>1, <2>2 DEF QueueInv, WorkingNodeHasSubmission, SentAreAcceptedOf, OthersUntouched, Working
<1>3. Registered'
  <2>1. \A d \in Conns : Served(d)' <=> Served(d)
    BY DEF OthersUntouched, Served
  <2>2. QED
    BY <2>1, EntriesInv DEF QueueInv, Registered, Served
<1>4. BeforeHandshake'
  BY DEF QueueInv, BeforeHandshake, BeforeHandshakeOf, OthersUntouched, Working
<1>5. RequestTracked'
  <2>1. ASSUME NEW k \in DOMAIN connected_invokers
        PROVE  Tracks(connected_invokers[k].conn, connected_invokers[k].busy)'
    <3>1. PICK d \in Conns : d = connected_invokers[k].conn
      BY EntriesInv
    <3>2. PICK b \in Submissions \cup {None} : b = connected_invokers[k].busy
      BY EntriesInv
    <3>3. Tracks(d, b) /\ Served(d)
      BY <3>1, <3>2 DEF QueueInv, RequestTracked, Registered, Served
    <3>4. Tracks(d, b)'
      <4>1. CASE d = c
        BY <3>3, <4>1
      <4>2. CASE d # c
        BY <3>3, <4>2 DEF Tracks, OthersUntouched, Working
      <4>3. QED
        BY <4>1, <4>2
    <3>5. QED
      BY <3>1, <3>2, <3>4 DEF Tracks, Working
  <2>2. QED
    BY <2>1 DEF RequestTracked
<1>6. SentAreAccepted'
  BY <1>1 DEF QueueInv, SentAreAccepted, SentAreAcceptedOf, OthersUntouched, Working
<1>7. NoSubmissionLost' /\ OneHolder'
  BY <1>1 DEF QueueInv, NoSubmissionLost, OneHolder
<1>8. QED
  BY <1>2, <1>3, <1>4, <1>5, <1>6, <1>7 DEF QueueInv

\* The invariant, seen from one connection.
LEMMA InvOf ==
    ASSUME QueueInv, NEW c \in Conns
    PROVE  /\ BeforeHandshakeOf(c) /\ SentAreAcceptedOf(c)
           /\ channel[c] \in Seq(Submissions) /\ down[c] \in Seq(Submissions)
           /\ up[c] \in Seq({"handshake", "response"})
BY DEF QueueInv, BeforeHandshake, BeforeHandshakeOf, SentAreAccepted, SentAreAcceptedOf,
       TypeOK

\* A handler ends without having registered anything, or one of its reads fails.
LEMMA HandlerEndsInv ==
    ASSUME QueueInv, TypeOK', NEW c \in Conns, RejectHandshake(c) \/ ReadLoopFails(c)
    PROVE  QueueInv'
<1>1. /\ UNCHANGED <<submission_queue, connected_invokers, channel, link, up, down,
                     node, node_sub, accepted, tested, requeued>>
      /\ handler[c] \in {"none", "serving"}
      /\ \A d \in Conns : d # c => handler'[d] = handler[d]
      /\ handler'[c] = IF handler[c] = "none" THEN "closed" ELSE "closing"
  BY DEF RejectHandshake, ReadLoopFails, dispatcherVars, nodeVars, historyVars, QueueInv, TypeOK
<1>2. OthersUntouched(c) /\ (Served(c) <=> Served(c)')
  BY <1>1 DEF OthersUntouched, Served
<1>3. node[c] # "off"
  <2>1. CASE RejectHandshake(c)
    BY <2>1, InvOf DEF RejectHandshake, BeforeHandshakeOf
  <2>2. CASE ReadLoopFails(c)
    BY <2>2, InvOf DEF ReadLoopFails, BeforeHandshakeOf
  <2>3. QED
    BY <2>1, <2>2
<1>4. OneConnPerId'
  BY <1>1, <1>3 DEF QueueInv, OneConnPerId, Live
<1>5. BeforeHandshakeOf(c)' /\ SentAreAcceptedOf(c)'
  BY <1>1, <1>3, InvOf DEF BeforeHandshakeOf, SentAreAcceptedOf, Working
<1>6. \A b \in Submissions \cup {None} : Tracks(c, b) => Tracks(c, b)'
  BY <1>1 DEF Tracks, Working
<1>7. QED
  BY <1>1, <1>2, <1>4, <1>5, <1>6, LocalStep

\* The write loop hands the request to the stream, or loses it with the stream.
LEMMA WriteInv ==
    ASSUME QueueInv, TypeOK', NEW c \in Conns, WriteLoop(c)
    PROVE  QueueInv'
<1>0. /\ UNCHANGED <<submission_queue, connected_invokers, handler, link, up, node, node_sub,
                     accepted, tested, requeued>>
      /\ Served(c) /\ channel[c] # <<>>
      /\ channel'[c] = Tail(channel[c])
      /\ down'[c] = IF link[c] = "up" THEN Append(down[c], Head(channel[c])) ELSE down[c]
      /\ \A d \in Conns : d # c => channel'[d] = channel[d] /\ down'[d] = down[d]
  BY DEF WriteLoop, nodeVars, historyVars, QueueInv, TypeOK, Served
<1>1. /\ channel[c] \in Seq(accepted) /\ down[c] \in Seq(accepted)
      /\ Tail(channel[c]) \in Seq(accepted) /\ Head(channel[c]) \in accepted
  BY <1>0, InvOf, HeadTailProperties DEF SentAreAcceptedOf
<1>2. OthersUntouched(c) /\ (Served(c) <=> Served(c)')
  BY <1>0 DEF OthersUntouched, Served
<1>3. OneConnPerId'
  BY <1>0 DEF QueueInv, OneConnPerId, Live
<1>4. BeforeHandshakeOf(c)'
  BY <1>0, InvOf DEF BeforeHandshakeOf, Working, Served
<1>5. SentAreAcceptedOf(c)'
  BY <1>0, <1>1, InvOf DEF SentAreAcceptedOf, Working
<1>6. ASSUME NEW b \in Submissions \cup {None}, Tracks(c, b)
      PROVE  Tracks(c, b)'
  <2>1. Len(channel[c]) = 1 /\ channel[c][1] = b
    BY <1>0, <1>6 DEF Tracks
  <2>2. down[c] = <<>> /\ up[c] = <<>> /\ ~Working(c)
    BY <1>0, <1>6 DEF Tracks
  <2>3. channel'[c] = <<>> /\ Head(channel[c]) = b
    BY <1>0, <1>1, <2>1, OneElement
  <2>4. down'[c] = <<b>> \/ down'[c] = <<>>
    BY <1>0, <2>2, <2>3, AppendToEmpty
  <2>5. down'[c] # <<>> => Len(down'[c]) = 1 /\ down'[c][1] = b
    BY <2>4, AppendToEmpty
  <2>6. QED
    BY <1>0, <1>6, <2>2, <2>3, <2>5 DEF Tracks, Working
<1>7. QED
  BY <1>0, <1>2, <1>3, <1>4, <1>5, <1>6, LocalStep

\* A node process starts: no other live connection has its id.
LEMMA StartInv ==
    ASSUME QueueInv, TypeOK', OverlappingIds = FALSE, NEW c \in Conns, NodeStart(c)
    PROVE  QueueInv'
<1>0. /\ UNCHANGED <<submission_queue, connected_invokers, channel, handler, down, node_sub,
                     accepted, tested, requeued>>
      /\ node[c] = "off" /\ node'[c] = "ready"
      /\ up'[c] = Append(up[c], "handshake")
      /\ \A d \in Conns : d # c => up'[d] = up[d] /\ node'[d] = node[d] /\ link'[d] = link[d]
  BY DEF NodeStart, dispatcherVars, historyVars, QueueInv, TypeOK
<1>1. handler[c] = "none" /\ up[c] = <<>> /\ channel[c] = <<>> /\ down[c] = <<>>
  BY <1>0, InvOf DEF BeforeHandshakeOf
<1>2. OthersUntouched(c) /\ (Served(c) <=> Served(c)') /\ ~Served(c)
  BY <1>0, <1>1 DEF OthersUntouched, Served
<1>3. \A d \in Conns \ {c} : IdOf[d] = IdOf[c] => ~Live(d)
  BY DEF NodeStart, MayStart, Live
<1>4. OneConnPerId'
  BY <1>0, <1>3 DEF QueueInv, OneConnPerId, Live
<1>5. Len(up'[c]) = 1
  BY <1>0, <1>1
<1>6. BeforeHandshakeOf(c)' /\ SentAreAcceptedOf(c)'
  BY <1>0, <1>1, <1>5, InvOf DEF BeforeHandshakeOf, SentAreAcceptedOf, Working
<1>7. QED
  BY <1>0, <1>2, <1>4, <1>6, LocalStep

\* The node takes its request.
LEMMA NodeReadInv ==
    ASSUME QueueInv, TypeOK', NEW c \in Conns, NodeRead(c)
    PROVE  QueueInv'
<1>0. /\ UNCHANGED <<submission_queue, connected_invokers, channel, handler, link, up,
                     accepted, tested, requeued>>
      /\ node[c] = "ready" /\ down[c] # <<>>
      /\ node'[c] = "testing" /\ node_sub'[c] = Head(down[c]) /\ down'[c] = Tail(down[c])
      /\ \A d \in Conns : d # c => /\ down'[d] = down[d] /\ node'[d] = node[d]
                                    /\ node_sub'[d] = node_sub[d]
  BY DEF NodeRead, dispatcherVars, historyVars, QueueInv, TypeOK
<1>1. Tail(down[c]) \in Seq(accepted) /\ Head(down[c]) \in accepted
  BY <1>0, InvOf, HeadTailProperties DEF SentAreAcceptedOf
<1>2. OthersUntouched(c) /\ (Served(c) <=> Served(c)')
  BY <1>0 DEF OthersUntouched, Served
<1>3. OneConnPerId'
  BY <1>0 DEF QueueInv, OneConnPerId, Live
<1>4. BeforeHandshakeOf(c)' /\ SentAreAcceptedOf(c)'
  BY <1>0, <1>1, InvOf DEF BeforeHandshakeOf, SentAreAcceptedOf, Working
<1>5. ASSUME NEW b \in Submissions \cup {None}, Tracks(c, b)
      PROVE  Tracks(c, b)'
  <2>1. Len(down[c]) = 1 /\ down[c][1] = b /\ channel[c] = <<>> /\ up[c] = <<>>
    BY <1>0, <1>5 DEF Tracks
  <2>2. down[c] \in Seq(Submissions)
    BY InvOf
  <2>3. Head(down[c]) = b /\ Tail(down[c]) = <<>>
    BY <2>1, <2>2, OneElement
  <2>4. QED
    BY <1>0, <2>1, <2>3 DEF Tracks, Working
<1>6. QED
  BY <1>0, <1>2, <1>3, <1>4, <1>5, LocalStep

\* The node stores its result.
LEMMA NodeTestInv ==
    ASSUME QueueInv, TypeOK', NEW c \in Conns, NodeTest(c)
    PROVE  QueueInv'
<1>0. /\ UNCHANGED <<submission_queue, connected_invokers, channel, handler, link, up, down,
                     node_sub, accepted, requeued>>
      /\ node[c] = "testing" /\ node'[c] = "responding"
      /\ tested' = tested \cup {node_sub[c]}
      /\ \A d \in Conns : d # c => node'[d] = node[d]
  BY DEF NodeTest, dispatcherVars, QueueInv, TypeOK
<1>1. OthersUntouched(c) /\ (Served(c) <=> Served(c)')
  BY <1>0 DEF OthersUntouched, Served
<1>2. OneConnPerId'
  BY <1>0 DEF QueueInv, OneConnPerId, Live
<1>3. BeforeHandshakeOf(c)' /\ SentAreAcceptedOf(c)'
  BY <1>0, InvOf DEF BeforeHandshakeOf, SentAreAcceptedOf, Working
<1>4. \A b \in Submissions \cup {None} : Tracks(c, b) => Tracks(c, b)'
  BY <1>0 DEF Tracks, Working
<1>5. QED
  BY <1>0, <1>1, <1>2, <1>3, <1>4, LocalStep

\* The node answers, or its answer is lost with the stream.
LEMMA NodeRespondInv ==
    ASSUME QueueInv, TypeOK', NEW c \in Conns, NodeRespond(c)
    PROVE  QueueInv'
<1>0. /\ UNCHANGED <<submission_queue, connected_invokers, channel, handler, link, down,
                     accepted, tested, requeued>>
      /\ node[c] = "responding" /\ node'[c] = "ready"
      /\ up'[c] = Append(up[c], "response") \/ up'[c] = up[c]
      /\ \A d \in Conns : d # c => /\ up'[d] = up[d] /\ node'[d] = node[d]
                                    /\ node_sub'[d] = node_sub[d]
  BY DEF NodeRespond, dispatcherVars, historyVars, QueueInv, TypeOK
<1>1. OthersUntouched(c) /\ (Served(c) <=> Served(c)')
  BY <1>0 DEF OthersUntouched, Served
<1>2. OneConnPerId'
  BY <1>0 DEF QueueInv, OneConnPerId, Live
<1>3. BeforeHandshakeOf(c)' /\ SentAreAcceptedOf(c)'
  BY <1>0, InvOf DEF BeforeHandshakeOf, SentAreAcceptedOf, Working
<1>4. ASSUME NEW b \in Submissions \cup {None}, Tracks(c, b)
      PROVE  Tracks(c, b)'
  <2>1. Working(c) /\ ~Working(c)'
    BY <1>0 DEF Working
  <2>2. up[c] = <<>> /\ channel[c] = <<>> /\ down[c] = <<>> /\ b \in tested
    BY <1>0, <1>4, <2>1 DEF Tracks
  <2>3. up'[c] # <<>> => Len(up'[c]) = 1
    <3>1. up'[c] = Append(<<>>, "response") \/ up'[c] = <<>>
      BY <1>0, <2>2
    <3>2. QED
      BY <3>1, AppendToEmpty
  <2>4. QED
    BY <1>0, <2>1, <2>2, <2>3 DEF Tracks
<1>5. QED
  BY <1>0, <1>1, <1>2, <1>3, <1>4, LocalStep

\* Node and stream fail: messages disappear, none appears.
LEMMA FailureInv ==
    ASSUME QueueInv, TypeOK', NEW c \in Conns, NodeExit(c) \/ LinkBreak(c) \/ NodeCrash(c)
    PROVE  QueueInv'
<1>0. /\ UNCHANGED <<submission_queue, connected_invokers, channel, handler,
                     accepted, tested, requeued>>
      /\ (node'[c] = node[c] /\ node_sub'[c] = node_sub[c]) \/ node'[c] = "gone"
      /\ node[c] = "off" => link[c] # "up" /\ node'[c] = "off"
      /\ \A d \in Conns : d # c => /\ up'[d] = up[d] /\ down'[d] = down[d]
                                    /\ node'[d] = node[d] /\ node_sub'[d] = node_sub[d]
                                    /\ link'[d] = link[d]
  <2>1. CASE NodeExit(c)
    BY <2>1, InvOf DEF NodeExit, BeforeHandshakeOf, dispatcherVars, historyVars, QueueInv, TypeOK
  <2>2. CASE LinkBreak(c)
    BY <2>2, InvOf DEF LinkBreak, LosesSuffix, BeforeHandshakeOf, dispatcherVars, nodeVars,
                       historyVars, QueueInv, TypeOK
  <2>3. CASE NodeCrash(c)
    BY <2>3, InvOf DEF NodeCrash, LosesSuffix, BeforeHandshakeOf, dispatcherVars, historyVars,
                       QueueInv, TypeOK
  <2>4. QED
    BY <2>1, <2>2, <2>3
<1>1. OthersUntouched(c) /\ (Served(c) <=> Served(c)')
  BY <1>0 DEF OthersUntouched, Served
<1>2. PICK i \in 0 .. Len(up[c]) : up'[c] = SubSeq(up[c], 1, i)
  <2>1. CASE NodeExit(c)
    BY <2>1, InvOf DEF NodeExit
  <2>2. CASE LosesSuffix(c)
    BY <2>2 DEF LosesSuffix, QueueInv, TypeOK
  <2>3. QED
    BY <2>1, <2>2 DEF LinkBreak, NodeCrash
<1>3. PICK j \in 0 .. Len(down[c]) : down'[c] = SubSeq(down[c], 1, j)
  <2>1. CASE NodeExit(c)
    BY <2>1, InvOf DEF NodeExit
  <2>2. CASE LosesSuffix(c)
    BY <2>2 DEF LosesSuffix, QueueInv, TypeOK
  <2>3. QED
    BY <2>1, <2>2 DEF LinkBreak, NodeCrash
<1>4. /\ up[c] = <<>> => up'[c] = <<>>
      /\ Len(up[c]) = 1 /\ up'[c] # <<>> => Len(up'[c]) = 1
  BY <1>2, InvOf
<1>5. /\ down[c] = <<>> => down'[c] = <<>>
      /\ Len(down[c]) = 1 /\ down'[c] # <<>> => Len(down'[c]) = 1 /\ down'[c][1] = down[c][1]
      /\ down[c] \in Seq(accepted) => down'[c] \in Seq(accepted)
  BY <1>3, InvOf
<1>6. OneConnPerId'
  <2>1. \A d \in Conns : Live(d)' => Live(d)
    BY <1>0 DEF Live
  <2>2. QED
    BY <2>1 DEF QueueInv, OneConnPerId
<1>7. BeforeHandshakeOf(c)' /\ SentAreAcceptedOf(c)'
  <2>1. Working(c)' => Working(c) /\ node_sub'[c] = node_sub[c]
    BY <1>0 DEF Working
  <2>2. node'[c] = "off" => link'[c] = "idle"
    <3>1. node'[c] = "off" => node[c] = "off"
      BY <1>0
    <3>2. node[c] = "off" => ~NodeExit(c) /\ ~LinkBreak(c) /\ ~NodeCrash(c)
      BY <1>0 DEF NodeExit, LinkBreak, NodeCrash
    <3>3. QED
      BY <3>1, <3>2
  <2>3. BeforeHandshakeOf(c)'
    BY <1>0, <1>4, <1>5, <2>1, <2>2, InvOf DEF BeforeHandshakeOf
  <2>4. SentAreAcceptedOf(c)'
    BY <1>0, <1>5, <2>1, InvOf DEF SentAreAcceptedOf
  <2>5. QED
    BY <2>3, <2>4
<1>8. ASSUME NEW b \in Submissions \cup {None}, Tracks(c, b)
      PROVE  Tracks(c, b)'
  <2>1. Working(c)' => Working(c) /\ node_sub'[c] = node_sub[c]
    BY <1>0 DEF Working
  <2>2. node'[c] = "responding" => node[c] = "responding"
    BY <1>0
  <2>3. QED
    BY <1>0, <1>4, <1>5, <1>8, <2>1, <2>2 DEF Tracks
<1>9. QED
  BY <1>0, <1>1, <1>6, <1>7, <1>8, LocalStep
-----------------------------------------------------------------------------
(* The theorems.                                                           *)

\* Initially nothing is queued, registered or under way.
LEMMA QueueInvInit == Init => QueueInv
<1> SUFFICES ASSUME Init PROVE QueueInv
  OBVIOUS
<1> USE DEF Init
<1>1. TypeOK /\ WorkingNodeHasSubmission /\ OneConnPerId /\ BeforeHandshake
  BY DEF TypeOK, WorkingNodeHasSubmission, OneConnPerId, BeforeHandshake, Working, Live
<1>2. Queued = {} /\ Assigned = {}
  BY DEF Queued, Assigned, ToSet
<1>3. Registered /\ RequestTracked
  BY DEF Registered, RequestTracked
<1>4. SentAreAccepted
  BY <1>2 DEF SentAreAccepted, Working
<1>5. NoSubmissionLost /\ OneHolder
  BY <1>2 DEF NoSubmissionLost, OneHolder
<1>6. QED
  BY <1>1, <1>3, <1>4, <1>5 DEF QueueInv

\* Every step keeps the invariant when no two live nodes share an id.
LEMMA QueueInvStep ==
    ASSUME QueueInv, OverlappingIds = FALSE, [Next]_vars
    PROVE  QueueInv'
<1>0. TypeOK'
  BY TypeStep DEF QueueInv
<1>1. ASSUME NEW s \in Submissions, PushSubmission(s)
      PROVE  QueueInv'
  BY <1>0, <1>1, PushInv
<1>2. ASSUME NEW c \in Conns, Progress(c)
      PROVE  QueueInv'
  BY <1>0, <1>2, ConnectInv, HandlerEndsInv, ReadInv, WriteInv, DisconnectInv, NodeReadInv,
     NodeTestInv, NodeRespondInv, FailureInv DEF Progress
<1>3. ASSUME NEW c \in Conns, NodeStart(c) \/ LinkBreak(c) \/ NodeCrash(c)
      PROVE  QueueInv'
  BY <1>0, <1>3, StartInv, FailureInv
<1>4. CASE UNCHANGED vars
  BY <1>4 DEF vars, QueueInv, TypeOK, WorkingNodeHasSubmission, Registered, OneConnPerId,
              BeforeHandshake, RequestTracked, Tracks, SentAreAccepted, NoSubmissionLost,
              OneHolder, Queued, Assigned, Working, Live
<1>5. QED
  BY <1>1, <1>2, <1>3, <1>4 DEF Next

\* The inductive invariant holds whenever the deployment keeps two live nodes
\* from using one id.
THEOREM QueueInvariant ==
    ASSUME OverlappingIds = FALSE
    PROVE  Spec => []QueueInv
<1>1. QueueInv /\ [Next]_vars => QueueInv'
  BY QueueInvStep
<1>2. QED
  BY <1>1, QueueInvInit, PTL DEF Spec

\* Without duplicate ids no accepted submission is lost, whatever nodes and
\* streams do: each is queued, assigned or tested.
THEOREM NothingLost ==
    ASSUME OverlappingIds = FALSE
    PROVE  Spec => []NoSubmissionLost
<1>1. QueueInv => NoSubmissionLost
  BY DEF QueueInv
<1>2. QED
  BY <1>1, QueueInvariant, PTL

\* ... and none is held twice.
THEOREM HeldOnce ==
    ASSUME OverlappingIds = FALSE
    PROVE  Spec => []OneHolder
<1>1. QueueInv => OneHolder
  BY DEF QueueInv
<1>2. QED
  BY <1>1, QueueInvariant, PTL

\* ... and findInvokerIndexById never fails for a handler that is served.
THEOREM LookupSucceeds ==
    ASSUME OverlappingIds = FALSE
    PROVE  Spec => []LookupNeverFails
<1>1. QueueInv => LookupNeverFails
  <2>1. SUFFICES ASSUME QueueInv, NEW c \in Conns, handler[c] \in {"serving", "closing"}
                 PROVE  EntriesOf(connected_invokers, IdOf[c]) # {}
    BY DEF LookupNeverFails
  <2>2. PICK k \in DOMAIN connected_invokers : connected_invokers[k].conn = c
    BY <2>1 DEF QueueInv, Registered
  <2>3. k \in EntriesOf(connected_invokers, IdOf[c])
    BY <2>2 DEF EntriesOf
  <2>4. QED
    BY <2>3
<1>2. QED
  BY <1>1, QueueInvariant, PTL

\* ... and no node is ever sent a second request before it answered the first.
THEOREM NeverTwoRequests ==
    ASSUME OverlappingIds = FALSE
    PROVE  Spec => []OneRequestInFlight
<1>1. QueueInv => OneRequestInFlight
  <2>1. SUFFICES ASSUME QueueInv, NEW c \in Conns, handler[c] = "serving"
                 PROVE  Len(channel[c]) + Len(down[c]) + Len(up[c])
                           + (IF node[c] \in {"testing", "responding"} THEN 1 ELSE 0) <= 1
    BY DEF OneRequestInFlight
  <2>2. PICK k \in DOMAIN connected_invokers : connected_invokers[k].conn = c
    BY <2>1 DEF QueueInv, Registered
  <2>3. Tracks(c, connected_invokers[k].busy)
    BY <2>1, <2>2 DEF QueueInv, RequestTracked
  <2>4. /\ channel[c] # <<>> => Len(channel[c]) = 1
        /\ down[c] # <<>> => Len(down[c]) = 1 /\ channel[c] = <<>>
        /\ Working(c) => channel[c] = <<>> /\ down[c] = <<>>
        /\ up[c] # <<>> => /\ Len(up[c]) = 1 /\ channel[c] = <<>> /\ down[c] = <<>>
                           /\ ~Working(c)
    BY <2>3 DEF Tracks
  <2>5. Len(<<>>) = 0
    OBVIOUS
  <2>6. \/ Len(channel[c]) = 0 /\ Len(down[c]) = 0 /\ Len(up[c]) = 0
        \/ Len(channel[c]) = 1 /\ Len(down[c]) = 0 /\ Len(up[c]) = 0
        \/ Len(channel[c]) = 0 /\ Len(down[c]) = 1 /\ Len(up[c]) = 0
        \/ Len(channel[c]) = 0 /\ Len(down[c]) = 0 /\ Len(up[c]) = 1
    <3>1. CASE channel[c] # <<>>
      BY <2>4, <2>5, <3>1
    <3>2. CASE down[c] # <<>>
      BY <2>4, <2>5, <3>2
    <3>3. CASE up[c] # <<>>
      BY <2>4, <2>5, <3>3
    <3>4. CASE channel[c] = <<>> /\ down[c] = <<>> /\ up[c] = <<>>
      BY <2>5, <3>4
    <3>5. QED
      BY <3>1, <3>2, <3>3, <3>4
  <2>7. PICK w \in {0, 1} :
           /\ w = IF node[c] \in {"testing", "responding"} THEN 1 ELSE 0
           /\ w = 0 \/ Working(c)
    BY DEF Working
  <2>8. Len(channel[c]) + Len(down[c]) + Len(up[c]) + w <= 1
    <3>1. CASE w = 0
      <4> DEFINE x == Len(channel[c])
                 y == Len(down[c])
                 z == Len(up[c])
      <4>1. \/ x = 0 /\ y = 0 /\ z = 0
            \/ x = 1 /\ y = 0 /\ z = 0
            \/ x = 0 /\ y = 1 /\ z = 0
            \/ x = 0 /\ y = 0 /\ z = 1
        BY <2>6
      <4> HIDE DEF x, y, z
      <4>2. x + y + z + w <= 1
        BY <3>1, <4>1
      <4>3. QED
        BY <4>2 DEF x, y, z
    <3>2. CASE w = 1
      <4>1. channel[c] = <<>> /\ down[c] = <<>> /\ up[c] = <<>>
        BY <2>4, <2>7, <3>2
      <4>2. QED
        BY <2>5, <3>2, <4>1
    <3>3. QED
      BY <2>7, <3>1, <3>2
  <2>9. QED
    BY <2>7, <2>8
<1>2. QED
  BY <1>1, QueueInvariant, PTL
-----------------------------------------------------------------------------
(* The idle invokers, and the refinement of Judging.                       *)

\* A result is stored for a submission that was accepted, or nothing happens
\* to the places at all.
Stays ==
    /\ Queued' = Queued /\ Assigned' = Assigned /\ accepted' = accepted
    /\ tested' = tested \/ \E s \in accepted : tested' = tested \cup {s}

\* Every step does one of these to the places of submissions.
LEMMA Places ==
    ASSUME QueueInv, OverlappingIds = FALSE, [Next]_vars
    PROVE  /\ IdleOnly => IdleOnly'
           /\ \/ \E s \in Submissions : Joins(s)
              \/ \E done \in Assigned \cap tested, b \in Submissions \cup {None} : HandedOut(b, done)
              \/ \E b \in Submissions \cup {None} : HandedOut(b, None)
              \/ \E b \in Submissions \cup {None} : PutBack(b)
              \/ Stays
<1>0. TypeOK'
  BY TypeStep DEF QueueInv
<1>1. ASSUME UNCHANGED <<submission_queue, connected_invokers, accepted, requeued>>,
             tested' = tested \/ \E s \in accepted : tested' = tested \cup {s}
      PROVE  Stays /\ (IdleOnly => IdleOnly')
  <2>1. Queued' = Queued /\ Assigned' = Assigned
    BY <1>1 DEF Queued, Assigned
  <2>2. QED
    BY <1>1, <2>1 DEF Stays, IdleOnly, CanTestSubmission
<1>2. ASSUME NEW c \in Conns, NodeTest(c)
      PROVE  Stays /\ (IdleOnly => IdleOnly')
  <2>1. node_sub[c] \in accepted
    BY <1>2 DEF NodeTest, QueueInv, SentAreAccepted, Working
  <2>2. QED
    BY <1>1, <1>2, <2>1 DEF NodeTest, dispatcherVars
<1>3. ASSUME NEW c \in Conns, \/ RejectHandshake(c) \/ ReadLoopFails(c) \/ WriteLoop(c)
                              \/ NodeRead(c) \/ NodeRespond(c) \/ NodeExit(c)
                              \/ NodeStart(c) \/ LinkBreak(c) \/ NodeCrash(c)
      PROVE  Stays /\ (IdleOnly => IdleOnly')
  <2>1. UNCHANGED <<submission_queue, connected_invokers, accepted, tested, requeued>>
    BY <1>3 DEF RejectHandshake, ReadLoopFails, WriteLoop, NodeRead, NodeRespond, NodeExit,
                NodeStart, LinkBreak, NodeCrash, dispatcherVars, historyVars
  <2>2. QED
    BY <1>1, <2>1
<1>4. CASE UNCHANGED vars
  BY <1>1, <1>4 DEF vars
<1>5. ASSUME NEW s \in Submissions, PushSubmission(s)
      PROVE  Joins(s) /\ (IdleOnly => IdleOnly')
  BY <1>0, <1>5, PushInv
<1>6. ASSUME NEW c \in Conns, ConnectHandler(c)
      PROVE  (\E b \in Submissions \cup {None} : HandedOut(b, None)) /\ (IdleOnly => IdleOnly')
  BY <1>0, <1>6, ConnectInv
<1>7. ASSUME NEW c \in Conns, ReadLoop(c)
      PROVE  /\ \E done \in Assigned \cap tested, b \in Submissions \cup {None} : HandedOut(b, done)
             /\ IdleOnly => IdleOnly'
  BY <1>0, <1>7, ReadInv
<1>8. ASSUME NEW c \in Conns, Disconnect(c)
      PROVE  (\E b \in Submissions \cup {None} : PutBack(b)) /\ (IdleOnly => IdleOnly')
  BY <1>0, <1>8, DisconnectInv
<1>9. \/ UNCHANGED vars
      \/ \E s \in Submissions : PushSubmission(s)
      \/ \E c \in Conns :
            \/ RejectHandshake(c) \/ ReadLoopFails(c) \/ WriteLoop(c)
            \/ NodeRead(c) \/ NodeRespond(c) \/ NodeExit(c)
            \/ NodeStart(c) \/ LinkBreak(c) \/ NodeCrash(c)
            \/ NodeTest(c) \/ ConnectHandler(c) \/ ReadLoop(c) \/ Disconnect(c)
  BY DEF Next, Progress
<1>10. QED
  BY <1>2, <1>3, <1>4, <1>5, <1>6, <1>7, <1>8, <1>9

\* Without duplicate ids an invoker is never idle beside a queued submission it
\* can test, except one that a disconnect has put back: pushSubmission,
\* connectInvoker and freeInvoker together leave no such pair.
THEOREM IdleOnlyBesideThoseRequeued ==
    ASSUME OverlappingIds = FALSE
    PROVE  Spec => []IdleOnlyBesideRequeued
<1>1. Init => QueueInv /\ IdleOnly
  <2>1. Init => IdleOnly
    BY DEF Init, IdleOnly
  <2>2. QED
    BY <2>1, QueueInvInit
<1>2. QueueInv /\ IdleOnly /\ [Next]_vars => QueueInv' /\ IdleOnly'
  BY QueueInvStep, Places
<1>3. QueueInv /\ IdleOnly => IdleOnlyBesideRequeued
  BY DEF IdleOnly, IdleOnlyBesideRequeued, IdleFor, Queued, ToSet
<1>4. QED
  BY <1>1, <1>2, <1>3, PTL DEF Spec

\* The status of a submission, case by case, in this state and in the next.
LEMMA StatusCases ==
    ASSUME NEW s
    PROVE  /\ s \in Queued => StatusOf(s) = "pending"
           /\ (s \in Assigned /\ s \notin Queued) => StatusOf(s) = "assigned"
           /\ (s \in accepted /\ s \notin Queued \cup Assigned) => StatusOf(s) = "finished"
           /\ s \notin Queued \cup Assigned \cup accepted => StatusOf(s) = "unknown"
BY DEF StatusOf

LEMMA StatusCasesNext ==
    ASSUME NEW s
    PROVE  /\ s \in Queued' => StatusOf(s)' = "pending"
           /\ (s \in Assigned' /\ s \notin Queued') => StatusOf(s)' = "assigned"
           /\ (s \in accepted' /\ s \notin Queued' \cup Assigned') => StatusOf(s)' = "finished"
           /\ s \notin Queued' \cup Assigned' \cup accepted' => StatusOf(s)' = "unknown"
BY DEF StatusOf

\* A submission whose place does not change keeps its status.
LEMMA SameStatus ==
    ASSUME NEW s, s \in Queued' <=> s \in Queued, s \in Assigned' <=> s \in Assigned,
           s \in accepted' <=> s \in accepted
    PROVE  StatusOf(s)' = StatusOf(s)
BY StatusCases, StatusCasesNext

Status == [s \in Submissions |-> StatusOf(s)]

\* The queue implements Judging: what a step does to the places of submissions
\* is a step of Judging or leaves it alone.
LEMMA JudgingStep ==
    ASSUME QueueInv, QueueInv', OverlappingIds = FALSE, [Next]_vars
    PROVE  [Promise!Next]_<<Status, tested>>
<1> USE DEF Status
<1>0. /\ accepted \subseteq Submissions /\ Queued \cup Assigned \subseteq accepted
      /\ Queued \cap Assigned = {} /\ None \notin Submissions /\ None \notin Assigned
  BY QueueAssumption DEF QueueInv, TypeOK, SentAreAccepted, OneHolder, Assigned
<1>1. ASSUME NEW s \in Submissions, Joins(s)
      PROVE  Promise!Accept(s)
  <2>1. PICK v \in {"pending", "assigned"} : StatusOf(s)' = v
    BY <1>1, StatusCasesNext DEF Joins
  <2>2. StatusOf(s) = "unknown"
    BY <1>1, StatusCases DEF Joins
  <2>3. \A t \in Submissions \ {s} : StatusOf(t)' = StatusOf(t)
    BY <1>1, SameStatus DEF Joins
  <2>4. Status' = [Status EXCEPT ![s] = v]
    BY <2>1, <2>3
  <2>5. QED
    BY <1>1, <2>1, <2>2, <2>4 DEF Promise!Accept, Joins
<1>2. ASSUME NEW b \in Submissions \cup {None}, HandedOut(b, None)
      PROVE  UNCHANGED <<Status, tested>> \/ (b \in Submissions /\ Promise!Assign(b))
  <2>1. \A t \in Submissions \ {b} : StatusOf(t)' = StatusOf(t)
    BY <1>0, <1>2, SameStatus DEF HandedOut
  <2>2. CASE b = None
    BY <1>0, <1>2, <2>1, <2>2 DEF HandedOut
  <2>3. CASE b \in Submissions
    <3>1. b # None /\ StatusOf(b) = "pending"
      BY <1>0, <1>2, <2>3, StatusCases DEF HandedOut
    <3>2. StatusOf(b)' = "assigned"
      BY <1>2, <3>1, StatusCasesNext DEF HandedOut
    <3>3. Status' = [Status EXCEPT ![b] = "assigned"]
      BY <2>1, <2>3, <3>2
    <3>4. QED
      BY <1>2, <2>3, <3>1, <3>3 DEF Promise!Assign, HandedOut
  <2>4. QED
    BY <2>2, <2>3
<1>3. ASSUME NEW done \in Assigned \cap tested, NEW b \in Submissions \cup {None},
             HandedOut(b, done)
      PROVE  Promise!Finish(done)
  <2>1. done \in Submissions /\ StatusOf(done) = "assigned"
    BY <1>0, StatusCases
  <2>2. b # done
    BY <1>0, <1>3 DEF HandedOut
  <2>3. StatusOf(done)' = "finished"
    BY <1>0, <1>3, <2>2, StatusCasesNext DEF HandedOut
  <2>4. \A t \in Submissions \ {b, done} : StatusOf(t)' = StatusOf(t)
    BY <1>0, <1>3, SameStatus DEF HandedOut
  <2>5. CASE b = None
    <3>1. Status' = [Status EXCEPT ![done] = "finished"]
      BY <1>0, <2>1, <2>3, <2>4, <2>5
    <3>2. QED
      BY <1>3, <2>1, <3>1 DEF Promise!Finish, HandedOut
  <2>6. CASE b \in Submissions
    <3>1. b # None /\ StatusOf(b) = "pending"
      BY <1>0, <1>3, <2>6, StatusCases DEF HandedOut
    <3>2. StatusOf(b)' = "assigned"
      BY <1>3, <3>1, StatusCasesNext DEF HandedOut
    <3>3. Status' = [Status EXCEPT ![done] = "finished", ![b] = "assigned"]
      BY <2>1, <2>2, <2>3, <2>4, <2>6, <3>2
    <3>4. QED
      BY <1>3, <2>1, <2>6, <3>1, <3>3 DEF Promise!Finish, HandedOut
  <2>7. QED
    BY <2>5, <2>6
<1>4. ASSUME NEW b \in Submissions \cup {None}, PutBack(b)
      PROVE  UNCHANGED <<Status, tested>> \/ (b \in Submissions /\ Promise!Return(b))
  <2>1. \A t \in Submissions \ {b} : StatusOf(t)' = StatusOf(t)
    BY <1>0, <1>4, SameStatus DEF PutBack
  <2>2. CASE b = None
    BY <1>0, <1>4, <2>1, <2>2 DEF PutBack
  <2>3. CASE b \in Submissions
    <3>1. b # None /\ StatusOf(b) = "assigned"
      BY <1>0, <1>4, <2>3, StatusCases DEF PutBack
    <3>2. StatusOf(b)' = "pending"
      BY <1>4, <3>1, StatusCasesNext DEF PutBack
    <3>3. Status' = [Status EXCEPT ![b] = "pending"]
      BY <2>1, <2>3, <3>2
    <3>4. QED
      BY <1>4, <2>3, <3>1, <3>3 DEF Promise!Return, PutBack
  <2>4. QED
    BY <2>2, <2>3
<1>5. ASSUME Stays
      PROVE  UNCHANGED <<Status, tested>> \/ \E s \in Submissions : Promise!StoreResult(s)
  <2>1. Status' = Status
    BY <1>5, SameStatus DEF Stays
  <2>2. ASSUME NEW s \in accepted, tested' = tested \cup {s}
        PROVE  Promise!StoreResult(s)
    <3>1. StatusOf(s) # "unknown"
      BY StatusCases
    <3>2. QED
      BY <1>0, <2>1, <2>2, <3>1 DEF Promise!StoreResult
  <2>3. QED
    BY <1>0, <1>5, <2>1, <2>2 DEF Stays
<1>6. \/ \E s \in Submissions : Joins(s)
      \/ \E done \in Assigned \cap tested, b \in Submissions \cup {None} : HandedOut(b, done)
      \/ \E b \in Submissions \cup {None} : HandedOut(b, None)
      \/ \E b \in Submissions \cup {None} : PutBack(b)
      \/ Stays
  BY Places
<1>7. QED
  BY <1>0, <1>1, <1>2, <1>3, <1>4, <1>5, <1>6 DEF Promise!Next

\* Without duplicate ids the dispatcher keeps its promise of at-least-once
\* judging, for any number of submissions, nodes and failures: a submission is
\* finished only after a result is stored, and never handed out again.
THEOREM QueueImplementsJudging ==
    ASSUME OverlappingIds = FALSE
    PROVE  Spec => ImplementsJudging
<1>1. Init => Promise!Init
  <2>1. SUFFICES ASSUME Init PROVE Promise!Init
    OBVIOUS
  <2>2. Queued = {} /\ Assigned = {} /\ accepted = {} /\ tested = {}
    BY <2>1 DEF Init, Queued, Assigned, ToSet
  <2>3. \A s \in Submissions : StatusOf(s) = "unknown"
    BY <2>2, StatusCases
  <2>4. QED
    BY <2>2, <2>3 DEF Promise!Init
<1>2. QueueInv /\ QueueInv' /\ [Next]_vars => [Promise!Next]_<<Status, tested>>
  BY JudgingStep
<1>3. QED
  BY <1>1, <1>2, QueueInvariant, PTL DEF Spec, ImplementsJudging, Promise!Spec, Status
=============================================================================
