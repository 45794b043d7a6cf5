----------------------- MODULE LibpqConnection_proofs -----------------------
(***************************************************************************)
(* One LibpqConnection serves any number of coroutines one at a time and   *)
(* in the order of their calls, and replays the log once and in order.     *)
(***************************************************************************)
EXTENDS LibpqConnection, SequenceTheorems, TLAPS

\* One coroutine holds the connection while the flag is up.
Held ==
    /\ execution_in_progress <=> \E t \in Tasks : Holder(t)
    /\ \A t, u \in Tasks : Holder(t) /\ Holder(u) => t = u

\* The waiters are the coroutines that wait, each once.
Waits(t) == \E i \in 1..Len(execution_waiters) : execution_waiters[i] = t
Waiting ==
    /\ \A t \in Tasks : pc[t] = "waiting" <=> Waits(t)
    /\ \A i, j \in 1..Len(execution_waiters) :
          execution_waiters[i] = execution_waiters[j] => i = j
    /\ execution_waiters # <<>> => execution_in_progress

\* Those who asked: the ones served, then the one woken, if any, then the waiters.
Woken == \E t \in Tasks : pc[t] = "woken"
Rest == IF Woken THEN Len(served) + 1 ELSE Len(served)
Ordered ==
    /\ Len(arrived) = Rest + Len(execution_waiters)
    /\ \A i \in 1..Len(served) : served[i] = arrived[i]
    /\ \A t \in Tasks : pc[t] = "woken" => arrived[Len(served) + 1] = t
    /\ \A i \in 1..Len(execution_waiters) : execution_waiters[i] = arrived[Rest + i]

\* libpq is busy for the holder's command or for one that was rejected.
Refusing ==
    /\ busy => rejected # {} \/ \E t \in Tasks : pc[t] = "sent"
    /\ \A t \in Tasks : pc[t] = "error" => rejected # {}

LibpqInv == TypeOK /\ Held /\ Waiting /\ Ordered /\ Refusing /\ ReplayedOnceInOrder

LEMMA TailElements ==
  ASSUME NEW S, NEW s \in Seq(S), s # <<>>
  PROVE  /\ Tail(s) \in Seq(S) /\ Len(Tail(s)) = Len(s) - 1 /\ Len(s) >= 1
         /\ \A i \in 1..(Len(s) - 1) : Tail(s)[i] = s[i + 1]
         /\ Head(s) = s[1] /\ Head(s) \in S
<1>1. Len(s) \in Nat /\ Len(s) # 0
  BY EmptySeq
<1> QED  BY <1>1, HeadTailProperties

LEMMA InitLibpq == Init => LibpqInv
<1> SUFFICES ASSUME Init PROVE LibpqInv
  OBVIOUS
<1>1. TypeOK
  <2>1. <<>> \in Seq(Tasks) /\ <<>> \in Seq(Nat)
    BY EmptySeq
  <2>2. pc \in [Tasks -> {"new", "waiting", "woken", "sent", "ok", "error"}]
    BY DEF Init
  <2> QED  BY <2>1, <2>2 DEF Init, TypeOK
<1>2. Len(execution_waiters) = 0 /\ Len(served) = 0 /\ Len(arrived) = 0
  BY DEF Init
<1>3. Held /\ Waiting /\ Refusing
  BY <1>2 DEF Init, Held, Holder, Waiting, Waits, Refusing
<1>4. Ordered
  BY <1>2 DEF Init, Ordered, Rest, Woken
<1>5. ReplayedOnceInOrder
  BY DEF Init, ReplayedOnceInOrder
<1> QED  BY <1>1, <1>3, <1>4, <1>5 DEF LibpqInv

(***************************************************************************)
(* The holder's view, in which a stretch runs: nobody else holds the       *)
(* connection, and those who asked are the served ones and the waiters.    *)
(* sv and ar are the histories after the step.                             *)
(***************************************************************************)
Alone(t) ==
    /\ pc[t] # "waiting"
    /\ \A u \in Tasks \ {t} : ~Holder(u)
Base(sv, ar) ==
    /\ sv \in Seq(Tasks) /\ ar \in Seq(Tasks)
    /\ Len(ar) = Len(sv) + Len(execution_waiters)
    /\ \A i \in 1..Len(sv) : sv[i] = ar[i]
    /\ \A i \in 1..Len(execution_waiters) : execution_waiters[i] = ar[Len(sv) + i]

\* What a stretch of t leaves of the queue: t has sent a command, or has ended
\* and handed the connection over.
QueueStep(t) ==
    \/ /\ pc' = [pc EXCEPT ![t] = "sent"]
       /\ execution_in_progress' = TRUE
       /\ execution_waiters' = execution_waiters
    \/ ReleaseExecutionQueue(t, "ok")
    \/ ReleaseExecutionQueue(t, "error")

LEMMA ReleaseKeeps ==
  ASSUME LibpqInv, NEW t \in Tasks, Alone(t), NEW outcome \in {"ok", "error"},
         ReleaseExecutionQueue(t, outcome), Base(served', arrived'),
         execution_waiters # <<>>
  PROVE  /\ pc' \in [Tasks -> {"new", "waiting", "woken", "sent", "ok", "error"}]
         /\ execution_waiters' \in Seq(Tasks)
         /\ execution_in_progress'
         /\ Held' /\ Waiting' /\ Ordered'
<1> DEFINE w == execution_waiters
           h == Head(w)
<1>1. /\ w' = Tail(w)
      /\ pc' = [pc EXCEPT ![t] = outcome, ![h] = "woken"]
      /\ execution_in_progress' = execution_in_progress
  BY DEF ReleaseExecutionQueue
<1>2. /\ w \in Seq(Tasks) /\ pc \in [Tasks -> {"new", "waiting", "woken", "sent", "ok", "error"}]
      /\ execution_in_progress
  BY DEF LibpqInv, TypeOK, Waiting
<1>3. /\ Tail(w) \in Seq(Tasks) /\ Len(Tail(w)) = Len(w) - 1 /\ Len(w) >= 1 /\ Len(w) \in Nat
      /\ \A i \in 1..(Len(w) - 1) : Tail(w)[i] = w[i + 1]
      /\ h = w[1] /\ h \in Tasks
  BY <1>2, TailElements
<1>4. pc[h] = "waiting" /\ h # t
  BY <1>3 DEF LibpqInv, Waiting, Waits, Alone
<1>5. /\ pc' \in [Tasks -> {"new", "waiting", "woken", "sent", "ok", "error"}]
      /\ pc'[h] = "woken" /\ pc'[t] = outcome
      /\ \A u \in Tasks : u # h /\ u # t => pc'[u] = pc[u]
  BY <1>1, <1>2, <1>3, <1>4
<1>6. Held'
  BY <1>1, <1>2, <1>3, <1>5 DEF Held, Holder, Alone
<1>7. Waiting'
  <2>1. \A i, j \in 1..Len(w) : w[i] = w[j] => i = j
    BY DEF LibpqInv, Waiting
  <2>2. \A i, j \in 1..Len(w') : w'[i] = w'[j] => i = j
    BY <1>1, <1>3, <2>1
  <2>3. ASSUME NEW u \in Tasks PROVE pc'[u] = "waiting" <=> Waits(u)'
    <3>1. CASE u = h
      <4>1. ~Waits(u)'
        BY <3>1, <1>1, <1>3, <2>1 DEF Waits
      <4> QED  BY <3>1, <4>1, <1>5
    <3>2. CASE u = t
      <4>1. ~Waits(u)
        BY <3>2 DEF LibpqInv, Waiting, Alone
      <4>2. ~Waits(u)'
        BY <4>1, <1>1, <1>3 DEF Waits
      <4> QED  BY <3>2, <4>2, <1>5
    <3>3. CASE u # h /\ u # t
      <4>1. Waits(u) => Waits(u)'
        <5>1. SUFFICES ASSUME NEW i \in 1..Len(w), w[i] = u PROVE Waits(u)'
          BY DEF Waits
        <5>2. i # 1 /\ i - 1 \in 1..(Len(w) - 1) /\ Tail(w)[i - 1] = w[i]
          BY <5>1, <3>3, <1>3
        <5> QED  BY <5>1, <5>2, <1>1, <1>3 DEF Waits
      <4>2. Waits(u)' => Waits(u)
        BY <1>1, <1>3 DEF Waits
      <4> QED  BY <3>3, <4>1, <4>2, <1>5 DEF LibpqInv, Waiting
    <3> QED  BY <3>1, <3>2, <3>3
  <2> QED  BY <2>2, <2>3, <1>1, <1>2 DEF Waiting
<1>8. Ordered'
  <2>1. Woken' /\ \A u \in Tasks : pc'[u] = "woken" => u = h
    BY <1>3, <1>5 DEF Woken, Alone, Holder
  <2>2. Rest' = Len(served') + 1 /\ Len(served') \in Nat
    BY <2>1 DEF Rest, Base
  <2>3. Len(arrived') = Rest' + Len(w')
    BY <2>2, <1>1, <1>3 DEF Base
  <2>4. \A u \in Tasks : pc'[u] = "woken" => arrived'[Len(served') + 1] = u
    BY <2>1, <1>3 DEF Base
  <2>5. ASSUME NEW i \in 1..Len(w') PROVE w'[i] = arrived'[Rest' + i]
    <3>1. i \in 1..(Len(w) - 1) /\ i + 1 \in 1..Len(w)
      BY <1>1, <1>3
    <3>2. w'[i] = w[i + 1] /\ w[i + 1] = arrived'[Len(served') + (i + 1)]
      BY <3>1, <1>1, <1>3 DEF Base
    <3> QED  BY <3>1, <3>2, <2>2
  <2> QED  BY <2>3, <2>4, <2>5 DEF Ordered, Base
<1> QED  BY <1>1, <1>2, <1>3, <1>5, <1>6, <1>7, <1>8

LEMMA NoHandOver ==
  ASSUME LibpqInv, NEW t \in Tasks, Alone(t), NEW state \in {"sent", "ok", "error"},
         pc' = [pc EXCEPT ![t] = state],
         execution_in_progress' = (state = "sent"),
         execution_waiters' = execution_waiters,
         state # "sent" => execution_waiters = <<>>,
         Base(served', arrived')
  PROVE  /\ pc' \in [Tasks -> {"new", "waiting", "woken", "sent", "ok", "error"}]
         /\ Held' /\ Waiting' /\ Ordered'
<1>1. /\ pc' \in [Tasks -> {"new", "waiting", "woken", "sent", "ok", "error"}]
      /\ pc'[t] = state
      /\ \A u \in Tasks : u # t => pc'[u] = pc[u]
  BY DEF LibpqInv, TypeOK
<1>2. Held'
  BY <1>1 DEF Held, Holder, Alone
<1>3. Waiting'
  <2>1. \A u \in Tasks : pc'[u] = "waiting" <=> Waits(u)'
    BY <1>1 DEF LibpqInv, Waiting, Waits, Alone
  <2>2. execution_waiters' # <<>> => execution_in_progress'
    OBVIOUS
  <2>3. \A i, j \in 1..Len(execution_waiters') :
            execution_waiters'[i] = execution_waiters'[j] => i = j
    BY DEF LibpqInv, Waiting
  <2> QED  BY <2>1, <2>2, <2>3 DEF Waiting
<1>4. ~Woken'
  BY <1>1 DEF Woken, Alone, Holder
<1>5. Ordered'
  BY <1>1, <1>4 DEF Ordered, Rest, Base, Woken
<1> QED  BY <1>1, <1>2, <1>3, <1>5

LEMMA QueueStepKeeps ==
  ASSUME LibpqInv, NEW t \in Tasks, Alone(t), QueueStep(t), Base(served', arrived')
  PROVE  /\ pc' \in [Tasks -> {"new", "waiting", "woken", "sent", "ok", "error"}]
         /\ execution_waiters' \in Seq(Tasks)
         /\ execution_in_progress' \in BOOLEAN
         /\ Held' /\ Waiting' /\ Ordered'
<1>1. CASE pc' = [pc EXCEPT ![t] = "sent"] /\ execution_in_progress' = TRUE
           /\ execution_waiters' = execution_waiters
  BY <1>1, NoHandOver DEF LibpqInv, TypeOK
<1>2. ASSUME NEW outcome \in {"ok", "error"}, ReleaseExecutionQueue(t, outcome)
      PROVE  /\ pc' \in [Tasks -> {"new", "waiting", "woken", "sent", "ok", "error"}]
             /\ execution_waiters' \in Seq(Tasks)
             /\ execution_in_progress' \in BOOLEAN
             /\ Held' /\ Waiting' /\ Ordered'
  <2>1. CASE execution_waiters = <<>>
    <3>1. /\ pc' = [pc EXCEPT ![t] = outcome] /\ execution_in_progress' = FALSE
          /\ execution_waiters' = execution_waiters
      BY <1>2, <2>1 DEF ReleaseExecutionQueue
    <3>2. execution_in_progress' = (outcome = "sent") /\ outcome # "sent"
      BY <3>1
    <3>3. execution_waiters \in Seq(Tasks)
      BY DEF LibpqInv, TypeOK
    <3> QED  BY <2>1, <3>1, <3>2, <3>3, NoHandOver
  <2>2. CASE execution_waiters # <<>>
    BY <1>2, <2>2, ReleaseKeeps
  <2> QED  BY <2>1, <2>2
<1> QED  BY <1>1, <1>2 DEF QueueStep

\* In a stretch of t others change only from waiting to woken.
LEMMA OthersKeep ==
  ASSUME LibpqInv, NEW t \in Tasks, Alone(t), QueueStep(t), NEW u \in Tasks, u # t
  PROVE  pc'[u] = pc[u] \/ pc'[u] = "woken"
<1>1. execution_waiters \in Seq(Tasks)
      /\ pc \in [Tasks -> {"new", "waiting", "woken", "sent", "ok", "error"}]
  BY DEF LibpqInv, TypeOK
<1>2. CASE execution_waiters = <<>>
  BY <1>1, <1>2 DEF QueueStep, ReleaseExecutionQueue
<1>3. CASE execution_waiters # <<>>
  <2>1. Head(execution_waiters) \in Tasks
    BY <1>1, <1>3, TailElements
  <2> QED  BY <1>1, <1>3, <2>1 DEF QueueStep, ReleaseExecutionQueue
<1> QED  BY <1>2, <1>3

\* The state of t itself after its stretch.
LEMMA OwnState ==
  ASSUME LibpqInv, NEW t \in Tasks, Alone(t), QueueStep(t)
  PROVE  /\ pc'[t] \in {"sent", "ok", "error"}
         /\ ReleaseExecutionQueue(t, "ok") => pc'[t] = "ok"
         /\ ReleaseExecutionQueue(t, "error") => pc'[t] = "error"
         /\ pc' = [pc EXCEPT ![t] = "sent"] => pc'[t] = "sent"
<1>1. execution_waiters \in Seq(Tasks)
      /\ pc \in [Tasks -> {"new", "waiting", "woken", "sent", "ok", "error"}]
  BY DEF LibpqInv, TypeOK
<1>2. CASE execution_waiters = <<>>
  BY <1>1, <1>2 DEF QueueStep, ReleaseExecutionQueue
<1>3. CASE execution_waiters # <<>>
  <2>1. Head(execution_waiters) \in Tasks /\ Head(execution_waiters) = execution_waiters[1]
        /\ Len(execution_waiters) >= 1 /\ Len(execution_waiters) \in Nat
    BY <1>1, <1>3, TailElements
  <2>2. Head(execution_waiters) # t
    BY <2>1 DEF LibpqInv, Waiting, Waits, Alone
  <2> QED  BY <1>1, <1>3, <2>1, <2>2 DEF QueueStep, ReleaseExecutionQueue
<1> QED  BY <1>2, <1>3

LEMMA RefusingKeeps ==
  ASSUME LibpqInv, NEW t \in Tasks, Alone(t), QueueStep(t), rejected \subseteq rejected',
         busy' => rejected' # {} \/ pc'[t] = "sent",
         pc'[t] = "error" => rejected' # {}
  PROVE  Refusing'
<1>1. \A u \in Tasks : pc'[u] = "error" => rejected' # {}
  BY OthersKeep DEF LibpqInv, Refusing
<1> QED  BY <1>1 DEF Refusing

\* Run is such a stretch; a refused command follows a rejected one.
LEMMA RunKeeps ==
  ASSUME LibpqInv, NEW t \in Tasks, Alone(t), pc[t] # "sent", Run(t),
         Base(served', arrived'), UNCHANGED <<statement_cursor, replayed, rejected>>
  PROVE  LibpqInv'
<1>1. QueueStep(t) /\ busy' \in BOOLEAN
  BY DEF Run, Send, QueueStep, LibpqInv, TypeOK
<1>2. busy => rejected # {}
  BY DEF LibpqInv, Refusing, Alone, Holder
<1>3. busy' => rejected' # {} \/ pc'[t] = "sent"
  BY <1>1, <1>2, OwnState DEF Run, Send
<1>4. pc'[t] = "error" => rejected' # {}
  BY <1>1, <1>2, OwnState DEF Run, Send
<1>5. Refusing'
  BY <1>1, <1>3, <1>4, RefusingKeeps
<1>6. TypeOK' /\ Held' /\ Waiting' /\ Ordered'
  BY <1>1, QueueStepKeeps DEF LibpqInv, TypeOK, Base
<1> QED  BY <1>5, <1>6 DEF LibpqInv, ReplayedOnceInOrder

LEMMA CallKeeps ==
  ASSUME LibpqInv, NEW t \in Tasks, Call(t)
  PROVE  LibpqInv'
<1>1. /\ served \in Seq(Tasks) /\ arrived \in Seq(Tasks) /\ execution_waiters \in Seq(Tasks)
      /\ pc \in [Tasks -> {"new", "waiting", "woken", "sent", "ok", "error"}]
      /\ Len(served) \in Nat /\ Len(arrived) \in Nat /\ Len(execution_waiters) \in Nat
  BY DEF LibpqInv, TypeOK
<1>2. /\ arrived' = Append(arrived, t) /\ arrived' \in Seq(Tasks)
      /\ Len(arrived') = Len(arrived) + 1
      /\ \A i \in 1..Len(arrived) : arrived'[i] = arrived[i]
      /\ arrived'[Len(arrived) + 1] = t
  BY <1>1 DEF Call
<1>3. CASE ~execution_in_progress /\ Run(t)
  <2>1. Alone(t) /\ pc[t] # "sent"
    BY <1>3 DEF Call, Alone, LibpqInv, Held
  <2>2. execution_waiters = <<>> /\ Len(execution_waiters) = 0
    BY <1>1, <1>3 DEF LibpqInv, Waiting
  <2>3. ~Woken
    BY <1>3 DEF Woken, Holder, LibpqInv, Held
  <2>4. Len(arrived) = Len(served) /\ \A i \in 1..Len(served) : served[i] = arrived[i]
    BY <1>1, <2>2, <2>3 DEF LibpqInv, Ordered, Rest
  <2>5. /\ served' = Append(served, t) /\ served' \in Seq(Tasks)
        /\ Len(served') = Len(served) + 1
        /\ \A i \in 1..Len(served) : served'[i] = served[i]
        /\ served'[Len(served) + 1] = t
    BY <1>1, <1>3 DEF Run
  <2>6. Base(served', arrived')
    BY <1>1, <1>2, <2>2, <2>4, <2>5 DEF Base
  <2> QED  BY <1>3, <2>1, <2>6, RunKeeps DEF Call
<1>4. CASE /\ execution_in_progress
           /\ execution_waiters' = Append(execution_waiters, t)
           /\ pc' = [pc EXCEPT ![t] = "waiting"]
           /\ UNCHANGED <<execution_in_progress, busy, served>>
  <2> DEFINE w == execution_waiters
  <2>1. /\ w' \in Seq(Tasks) /\ Len(w') = Len(w) + 1
        /\ \A i \in 1..Len(w) : w'[i] = w[i]
        /\ w'[Len(w) + 1] = t
    BY <1>1, <1>4
  <2>2. /\ pc' \in [Tasks -> {"new", "waiting", "woken", "sent", "ok", "error"}]
        /\ pc'[t] = "waiting" /\ pc[t] = "new"
        /\ \A u \in Tasks : u # t => pc'[u] = pc[u]
    BY <1>1, <1>4 DEF Call
  <2>3. TypeOK'
    BY <1>2, <1>4, <2>1, <2>2 DEF Call, LibpqInv, TypeOK
  <2>4. Held'
    BY <1>4, <2>2 DEF LibpqInv, Held, Holder
  <2>5. Waiting'
    <3>1. \A i \in 1..Len(w) : w[i] # t
      BY <2>2 DEF LibpqInv, Waiting, Waits
    <3>2. \A i, j \in 1..Len(w') : w'[i] = w'[j] => i = j
      BY <1>1, <2>1, <3>1 DEF LibpqInv, Waiting
    <3>3. ASSUME NEW u \in Tasks PROVE pc'[u] = "waiting" <=> Waits(u)'
      <4>1. CASE u = t
        BY <4>1, <1>1, <2>1, <2>2 DEF Waits
      <4>2. CASE u # t
        <5>1. Waits(u)' <=> Waits(u)
          <6>1. 1..Len(w') = 1..Len(w) \cup {Len(w) + 1}
            BY <1>1, <2>1
          <6> QED  BY <4>2, <6>1, <2>1 DEF Waits
        <5> QED  BY <4>2, <5>1, <2>2 DEF LibpqInv, Waiting
      <4> QED  BY <4>1, <4>2
    <3> QED  BY <3>2, <3>3, <1>4 DEF Waiting
  <2>6. Ordered'
    <3>1. Woken' <=> Woken
      BY <2>2 DEF Woken
    <3>2. Rest' = Rest /\ Rest \in Nat /\ Len(arrived) = Rest + Len(w) /\ Rest >= Len(served)
          /\ (Woken => Rest = Len(served) + 1)
      BY <3>1, <1>1, <1>4 DEF Rest, LibpqInv, Ordered
    <3>3. \A i \in 1..Len(w') : w'[i] = arrived'[Rest' + i]
      <4> SUFFICES ASSUME NEW i \in 1..Len(w') PROVE w'[i] = arrived'[Rest' + i]
        OBVIOUS
      <4>1. CASE i \in 1..Len(w)
        <5>1. Rest + i \in 1..Len(arrived) /\ w[i] = arrived[Rest + i]
          BY <4>1, <3>2, <1>1 DEF LibpqInv, Ordered
        <5> QED  BY <4>1, <5>1, <3>2, <1>2, <2>1
      <4>2. CASE i = Len(w) + 1
        BY <4>2, <3>2, <1>1, <1>2, <2>1
      <4> QED  BY <4>1, <4>2, <1>1, <2>1
    <3>4. \A i \in 1..Len(served') : served'[i] = arrived'[i]
      BY <3>2, <1>1, <1>2, <1>4 DEF LibpqInv, Ordered
    <3>5. \A u \in Tasks : pc'[u] = "woken" => arrived'[Len(served') + 1] = u
      BY <3>2, <1>1, <1>2, <1>4, <2>2 DEF LibpqInv, Ordered, Woken
    <3>6. Len(arrived') = Rest' + Len(w')
      BY <3>2, <1>1, <1>2, <2>1
    <3> QED  BY <3>3, <3>4, <3>5, <3>6 DEF Ordered
  <2>7. Refusing'
    <3>1. rejected' = rejected /\ busy' = busy
      BY <1>4 DEF Call
    <3> QED  BY <3>1, <2>2 DEF LibpqInv, Refusing
  <2>8. ReplayedOnceInOrder'
    BY DEF Call, LibpqInv, ReplayedOnceInOrder
  <2> QED  BY <2>3, <2>4, <2>5, <2>6, <2>7, <2>8 DEF LibpqInv
<1> QED  BY <1>3, <1>4 DEF Call

LEMMA ResumeKeeps ==
  ASSUME LibpqInv, NEW t \in Tasks, Resume(t)
  PROVE  LibpqInv'
<1>1. /\ served \in Seq(Tasks) /\ arrived \in Seq(Tasks) /\ execution_waiters \in Seq(Tasks)
      /\ Len(served) \in Nat /\ Len(execution_waiters) \in Nat
  BY DEF LibpqInv, TypeOK
<1>2. pc[t] = "woken" /\ Woken /\ Rest = Len(served) + 1
  BY DEF Resume, Woken, Rest
<1>3. Alone(t) /\ pc[t] # "sent"
  BY <1>2 DEF Alone, LibpqInv, Held, Holder
<1>4. /\ served' = Append(served, t) /\ served' \in Seq(Tasks)
      /\ Len(served') = Len(served) + 1
      /\ \A i \in 1..Len(served) : served'[i] = served[i]
      /\ served'[Len(served) + 1] = t
  BY <1>1 DEF Resume, Run
<1>5. Base(served', arrived')
  BY <1>1, <1>2, <1>4 DEF Resume, Base, LibpqInv, Ordered
<1> QED  BY <1>3, <1>5, RunKeeps DEF Resume

LEMMA SentIsAlone ==
  ASSUME LibpqInv, NEW t \in Tasks, pc[t] = "sent"
  PROVE  Alone(t) /\ Base(served, arrived)
<1>1. Alone(t) /\ ~Woken
  BY DEF Alone, LibpqInv, Held, Holder, Woken
<1> QED  BY <1>1 DEF Base, LibpqInv, TypeOK, Ordered, Rest

LEMMA ReadResultKeeps ==
  ASSUME LibpqInv, NEW t \in Tasks, ReadResult(t)
  PROVE  LibpqInv'
<1>1. pc[t] = "sent" /\ arrived' = arrived /\ served' = served /\ rejected' = rejected
  BY DEF ReadResult
<1>2. Alone(t) /\ Base(served', arrived')
  BY <1>1, SentIsAlone
<1>3. statement_cursor' \in Nat /\ replayed' \in Seq(Nat) /\ ReplayedOnceInOrder'
  <2>1. CASE Kind[t] = "sync"
    <3>1. /\ replayed' = Append(replayed, statement_cursor + 1)
          /\ statement_cursor' = statement_cursor + 1
          /\ statement_cursor \in Nat /\ replayed \in Seq(Nat)
          /\ replayed = [i \in 1..statement_cursor |-> i]
      BY <2>1 DEF ReadResult, LibpqInv, TypeOK, ReplayedOnceInOrder
    <3>2. Len(replayed) = statement_cursor
      BY <3>1
    <3>3. replayed' = [i \in 1..(statement_cursor + 1) |-> i]
      BY <3>1, <3>2
    <3> QED  BY <3>1, <3>3 DEF ReplayedOnceInOrder
  <2>2. CASE Kind[t] # "sync"
    BY <2>2 DEF ReadResult, LibpqInv, TypeOK, ReplayedOnceInOrder
  <2> QED  BY <2>1, <2>2
<1>4. CASE UNCHANGED <<pc, busy, execution_in_progress, execution_waiters>>
  BY <1>1, <1>3, <1>4 DEF LibpqInv, TypeOK, Held, Holder, Waiting, Waits, Ordered, Rest, Woken,
                          Refusing
<1>5. CASE busy' = FALSE /\ ReleaseExecutionQueue(t, "ok")
  <2>1. QueueStep(t)
    BY <1>5 DEF QueueStep
  <2>2. pc'[t] = "ok"
    BY <1>2, <1>5, <2>1, OwnState
  <2>3. Refusing'
    BY <1>1, <1>2, <1>5, <2>1, <2>2, RefusingKeeps
  <2>4. TypeOK' /\ Held' /\ Waiting' /\ Ordered'
    BY <1>1, <1>2, <1>3, <1>5, <2>1, QueueStepKeeps DEF LibpqInv, TypeOK
  <2> QED  BY <1>3, <2>3, <2>4 DEF LibpqInv
<1> QED  BY <1>4, <1>5 DEF ReadResult

LEMMA ReadErrorKeeps ==
  ASSUME LibpqInv, NEW t \in Tasks, ReadError(t)
  PROVE  LibpqInv'
<1>1. /\ pc[t] = "sent" /\ arrived' = arrived /\ served' = served /\ busy' = busy
      /\ rejected' = rejected \cup {t} /\ QueueStep(t)
  BY DEF ReadError, QueueStep
<1>2. Alone(t) /\ Base(served', arrived')
  BY <1>1, SentIsAlone
<1>3. Refusing'
  BY <1>1, <1>2, RefusingKeeps
<1>4. TypeOK' /\ Held' /\ Waiting' /\ Ordered'
  BY <1>1, <1>2, QueueStepKeeps DEF ReadError, LibpqInv, TypeOK
<1>5. ReplayedOnceInOrder'
  BY DEF ReadError, LibpqInv, ReplayedOnceInOrder
<1> QED  BY <1>3, <1>4, <1>5 DEF LibpqInv

LEMMA NextKeepsLibpq == LibpqInv /\ [Next]_vars => LibpqInv'
<1> SUFFICES ASSUME LibpqInv, [Next]_vars PROVE LibpqInv'
  OBVIOUS
<1>1. CASE UNCHANGED vars
  BY <1>1 DEF vars, LibpqInv, TypeOK, Held, Holder, Waiting, Waits, Ordered, Rest, Woken,
              Refusing, ReplayedOnceInOrder
<1> QED  BY <1>1, CallKeeps, ResumeKeeps, ReadResultKeeps, ReadErrorKeeps DEF Next

\* The inductive invariant: one holder, the waiters in order behind it, and libpq
\* busy only for the holder's command or after a rejected one.
THEOREM LibpqInvariant == Spec => []LibpqInv
  BY InitLibpq, NextKeepsLibpq, PTL DEF Spec

\* The connection's variables keep their types, for any number of callers.
THEOREM LibpqTypeCorrect == Spec => []TypeOK
<1>1. LibpqInv => TypeOK
  BY DEF LibpqInv
<1> QED  BY <1>1, LibpqInvariant, PTL

\* One coroutine owns the connection at a time and ownership passes in the order
\* of the calls; without a rejected command no call is refused
\* (acquireExecutionQueue, releaseExecutionQueue).
THEOREM OneHolderAtATime == Spec => []OneHolderWhileBusy
<1>1. ASSUME LibpqInv PROVE OneHolderWhileBusy
  <2>1. \A t \in Tasks : pc[t] = "waiting" <=> t \in ToSet(execution_waiters)
    BY <1>1 DEF LibpqInv, TypeOK, Waiting, Waits, ToSet
  <2>2. IsPrefix(served, arrived)
    <3>1. /\ served \in Seq(Tasks) /\ arrived \in Seq(Tasks)
          /\ Len(served) \in Nat /\ Len(served) <= Len(arrived)
          /\ \A i \in 1..Len(served) : served[i] = arrived[i]
      BY <1>1 DEF LibpqInv, TypeOK, Ordered, Rest
    <3> QED  BY <3>1 DEF IsPrefix
  <2> QED  BY <1>1, <2>1, <2>2 DEF LibpqInv, Held, Refusing, OneHolderWhileBusy
<1> QED  BY <1>1, LibpqInvariant, PTL

\* Overlapping syncs, with copies of any age, replay each action of the log once
\* and in order (syncStatements).
THEOREM ReplayIsOrdered == Spec => []ReplayedOnceInOrder
<1>1. LibpqInv => ReplayedOnceInOrder
  BY DEF LibpqInv
<1> QED  BY <1>1, LibpqInvariant, PTL
=============================================================================
