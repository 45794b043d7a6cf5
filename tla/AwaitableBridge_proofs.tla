----------------------- MODULE AwaitableBridge_proofs -----------------------
(***************************************************************************)
(* The reference counts of the Futures, however blocks overlap, and the    *)
(* chain of current bridges while they nest, for any number of bridges,    *)
(* calls and suspensions.                                                  *)
(***************************************************************************)
EXTENDS AwaitableBridge, TLAPS

CallTypes ==
    /\ coro \in [Calls -> CoroStates]
    /\ fut \in [Calls -> FutureStates]
    /\ kept \in [Calls -> BOOLEAN]
    /\ refs \in [Calls -> Int]

\* What the state of a call's coroutine says of its Future: a coroutine that was
\* not started has none, one that has not ended left it pending unless somebody
\* cancelled it, one that has ended did not leave it pending.
FutureOf(c) ==
    /\ coro[c] = "none" => fut[c] \in {"none", "raised"} /\ ~kept[c]
    /\ fut[c] \in {"none", "raised"} => coro[c] = "none"
    /\ coro[c] \in Unfinished => fut[c] \in {"pending", "cancelled"}
    /\ coro[c] \in Outcomes => fut[c] # "pending"
FuturesFollow == \A c \in Calls : FutureOf(c)

\* RefsMatchOwners for one call
Owners(c) == (IF kept[c] THEN 1 ELSE 0)
             + (IF coro[c] \in Unfinished \cup {"lost"} THEN 1 ELSE 0)
Twice(c) == coro[c] = "inconvertible" \/ (coro[c] = "returned" /\ fut[c] = "cancelled")
Counted(c) == refs[c] = Owners(c) - (IF Twice(c) THEN 1 ELSE 0)

CallInv == CallTypes /\ FuturesFollow /\ \A c \in Calls : Counted(c)

USE DEF CoroStates, FutureStates, Unfinished, Outcomes

LEMMA InitCalls == Init => CallInv
  BY DEF Init, CallInv, CallTypes, FuturesFollow, FutureOf, Counted, Owners, Twice

LEMMA CallsUntouched ==
  ASSUME CallInv, UNCHANGED callVars
  PROVE  CallInv'
  BY DEF callVars, CallInv, CallTypes, FuturesFollow, FutureOf, Counted, Owners, Twice

LEMMA DestroyKeeps ==
  ASSUME CallInv, NEW b \in Bridges, Destroy(b)
  PROVE  CallInv'
<1>1. CallTypes'
  BY DEF Destroy, CallInv, CallTypes
<1>2. ASSUME NEW c \in Calls PROVE FutureOf(c)' /\ Counted(c)'
  BY DEF Destroy, CallInv, CallTypes, FuturesFollow, FutureOf, Counted, Owners, Twice
<1> QED  BY <1>1, <1>2 DEF CallInv, FuturesFollow

LEMMA CallKeeps ==
  ASSUME CallInv, NEW c \in Calls, NEW r \in Requests, Call(c, r)
  PROVE  CallInv'
<1>1. \/ Spawn(c)
      \/ fut' = [fut EXCEPT ![c] = "raised"] /\ UNCHANGED <<home, coro, waits, kept, refs>>
  BY DEF Call
<1>2. fut[c] = "none"
  BY DEF Call
<1>3. CallTypes'
  <2>1. /\ coro' = coro \/ coro' = [coro EXCEPT ![c] = "ready"]
        /\ fut' = [fut EXCEPT ![c] = "raised"] \/ fut' = [fut EXCEPT ![c] = "pending"]
        /\ kept' = kept \/ kept' = [kept EXCEPT ![c] = TRUE]
        /\ refs' = refs \/ refs' = [refs EXCEPT ![c] = 2]
    BY <1>1 DEF Spawn
  <2>2. kept' \in [Calls -> BOOLEAN]
    BY <2>1 DEF CallInv, CallTypes
  <2> QED  BY <2>1, <2>2 DEF CallInv, CallTypes
<1>4. ASSUME NEW d \in Calls PROVE FutureOf(d)' /\ Counted(d)'
  BY <1>1, <1>2 DEF Spawn, CallInv, CallTypes, FuturesFollow, FutureOf, Counted, Owners, Twice
<1> QED  BY <1>3, <1>4 DEF CallInv, FuturesFollow

LEMMA RunReadyKeeps ==
  ASSUME CallInv, NEW b \in Bridges, RunReady(b)
  PROVE  CallInv'
<1> DEFINE ready == {c \in Calls : home[c] = b /\ coro[c] = "ready"}
<1>1. PICK to \in [ready -> Outcomes \cup {"waiting"}] :
        LET ending == {c \in ready : to[c] # "waiting"} IN
        /\ coro' = [c \in Calls |-> IF c \in ready THEN to[c] ELSE coro[c]]
        /\ fut' = [c \in Calls |-> IF c \in ending THEN Settled(c, to[c]) ELSE fut[c]]
        /\ refs' = [c \in Calls |-> IF c \in ending THEN refs[c] - Releases(c, to[c]) ELSE refs[c]]
  BY DEF RunReady
<1>2. kept' = kept
  BY DEF RunReady
<1>3. CallTypes'
  BY <1>1, <1>2 DEF CallInv, CallTypes, Settled, Releases
<1>4. ASSUME NEW c \in Calls PROVE FutureOf(c)' /\ Counted(c)'
  <2>1. CASE c \notin ready
    <3>1. coro'[c] = coro[c] /\ fut'[c] = fut[c] /\ refs'[c] = refs[c]
      BY <2>1, <1>1
    <3> QED  BY <3>1, <1>2 DEF CallInv, FuturesFollow, FutureOf, Counted, Owners, Twice
  <2>2. CASE c \in ready /\ to[c] = "waiting"
    <3>1. coro'[c] = "waiting" /\ fut'[c] = fut[c] /\ refs'[c] = refs[c]
      BY <2>2, <1>1
    <3> QED  BY <2>2, <3>1, <1>2 DEF CallInv, CallTypes, FuturesFollow, FutureOf, Counted, Owners, Twice
  <2>3. CASE c \in ready /\ to[c] # "waiting"
    <3>1. /\ coro'[c] = to[c] /\ to[c] \in Outcomes
          /\ fut'[c] = Settled(c, to[c])
          /\ refs'[c] = refs[c] - Releases(c, to[c])
      BY <2>3, <1>1
    <3> QED  BY <2>3, <3>1, <1>2 DEF CallInv, CallTypes, FuturesFollow, FutureOf, Counted,
                                     Owners, Twice, Settled, Releases
  <2> QED  BY <2>1, <2>2, <2>3
<1> QED  BY <1>3, <1>4 DEF CallInv, FuturesFollow

LEMMA WakeCancelDropKeep ==
  ASSUME CallInv, NEW c \in Calls, Wake(c) \/ Cancel(c) \/ Drop(c)
  PROVE  CallInv'
<1>1. CallTypes'
  <2>1. /\ coro' = coro \/ coro' = [coro EXCEPT ![c] = "ready"]
        /\ fut' = fut \/ fut' = [fut EXCEPT ![c] = "cancelled"]
        /\ kept' = kept \/ kept' = [kept EXCEPT ![c] = FALSE]
        /\ refs' = refs \/ refs' = [refs EXCEPT ![c] = refs[c] - 1]
    BY DEF Wake, Cancel, Drop
  <2>2. kept' \in [Calls -> BOOLEAN]
    BY <2>1 DEF CallInv, CallTypes
  <2> QED  BY <2>1, <2>2 DEF CallInv, CallTypes
<1>2. ASSUME NEW d \in Calls PROVE FutureOf(d)' /\ Counted(d)'
  BY DEF Wake, Cancel, Drop, CallInv, CallTypes, FuturesFollow, FutureOf, Counted, Owners, Twice
<1> QED  BY <1>1, <1>2 DEF CallInv, FuturesFollow

LEMMA NextKeepsCalls == CallInv /\ [Next]_vars => CallInv'
<1> SUFFICES ASSUME CallInv, [Next]_vars PROVE CallInv'
  OBVIOUS
<1>1. ASSUME NEW b \in Bridges,
             AEnter(b) \/ ActivateOnly(b) \/ BeginAExit(b) \/ EndAExit(b) \/ DeactivateOnly(b)
      PROVE  CallInv'
  <2>1. UNCHANGED callVars
    BY <1>1 DEF AEnter, ActivateOnly, BeginAExit, EndAExit, DeactivateOnly
  <2> QED  BY <2>1, CallsUntouched
<1>2. ASSUME NEW b \in Bridges, Destroy(b) \/ Poll(b) PROVE CallInv'
  BY <1>2, DestroyKeeps, RunReadyKeeps DEF Poll
<1>3. ASSUME NEW c \in Calls, NEW r \in Requests, Call(c, r) PROVE CallInv'
  BY <1>3, CallKeeps
<1>4. ASSUME NEW c \in Calls, Wake(c) \/ Cancel(c) \/ Drop(c) PROVE CallInv'
  BY <1>4, WakeCancelDropKeep
<1>5. CASE UNCHANGED vars
  <2>1. UNCHANGED callVars
    BY <1>5 DEF vars, callVars
  <2> QED  BY <2>1, CallsUntouched
<1> QED  BY <1>1, <1>2, <1>3, <1>4, <1>5 DEF Next

\* A Future's reference count is the number of its owners, except on the two
\* paths of awaitAndResolve that release twice, however bridges are entered, left
\* and destroyed and whoever cancels.
THEOREM RefsAreOwners == Spec => []RefsMatchOwners
<1>1. CallInv => RefsMatchOwners
  BY DEF CallInv, RefsMatchOwners, Counted, Owners, Twice
<1> QED  BY <1>1, InitCalls, NextKeepsCalls, PTL DEF Spec
-----------------------------------------------------------------------------
(* Nesting *)

\* The part of TypeOK about bridges, and the home of a call.
BridgeTypes ==
    /\ current \in Bridges \cup {NoBridge}
    /\ previous \in [Bridges -> Bridges \cup {NoBridge}]
    /\ loop \in [Bridges -> BOOLEAN]
    /\ block \in [Bridges -> BlockStates]
    /\ opened \in Seq(Bridges)
    /\ nested \in BOOLEAN
    /\ home \in [Calls -> Bridges \cup {NoBridge}]
    /\ waits \in [Calls -> 0..MaxWaits]

Open == {"bare", "in", "exiting"}

\* The chain of previous_ runs through opened,
Linked ==
    /\ current = IF Len(opened) = 0 THEN NoBridge ELSE opened[Len(opened)]
    /\ \A i \in 1..Len(opened) :
          /\ previous[opened[i]] = IF i = 1 THEN NoBridge ELSE opened[i - 1]
          /\ loop[opened[i]]
          /\ block[opened[i]] \in Open

\* a bridge that is not used is clean,
Clean == \A b \in Bridges : block[b] \in {"none", "dead"} => ~loop[b] /\ previous[b] = NoBridge

\* and opened has every other one, once.
Once ==
    /\ \A i, j \in 1..Len(opened) : opened[i] = opened[j] => i = j
    /\ \A b \in Bridges : block[b] \notin {"none", "dead"} =>
          \E i \in 1..Len(opened) : opened[i] = b

NestInv == nested => Linked /\ Clean /\ Once

BridgeInv == BridgeTypes /\ NestInv

\* A bridge is entered: nothing has used it since it was left.
LEMMA ActivateNests ==
  ASSUME BridgeInv, NEW b \in Bridges, block[b] \in {"none", "stuck"}, Activate(b),
         NEW x \in {"in", "bare"}, block' = [block EXCEPT ![b] = x]
  PROVE  NestInv'
<1> SUFFICES ASSUME nested' PROVE Linked' /\ Clean' /\ Once'
  BY DEF NestInv
<1>1. nested /\ Linked /\ Clean /\ Once
  BY DEF Activate, BridgeInv, NestInv
<1>2. PICK n \in Nat : n = Len(opened)
  BY DEF BridgeInv, BridgeTypes
<1>3. /\ Len(opened') = n + 1 /\ opened'[n + 1] = b
      /\ \A i \in 1..n : opened'[i] = opened[i] /\ opened[i] \in Bridges
  <2>1. opened' = Append(opened, b) /\ opened \in Seq(Bridges)
    BY DEF Activate, BridgeInv, BridgeTypes
  <2> QED  BY <2>1, <1>2
<1>4. \A i \in 1..n : opened[i] # b
  BY <1>1, <1>2 DEF Linked, Open
<1>5. /\ \A a \in Bridges : a # b => /\ previous'[a] = previous[a] /\ loop'[a] = loop[a]
                                     /\ block'[a] = block[a]
      /\ previous'[b] = current /\ loop'[b] = TRUE /\ block'[b] = x /\ current' = b
  BY DEF Activate, BridgeInv, BridgeTypes
<1>6. current = IF n = 0 THEN NoBridge ELSE opened[n]
  BY <1>1, <1>2 DEF Linked
<1>7. Linked'
  <2>1. current' = IF Len(opened') = 0 THEN NoBridge ELSE opened'[Len(opened')]
    BY <1>3, <1>5
  <2>2. ASSUME NEW i \in 1..(n + 1)
        PROVE  /\ previous'[opened'[i]] = IF i = 1 THEN NoBridge ELSE opened'[i - 1]
               /\ loop'[opened'[i]]
               /\ block'[opened'[i]] \in Open
    <3>1. CASE i = n + 1
      <4>1. previous'[opened'[i]] = IF n = 0 THEN NoBridge ELSE opened[n]
        BY <3>1, <1>3, <1>5, <1>6
      <4> QED  BY <3>1, <4>1, <1>3, <1>5 DEF Open
    <3>2. CASE i \in 1..n
      <4>1. opened'[i] = opened[i] /\ opened[i] # b /\ opened[i] \in Bridges
        BY <3>2, <1>3, <1>4
      <4>2. /\ previous[opened[i]] = IF i = 1 THEN NoBridge ELSE opened[i - 1]
            /\ loop[opened[i]] /\ block[opened[i]] \in Open
        BY <3>2, <1>1, <1>2 DEF Linked
      <4>3. i # 1 => opened'[i - 1] = opened[i - 1]
        BY <3>2, <1>3
      <4> QED  BY <4>1, <4>2, <4>3, <1>5
    <3> QED  BY <3>1, <3>2
  <2> QED  BY <2>1, <2>2, <1>3 DEF Linked
<1>8. Clean'
  BY <1>1, <1>5 DEF Clean
<1>9. Once'
  <2>1. \A i, j \in 1..(n + 1) : opened'[i] = opened'[j] => i = j
    BY <1>1, <1>2, <1>3, <1>4 DEF Once
  <2>2. ASSUME NEW a \in Bridges, block'[a] \notin {"none", "dead"}
        PROVE  \E i \in 1..(n + 1) : opened'[i] = a
    <3>1. CASE a = b
      BY <3>1, <1>3
    <3>2. CASE a # b
      <4>1. PICK i \in 1..n : opened[i] = a
        BY <2>2, <3>2, <1>1, <1>2, <1>5 DEF Once
      <4> QED  BY <4>1, <1>3
    <3> QED  BY <3>1, <3>2
  <2> QED  BY <2>1, <2>2, <1>3 DEF Once
<1> QED  BY <1>7, <1>8, <1>9

\* The current bridge is left: it is the innermost, and its outer one is back.
LEMMA DeactivateNests ==
  ASSUME BridgeInv, NEW b \in Bridges, Deactivate(b),
         NEW x \in {"none", "dead"}, block' = [block EXCEPT ![b] = x]
  PROVE  NestInv'
<1> SUFFICES ASSUME nested' PROVE Linked' /\ Clean' /\ Once'
  BY DEF NestInv
<1>1. nested /\ Linked /\ Clean /\ Once
  BY DEF Deactivate, Left, BridgeInv, NestInv
<1>2. PICK n \in Nat : n = Len(opened)
  BY DEF BridgeInv, BridgeTypes
<1>3. n > 0 /\ opened[n] = b
  BY <1>1, <1>2, BridgeAssumption DEF Linked, Deactivate
<1>4. /\ Len(opened') = n - 1
      /\ \A i \in 1..(n - 1) : opened'[i] = opened[i] /\ opened[i] \in Bridges
  <2>1. opened' = SubSeq(opened, 1, n - 1) /\ opened \in Seq(Bridges)
    BY <1>2, <1>3 DEF Deactivate, Left, BridgeInv, BridgeTypes
  <2> QED  BY <2>1, <1>2, <1>3
<1>5. \A i \in 1..(n - 1) : opened[i] # b
  BY <1>1, <1>2, <1>3 DEF Once
<1>6. /\ \A a \in Bridges : a # b => /\ previous'[a] = previous[a] /\ loop'[a] = loop[a]
                                     /\ block'[a] = block[a]
      /\ previous'[b] = NoBridge /\ loop'[b] = FALSE /\ block'[b] = x /\ current' = previous[b]
  BY DEF Deactivate, BridgeInv, BridgeTypes
<1>7. Linked'
  <2>1. previous[b] = IF n = 1 THEN NoBridge ELSE opened[n - 1]
    BY <1>1, <1>2, <1>3 DEF Linked
  <2>2. current' = IF Len(opened') = 0 THEN NoBridge ELSE opened'[Len(opened')]
    BY <2>1, <1>3, <1>4, <1>6
  <2>3. ASSUME NEW i \in 1..(n - 1)
        PROVE  /\ previous'[opened'[i]] = IF i = 1 THEN NoBridge ELSE opened'[i - 1]
               /\ loop'[opened'[i]]
               /\ block'[opened'[i]] \in Open
    <3>1. opened'[i] = opened[i] /\ opened[i] # b /\ opened[i] \in Bridges
      BY <1>4, <1>5
    <3>2. /\ previous[opened[i]] = IF i = 1 THEN NoBridge ELSE opened[i - 1]
          /\ loop[opened[i]] /\ block[opened[i]] \in Open
      BY <1>1, <1>2 DEF Linked
    <3>3. i # 1 => opened'[i - 1] = opened[i - 1]
      BY <1>4
    <3> QED  BY <3>1, <3>2, <3>3, <1>6
  <2> QED  BY <2>2, <2>3, <1>4 DEF Linked
<1>8. Clean'
  BY <1>1, <1>6 DEF Clean
<1>9. Once'
  <2>1. \A i, j \in 1..(n - 1) : opened'[i] = opened'[j] => i = j
    BY <1>1, <1>2, <1>4 DEF Once
  <2>2. ASSUME NEW a \in Bridges, block'[a] \notin {"none", "dead"}
        PROVE  \E i \in 1..(n - 1) : opened'[i] = a
    <3>1. a # b
      BY <2>2, <1>6
    <3>2. PICK i \in 1..n : opened[i] = a
      BY <2>2, <3>1, <1>1, <1>2, <1>6 DEF Once
    <3>3. i \in 1..(n - 1)
      BY <3>1, <3>2, <1>3
    <3> QED  BY <3>2, <3>3, <1>4
  <2> QED  BY <2>1, <2>2, <1>4 DEF Once
<1> QED  BY <1>7, <1>8, <1>9

\* deactivate() raises only for a bridge that is left out of order or not open.
LEMMA RaiseNests ==
  ASSUME BridgeInv, NEW b \in Bridges, DeactivateRaises(b),
         NEW x \in {"stuck", "dead"}, x = "dead" \/ block[b] = "exiting",
         block' = [block EXCEPT ![b] = x]
  PROVE  NestInv'
<1> SUFFICES ASSUME nested' PROVE Linked' /\ Clean' /\ Once'
  BY DEF NestInv
<1>1. nested /\ Linked /\ Clean /\ Once /\ LeavesInOrder(b)
  BY DEF DeactivateRaises, Left, BridgeInv, NestInv
<1>2. Len(opened) \in Nat
  BY DEF BridgeInv, BridgeTypes
<1>3. \A i \in 1..Len(opened) : opened[i] # b
  BY <1>1, <1>2 DEF Linked, LeavesInOrder, DeactivateRaises
<1>4. opened' = opened /\ UNCHANGED <<current, previous, loop>>
  BY <1>3 DEF DeactivateRaises, Left
<1>5. block[b] \in {"none", "dead"} /\ x = "dead"
  BY <1>1, <1>3 DEF Once
<1>6. \A a \in Bridges : block'[a] = IF a = b THEN "dead" ELSE block[a]
  BY <1>5 DEF BridgeInv, BridgeTypes
<1>7. \A i \in 1..Len(opened) : opened[i] \in Bridges
  BY DEF BridgeInv, BridgeTypes
<1>8. Linked'
  BY <1>1, <1>3, <1>4, <1>6, <1>7 DEF Linked
<1>9. Clean' /\ Once'
  BY <1>1, <1>4, <1>5, <1>6 DEF Clean, Once
<1> QED  BY <1>8, <1>9

\* __aexit__ begins: the bridge stays open until deactivate().
LEMMA BeginAExitNests ==
  ASSUME BridgeInv, NEW b \in Bridges, BeginAExit(b)
  PROVE  NestInv'
<1> SUFFICES ASSUME nested' PROVE Linked' /\ Clean' /\ Once'
  BY DEF NestInv
<1>1. nested /\ Linked /\ Clean /\ Once /\ opened' = opened /\ UNCHANGED <<current, previous, loop>>
  BY DEF BeginAExit, BridgeInv, NestInv
<1>2. block[b] = "in" /\ \A a \in Bridges : block'[a] = IF a = b THEN "exiting" ELSE block[a]
  BY DEF BeginAExit, BridgeInv, BridgeTypes
<1>3. \A i \in 1..Len(opened) : opened[i] \in Bridges
  BY DEF BridgeInv, BridgeTypes
<1>4. Linked'
  BY <1>1, <1>2, <1>3 DEF Linked, Open
<1>5. Clean' /\ Once'
  BY <1>1, <1>2 DEF Clean, Once
<1> QED  BY <1>4, <1>5

\* A history that grows, shrinks or is given up is a sequence of bridges.
LEMMA OpenedTyped ==
  ASSUME BridgeTypes, NEW b \in Bridges, Activate(b) \/ Left(b) \/ BeginAExit(b)
  PROVE  opened' \in Seq(Bridges) /\ nested' \in BOOLEAN
<1>1. opened \in Seq(Bridges) /\ nested \in BOOLEAN /\ Len(opened) \in Nat
  BY DEF BridgeTypes
<1>2. nested' \in BOOLEAN
  BY <1>1 DEF Activate, Left, BeginAExit
<1>3. CASE opened' \in {<<>>, opened, Append(opened, b)}
  <2>1. <<>> \in Seq(Bridges) /\ Append(opened, b) \in Seq(Bridges)
    BY <1>1
  <2> QED  BY <1>1, <1>2, <1>3, <2>1
<1>4. CASE opened' = SubSeq(opened, 1, Len(opened) - 1) /\ \E i \in 1..Len(opened) : opened[i] = b
  BY <1>1, <1>2, <1>4
<1> QED  BY <1>3, <1>4 DEF Activate, Left, BeginAExit

\* Entering, leaving and destroying a bridge keeps the types,
LEMMA BridgeStepTypes ==
  ASSUME BridgeTypes, NEW b \in Bridges,
         \/ AEnter(b) \/ ActivateOnly(b) \/ BeginAExit(b) \/ EndAExit(b) \/ DeactivateOnly(b)
         \/ Destroy(b)
  PROVE  BridgeTypes'
<1>1. UNCHANGED <<home, waits>>
  BY DEF AEnter, ActivateOnly, BeginAExit, EndAExit, DeactivateOnly, Destroy, callVars
<1>2. Activate(b) \/ Deactivate(b) \/ DeactivateRaises(b) \/ BeginAExit(b)
  BY DEF AEnter, ActivateOnly, EndAExit, DeactivateOnly, Destroy
<1>3. opened' \in Seq(Bridges) /\ nested' \in BOOLEAN
  BY <1>2, OpenedTyped DEF Deactivate, DeactivateRaises
<1>4. PICK x \in BlockStates : block' = [block EXCEPT ![b] = x]
  BY DEF AEnter, ActivateOnly, BeginAExit, EndAExit, DeactivateOnly, Destroy, BlockStates
<1>5. block' \in [Bridges -> BlockStates]
  BY <1>4 DEF BridgeTypes
<1>6. /\ current' \in {current, previous[b], b}
      /\ previous' \in {previous, [previous EXCEPT ![b] = current], [previous EXCEPT ![b] = NoBridge]}
      /\ loop' \in {loop, [loop EXCEPT ![b] = TRUE], [loop EXCEPT ![b] = FALSE]}
  BY <1>2 DEF Activate, Deactivate, DeactivateRaises, BeginAExit
<1>7. current' \in Bridges \cup {NoBridge} /\ previous' \in [Bridges -> Bridges \cup {NoBridge}]
  BY <1>6 DEF BridgeTypes
<1>8. loop' \in [Bridges -> BOOLEAN]
  BY <1>6 DEF BridgeTypes
<1> QED  BY <1>1, <1>3, <1>5, <1>7, <1>8 DEF BridgeTypes

\* and the nesting.
LEMMA BridgeStepNests ==
  ASSUME BridgeInv, NEW b \in Bridges,
         \/ AEnter(b) \/ ActivateOnly(b) \/ BeginAExit(b) \/ EndAExit(b) \/ DeactivateOnly(b)
         \/ Destroy(b)
  PROVE  NestInv'
<1>1. CASE AEnter(b)
  BY <1>1, ActivateNests DEF AEnter
<1>2. CASE ActivateOnly(b)
  BY <1>2, ActivateNests DEF ActivateOnly
<1>3. CASE BeginAExit(b)
  BY <1>3, BeginAExitNests
<1>4. CASE EndAExit(b)
  BY <1>4, DeactivateNests, RaiseNests DEF EndAExit
<1>5. CASE DeactivateOnly(b)
  BY <1>5, DeactivateNests DEF DeactivateOnly
<1>6. CASE Destroy(b)
  BY <1>6, DeactivateNests, RaiseNests DEF Destroy
<1> QED  BY <1>1, <1>2, <1>3, <1>4, <1>5, <1>6

\* Calls leave the bridges alone.
LEMMA CallStepNests ==
  ASSUME BridgeInv,
         \/ \E b \in Bridges : Poll(b)
         \/ \E c \in Calls : (\E r \in Requests : Call(c, r)) \/ Wake(c) \/ Cancel(c) \/ Drop(c)
  PROVE  BridgeInv'
<1>1. UNCHANGED bridgeVars
  BY DEF Poll, RunReady, Call, Wake, Cancel, Drop
<1>2. home' \in [Calls -> Bridges \cup {NoBridge}]
  <2>1. home' = home \/ \E c \in Calls : home' = [home EXCEPT ![c] = current]
    BY DEF Poll, RunReady, Call, Spawn, Wake, Cancel, Drop
  <2> QED  BY <2>1 DEF BridgeInv, BridgeTypes
<1>3. waits' \in [Calls -> 0..MaxWaits]
  <2>1. CASE waits' = waits
    BY <2>1 DEF BridgeInv, BridgeTypes
  <2>2. ASSUME NEW b \in Bridges, RunReady(b) PROVE waits' \in [Calls -> 0..MaxWaits]
    <3> DEFINE ready == {c \in Calls : home[c] = b /\ coro[c] = "ready"}
    <3>1. PICK more \in SUBSET Calls :
            /\ \A c \in more : waits[c] < MaxWaits
            /\ waits' = [c \in Calls |-> IF c \in more THEN waits[c] + 1 ELSE waits[c]]
      <4>1. PICK to \in [ready -> Outcomes \cup {"waiting"}] :
              LET ending == {c \in ready : to[c] # "waiting"} IN
              /\ \A c \in ready \ ending : waits[c] < MaxWaits
              /\ waits' = [c \in Calls |-> IF c \in ready \ ending THEN waits[c] + 1 ELSE waits[c]]
        BY <2>2 DEF RunReady
      <4> WITNESS ready \ {c \in ready : to[c] # "waiting"} \in SUBSET Calls
      <4> QED  BY <4>1
    <3>2. \A c \in Calls : waits[c] \in 0..MaxWaits
      BY DEF BridgeInv, BridgeTypes
    <3>3. \A c \in Calls : waits'[c] \in 0..MaxWaits
      BY <3>1, <3>2, BridgeAssumption
    <3> QED  BY <3>1, <3>3
  <2>3. waits' = waits \/ \E b \in Bridges : RunReady(b)
    BY DEF Poll, Call, Spawn, Wake, Cancel, Drop
  <2> QED  BY <2>1, <2>2, <2>3
<1>4. BridgeTypes'
  BY <1>1, <1>2, <1>3 DEF BridgeInv, BridgeTypes, bridgeVars
<1>5. NestInv'
  BY <1>1 DEF BridgeInv, NestInv, Linked, Clean, Once, bridgeVars
<1> QED  BY <1>4, <1>5 DEF BridgeInv

\* The inductive invariant about bridges.
LEMMA BridgesNest == Spec => []BridgeInv
<1>1. Init => BridgeInv
  <2> SUFFICES ASSUME Init PROVE BridgeInv
    OBVIOUS
  <2>1. BridgeTypes
    BY BridgeAssumption DEF Init, BridgeTypes, BlockStates
  <2>2. Len(opened) = 0
    BY DEF Init
  <2> QED  BY <2>1, <2>2 DEF Init, BridgeInv, NestInv, Linked, Clean, Once
<1>2. BridgeInv /\ [Next]_vars => BridgeInv'
  <2> SUFFICES ASSUME BridgeInv, [Next]_vars PROVE BridgeInv'
    OBVIOUS
  <2>1. ASSUME NEW b \in Bridges,
               \/ AEnter(b) \/ ActivateOnly(b) \/ BeginAExit(b) \/ EndAExit(b) \/ DeactivateOnly(b)
               \/ Destroy(b)
        PROVE  BridgeInv'
    BY <2>1, BridgeStepTypes, BridgeStepNests DEF BridgeInv
  <2>2. CASE \/ \E b \in Bridges : Poll(b)
             \/ \E c \in Calls : (\E r \in Requests : Call(c, r)) \/ Wake(c) \/ Cancel(c) \/ Drop(c)
    BY <2>2, CallStepNests
  <2>3. CASE UNCHANGED vars
    BY <2>3 DEF vars, BridgeInv, BridgeTypes, NestInv, Linked, Clean, Once
  <2> QED  BY <2>1, <2>2, <2>3 DEF Next
<1> QED  BY <1>1, <1>2, PTL DEF Spec

\* Every variable keeps its type, and no Future's count leaves -1..2.
THEOREM BridgeTypesCorrect == Spec => []TypeOK
<1>1. BridgeInv /\ CallInv => TypeOK
  <2> SUFFICES ASSUME BridgeInv, CallInv PROVE TypeOK
    OBVIOUS
  <2>1. \A c \in Calls : refs[c] \in -1..2
    BY DEF CallInv, CallTypes, Counted, Owners, Twice
  <2>2. refs \in [Calls -> -1..2]
    BY <2>1 DEF CallInv, CallTypes
  <2> QED  BY <2>2 DEF TypeOK, BridgeInv, BridgeTypes, CallInv, CallTypes
<1> QED  BY <1>1, BridgesNest, InitCalls, NextKeepsCalls, PTL DEF Spec

\* While blocks nest, current_ and the chain of previous_ are exactly the open
\* blocks, each on a live bridge with its loop, for any number of bridges and
\* however often they are entered, left and destroyed.
THEOREM NestedBlocksChain == Spec => []ChainIsNesting
<1>1. BridgeInv => ChainIsNesting
  BY DEF BridgeInv, NestInv, Linked, Clean, Open, ChainIsNesting
<1> QED  BY <1>1, BridgesNest, PTL
=============================================================================
