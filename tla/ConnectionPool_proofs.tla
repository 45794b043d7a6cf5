----------------------- MODULE ConnectionPool_proofs -----------------------
(***************************************************************************)
(* The pool's leases are exclusive and synchronised, for any number of     *)
(* tasks, blocks, slots and failures, and a log of any length; and the     *)
(* pool grows beyond pool_max by no more than SlotsBounded says.           *)
(***************************************************************************)
EXTENDS ConnectionPool, FiniteSetTheorems, TLAPS

Action == [type : {"PREPARE", "UNPREPARE"}, block : Blocks]
Places == {"idle", "connecting", "syncing_new", "waiting", "syncing", "resyncing", "leased"}
Owning == {"syncing", "resyncing", "leased"}

Types ==
    /\ slots \in Seq(Connection)
    /\ log \in Seq(Action)
    /\ pc \in [Tasks -> Places]
    /\ fresh \in [Tasks -> Connection]
    /\ slot \in [Tasks -> Nat]
    /\ seen \in [Tasks -> Nat]
    /\ faults \in Nat

\* InForce for any log
InForceOf(l, n) ==
    {b \in Blocks : \E i \in 1 .. n :
        /\ l[i] = [type |-> "PREPARE", block |-> b]
        /\ \A j \in i + 1 .. n : l[j].block # b}

\* A connection has replayed a prefix of the log.
Good(c) == c.cursor <= Len(log) /\ c.blocks = InForceOf(log, c.cursor)

\* The slots ss are connections that have; a command has failed on a broken one.
SlotsGood(ss) ==
    \A i \in DOMAIN ss : Good(ss[i]) /\ (ss[i].broken => faults > 0)

\* A task owns a slot while it syncs or uses it, and has something left to replay
\* while it syncs.
Sync(t, ss) ==
    /\ pc[t] \in {"syncing", "resyncing"} =>
          ss[slot[t]].cursor < seen[t] /\ seen[t] <= Len(log)
    /\ pc[t] = "leased" => ss[slot[t]].cursor >= seen[t] \/ ss[slot[t]].broken
Owns(t, ss) ==
    /\ slot[t] # 0 <=> pc[t] \in Owning
    /\ slot[t] # 0 => slot[t] \in DOMAIN ss /\ ss[slot[t]].in_use
Building(t) ==
    pc[t] = "syncing_new" =>
        /\ Good(fresh[t]) /\ ~fresh[t].in_use /\ ~fresh[t].broken
        /\ fresh[t].cursor < seen[t] /\ seen[t] <= Len(log)
Unshared == \A t, u \in Tasks : slot[t] # 0 /\ slot[t] = slot[u] => t = u
NoLeak(ss) == faults = 0 => \A i \in DOMAIN ss : ss[i].in_use => \E t \in Tasks : slot[t] = i

\* Everything the invariant says about the slots
View(ss) ==
    /\ ss \in Seq(Connection)
    /\ SlotsGood(ss)
    /\ \A t \in Tasks : Owns(t, ss) /\ Sync(t, ss)
    /\ NoLeak(ss)

PoolInv ==
    /\ Types
    /\ prepared = InForceOf(log, Len(log))
    /\ View(slots)
    /\ \A t \in Tasks : Building(t)
    /\ Unshared
-----------------------------------------------------------------------------
LEMMA InForceStep ==
  ASSUME NEW l \in Seq(Action), NEW n \in Nat, n < Len(l)
  PROVE  InForceOf(l, n + 1) = IF l[n + 1].type = "PREPARE"
                               THEN InForceOf(l, n) \cup {l[n + 1].block}
                               ELSE InForceOf(l, n) \ {l[n + 1].block}
<1> DEFINE a == l[n + 1]
<1>1. a \in Action
  <2>1. n + 1 \in 1..Len(l)
    OBVIOUS
  <2> QED  BY <2>1
<1>2. ASSUME NEW b \in Blocks
      PROVE  b \in InForceOf(l, n + 1) <=>
                \/ a = [type |-> "PREPARE", block |-> b]
                \/ b \in InForceOf(l, n) /\ a.block # b
  <2>1. ASSUME a = [type |-> "PREPARE", block |-> b] PROVE b \in InForceOf(l, n + 1)
    BY <2>1 DEF InForceOf
  <2>2. ASSUME b \in InForceOf(l, n), a.block # b PROVE b \in InForceOf(l, n + 1)
    <3>1. PICK i \in 1..n : /\ l[i] = [type |-> "PREPARE", block |-> b]
                            /\ \A j \in i + 1 .. n : l[j].block # b
      BY <2>2 DEF InForceOf
    <3>2. i \in 1..(n + 1) /\ \A j \in i + 1 .. n + 1 : l[j].block # b
      BY <2>2, <3>1
    <3> QED  BY <3>1, <3>2 DEF InForceOf
  <2>3. ASSUME b \in InForceOf(l, n + 1), a # [type |-> "PREPARE", block |-> b]
        PROVE  b \in InForceOf(l, n) /\ a.block # b
    <3>1. PICK i \in 1..(n + 1) : /\ l[i] = [type |-> "PREPARE", block |-> b]
                                  /\ \A j \in i + 1 .. n + 1 : l[j].block # b
      BY <2>3 DEF InForceOf
    <3>2. i \in 1..n
      BY <2>3, <3>1
    <3> QED  BY <3>1, <3>2 DEF InForceOf
  <2> QED  BY <2>1, <2>2, <2>3
<1>3. \A b \in Blocks : a = [type |-> "PREPARE", block |-> b] <=> a.type = "PREPARE" /\ a.block = b
  BY <1>1 DEF Action
<1>4. a.block \in Blocks /\ InForceOf(l, n) \subseteq Blocks /\ InForceOf(l, n + 1) \subseteq Blocks
  BY <1>1 DEF Action, InForceOf
<1> QED  BY <1>2, <1>3, <1>4

\* The blocks in force after a prefix do not depend on what follows it.
LEMMA InForcePrefix ==
  ASSUME NEW l \in Seq(Action), NEW a \in Action, NEW n \in Nat, n <= Len(l)
  PROVE  InForceOf(Append(l, a), n) = InForceOf(l, n)
<1>1. \A i \in 1..n : Append(l, a)[i] = l[i]
  OBVIOUS
<1> QED  BY <1>1 DEF InForceOf

LEMMA ReplayGood ==
  ASSUME Types, NEW c \in Connection, Good(c), c.cursor < Len(log)
  PROVE  /\ Replay(c) \in Connection /\ Good(Replay(c))
         /\ Replay(c).cursor = c.cursor + 1
         /\ Replay(c).in_use = c.in_use /\ Replay(c).broken = c.broken
<1> DEFINE a == log[c.cursor + 1]
<1>1. /\ c.cursor \in Nat /\ c.blocks \subseteq Blocks /\ c.in_use \in BOOLEAN /\ c.broken \in BOOLEAN
      /\ c.cursor + 1 \in 1..Len(log) /\ log \in Seq(Action)
  BY DEF Connection, Types
<1>2. a \in Action /\ a.block \in Blocks
  <2>1. a \in Action
    BY <1>1
  <2> QED  BY <2>1 DEF Action
<1>3. /\ Replay(c).cursor = c.cursor + 1
      /\ Replay(c).blocks = IF a.type = "PREPARE" THEN c.blocks \cup {a.block}
                                                  ELSE c.blocks \ {a.block}
      /\ Replay(c).in_use = c.in_use /\ Replay(c).broken = c.broken
  BY DEF Replay, Connection
<1>4. Replay(c).blocks = InForceOf(log, c.cursor + 1)
  BY <1>1, <1>3, InForceStep DEF Good
<1>5. Replay(c) \in Connection
  <2>1. (IF a.type = "PREPARE" THEN c.blocks \cup {a.block} ELSE c.blocks \ {a.block}) \in SUBSET Blocks
    BY <1>1, <1>2
  <2>2. PICK B \in SUBSET Blocks : B = IF a.type = "PREPARE" THEN c.blocks \cup {a.block}
                                                            ELSE c.blocks \ {a.block}
    BY <2>1
  <2>3. Replay(c) = [c EXCEPT !.cursor = c.cursor + 1, !.blocks = B]
    BY <2>2 DEF Replay
  <2>4. Replay(c) = [in_use |-> c.in_use, cursor |-> c.cursor + 1, blocks |-> B,
                     broken |-> c.broken]
    BY <2>3 DEF Connection
  <2>5. c.cursor + 1 \in Nat
    BY <1>1
  <2> QED  BY <1>1, <2>4, <2>5 DEF Connection
<1> QED  BY <1>1, <1>3, <1>4, <1>5 DEF Good

LEMMA SetField ==
  ASSUME NEW c \in Connection, NEW v \in BOOLEAN
  PROVE  /\ [c EXCEPT !.in_use = v] = [in_use |-> v, cursor |-> c.cursor, blocks |-> c.blocks,
                                       broken |-> c.broken]
         /\ [c EXCEPT !.in_use = v] \in Connection
         /\ [c EXCEPT !.broken = v] = [in_use |-> c.in_use, cursor |-> c.cursor,
                                       blocks |-> c.blocks, broken |-> v]
         /\ [c EXCEPT !.broken = v] \in Connection
<1>1. /\ c.in_use \in BOOLEAN /\ c.cursor \in Nat /\ c.blocks \in SUBSET Blocks
      /\ c.broken \in BOOLEAN
  BY DEF Connection
<1>2. /\ [c EXCEPT !.in_use = v] = [in_use |-> v, cursor |-> c.cursor, blocks |-> c.blocks,
                                    broken |-> c.broken]
      /\ [c EXCEPT !.broken = v] = [in_use |-> c.in_use, cursor |-> c.cursor,
                                    blocks |-> c.blocks, broken |-> v]
  BY DEF Connection
<1> QED  BY <1>1, <1>2 DEF Connection

LEMMA SetSlot ==
  ASSUME NEW ss \in Seq(Connection), NEW i \in DOMAIN ss, NEW c \in Connection
  PROVE  /\ [ss EXCEPT ![i] = c] \in Seq(Connection)
         /\ DOMAIN [ss EXCEPT ![i] = c] = DOMAIN ss
         /\ [ss EXCEPT ![i] = c][i] = c
         /\ \A j \in DOMAIN ss : j # i => [ss EXCEPT ![i] = c][j] = ss[j]
  OBVIOUS

LEMMA InitPool == Init => PoolInv
<1> SUFFICES ASSUME Init PROVE PoolInv
  OBVIOUS
<1>1. NewConnection \in Connection
  BY DEF NewConnection, Connection
<1>2. Types
  <2>1. slots \in Seq(Connection) /\ log \in Seq(Action) /\ faults \in Nat
    BY DEF Init
  <2>2. fresh \in [Tasks -> Connection]
    BY <1>1 DEF Init
  <2>3. pc \in [Tasks -> Places] /\ slot \in [Tasks -> Nat] /\ seen \in [Tasks -> Nat]
    BY DEF Init, Places
  <2> QED  BY <2>1, <2>2, <2>3 DEF Types
<1>3. prepared = InForceOf(log, Len(log))
  BY DEF Init, InForceOf
<1>4. View(slots)
  BY <1>2 DEF Init, View, SlotsGood, Owns, Sync, NoLeak, Types, Owning
<1>5. Unshared /\ \A t \in Tasks : Building(t)
  BY DEF Init, Unshared, Building
<1> QED  BY <1>2, <1>3, <1>4, <1>5 DEF PoolInv

\* A connection that has replayed a prefix of the log can be a new slot.
LEMMA AppendView ==
  ASSUME PoolInv, NEW c \in Connection, Good(c), ~c.in_use, ~c.broken
  PROVE  View(Append(slots, c))
<1> DEFINE ss == Append(slots, c)
<1>1. /\ slots \in Seq(Connection) /\ ss \in Seq(Connection) /\ Len(slots) \in Nat
      /\ DOMAIN slots = 1..Len(slots) /\ DOMAIN ss = 1..(Len(slots) + 1)
      /\ \A i \in 1..Len(slots) : ss[i] = slots[i]
      /\ ss[Len(slots) + 1] = c
  BY DEF PoolInv, Types
<1>2. SlotsGood(ss)
  BY <1>1 DEF PoolInv, View, SlotsGood
<1>3. ASSUME NEW t \in Tasks PROVE Owns(t, ss) /\ Sync(t, ss)
  <2>1. Owns(t, slots) /\ Sync(t, slots)
    BY DEF PoolInv, View
  <2>2. CASE slot[t] # 0
    <3>1. slot[t] \in DOMAIN ss /\ ss[slot[t]] = slots[slot[t]]
      BY <1>1, <2>1, <2>2 DEF Owns
    <3> QED  BY <2>1, <3>1 DEF Owns, Sync
  <2>3. CASE slot[t] = 0
    BY <2>1, <2>3 DEF Owns, Sync, Owning
  <2> QED  BY <2>2, <2>3
<1>4. NoLeak(ss)
  BY <1>1 DEF PoolInv, View, NoLeak
<1> QED  BY <1>1, <1>2, <1>3, <1>4 DEF View

LEMMA TakeSlotKeeps ==
  ASSUME PoolInv, NEW t \in Tasks, NEW ss, View(ss), NEW i \in DOMAIN ss, ~ss[i].in_use,
         slot[t] = 0, TakeSlot(t, i, ss), UNCHANGED <<log, prepared, fresh, faults>>
  PROVE  PoolInv'
<1> DEFINE c == [ss[i] EXCEPT !.in_use = TRUE]
<1>1. ss \in Seq(Connection) /\ ss[i] \in Connection /\ DOMAIN ss = 1..Len(ss) /\ i \in Nat \ {0}
  BY DEF View
<1>2. /\ c \in Connection /\ c.in_use /\ c.cursor = ss[i].cursor
      /\ c.blocks = ss[i].blocks /\ c.broken = ss[i].broken /\ ss[i].cursor \in Nat
  <2>1. /\ c = [in_use |-> TRUE, cursor |-> ss[i].cursor, blocks |-> ss[i].blocks,
                 broken |-> ss[i].broken]
        /\ c \in Connection
    BY <1>1, SetField
  <2>2. ss[i].cursor \in Nat
    BY <1>1 DEF Connection
  <2> QED  BY <2>1, <2>2
<1>3. /\ slots' = [ss EXCEPT ![i] = c]
      /\ slot' = [slot EXCEPT ![t] = i]
      /\ seen' = [seen EXCEPT ![t] = Len(log)]
      /\ pc' = [pc EXCEPT ![t] = IF ss[i].cursor < Len(log) THEN "syncing" ELSE "leased"]
  BY DEF TakeSlot
<1>4. /\ slots' \in Seq(Connection) /\ DOMAIN slots' = DOMAIN ss /\ slots'[i] = c
      /\ \A j \in DOMAIN ss : j # i => slots'[j] = ss[j]
  BY <1>1, <1>2, <1>3, SetSlot
<1>5. Types /\ Len(log) \in Nat
  BY DEF PoolInv, Types
<1>6. /\ slot'[t] = i /\ seen'[t] = Len(log)
      /\ pc'[t] = IF ss[i].cursor < Len(log) THEN "syncing" ELSE "leased"
      /\ \A u \in Tasks : u # t => slot'[u] = slot[u] /\ seen'[u] = seen[u] /\ pc'[u] = pc[u]
  BY <1>3, <1>5 DEF Types
<1>7. Types'
  <2>1. pc' \in [Tasks -> Places]
    BY <1>3, <1>5 DEF Types, Places
  <2>2. slot' \in [Tasks -> Nat] /\ seen' \in [Tasks -> Nat]
    BY <1>1, <1>3, <1>5 DEF Types
  <2> QED  BY <1>4, <1>5, <2>1, <2>2 DEF Types
<1>8. ASSUME NEW u \in Tasks, u # t PROVE slot[u] # i
  BY <1>1 DEF View, Owns
<1>9. SlotsGood(slots)'
  BY <1>2, <1>4 DEF View, SlotsGood, Good
<1>10. ASSUME NEW u \in Tasks PROVE (Owns(u, slots) /\ Sync(u, slots))'
  <2>1. CASE u = t
    <3>1. Owns(t, slots)'
      BY <1>1, <1>2, <1>4, <1>6 DEF Owns, Owning
    <3>2. Sync(t, slots)'
      <4>1. slots'[slot'[t]].cursor = ss[i].cursor /\ seen'[t] = Len(log) /\ log' = log
        BY <1>2, <1>4, <1>6
      <4>2. CASE ss[i].cursor < Len(log)
        BY <4>1, <4>2, <1>5, <1>6 DEF Sync
      <4>3. CASE ~(ss[i].cursor < Len(log))
        <5>1. ss[i].cursor >= Len(log) /\ pc'[t] = "leased"
          BY <4>3, <1>2, <1>5, <1>6
        <5> QED  BY <4>1, <5>1 DEF Sync
      <4> QED  BY <4>2, <4>3
    <3> QED  BY <2>1, <3>1, <3>2
  <2>2. CASE u # t
    <3>1. Owns(u, ss) /\ Sync(u, ss)
      BY DEF View
    <3>2. slot[u] # 0 => slots'[slot[u]] = ss[slot[u]]
      BY <2>2, <3>1, <1>4, <1>8 DEF Owns
    <3> QED  BY <2>2, <3>1, <3>2, <1>4, <1>6 DEF Owns, Sync, Owning
  <2> QED  BY <2>1, <2>2
<1>11. NoLeak(slots)'
  <2> SUFFICES ASSUME faults = 0, NEW j \in DOMAIN ss, slots'[j].in_use
               PROVE  \E u \in Tasks : slot'[u] = j
    BY <1>4 DEF NoLeak
  <2>1. CASE j = i
    BY <2>1, <1>6
  <2>2. CASE j # i
    <3>1. PICK u \in Tasks : slot[u] = j
      BY <2>2, <1>4 DEF View, NoLeak
    <3> QED  BY <3>1, <1>1, <1>6
  <2> QED  BY <2>1, <2>2
<1>12. Unshared'
  BY <1>6, <1>8 DEF PoolInv, Unshared
<1>13. ASSUME NEW u \in Tasks PROVE Building(u)'
  BY <1>6 DEF PoolInv, Building, Good
<1> QED  BY <1>4, <1>7, <1>9, <1>10, <1>11, <1>12, <1>13 DEF PoolInv, View

LEMMA SuspendKeeps ==
  ASSUME PoolInv, NEW t \in Tasks, NEW ss, View(ss), slot[t] = 0,
         NEW where \in {"connecting", "waiting"}, SuspendAt(t, where, ss),
         UNCHANGED <<log, prepared, fresh, faults>>
  PROVE  PoolInv'
<1>1. /\ slots' = ss /\ slot' = slot /\ seen' = seen
      /\ pc' = [pc EXCEPT ![t] = where] /\ Types
  BY DEF SuspendAt, PoolInv
<1>2. /\ pc' \in [Tasks -> Places] /\ pc'[t] = where
      /\ \A u \in Tasks : u # t => pc'[u] = pc[u]
  BY <1>1 DEF Types, Places
<1>3. Types'
  BY <1>1, <1>2 DEF Types, View
<1>4. SlotsGood(slots)' /\ NoLeak(slots)'
  BY <1>1 DEF View, SlotsGood, Good, NoLeak
<1>5. ASSUME NEW u \in Tasks PROVE (Owns(u, slots) /\ Sync(u, slots))'
  BY <1>1, <1>2 DEF View, Owns, Sync, Owning
<1>6. ASSUME NEW u \in Tasks PROVE Building(u)'
  BY <1>1, <1>2 DEF PoolInv, Building, Good
<1>7. Unshared'
  BY <1>1 DEF PoolInv, Unshared
<1> QED  BY <1>1, <1>3, <1>4, <1>5, <1>6, <1>7 DEF PoolInv, View

LEMMA ChooseSlotKeeps ==
  ASSUME PoolInv, NEW t \in Tasks, NEW ss, View(ss), slot[t] = 0, ChooseSlot(t, ss),
         UNCHANGED <<log, prepared, fresh, faults>>
  PROVE  PoolInv'
<1>1. ASSUME NEW i \in DOMAIN ss, FirstIdle(i, ss), TakeSlot(t, i, ss) PROVE PoolInv'
  BY <1>1, TakeSlotKeeps DEF FirstIdle, Idle
<1>2. CASE SuspendAt(t, "connecting", ss)
  BY <1>2, SuspendKeeps
<1>3. CASE SuspendAt(t, "waiting", ss)
  BY <1>3, SuspendKeeps
<1> QED  BY <1>1, <1>2, <1>3 DEF ChooseSlot

LEMMA SlotCreatedKeeps ==
  ASSUME PoolInv, NEW t \in Tasks, slot[t] = 0, NEW c \in Connection, Good(c),
         ~c.in_use, ~c.broken, SlotCreated(t, c), UNCHANGED <<log, prepared, fresh, faults>>
  PROVE  PoolInv'
<1> DEFINE ss == Append(slots, c)
<1>1. View(ss)
  BY AppendView
<1>2. Len(ss) \in DOMAIN ss /\ ~ss[Len(ss)].in_use
  BY DEF PoolInv, Types
<1>3. CASE SuspendAt(t, "connecting", ss)
  BY <1>1, <1>3, SuspendKeeps
<1>4. CASE ChooseSlot(t, ss)
  BY <1>1, <1>4, ChooseSlotKeeps
<1>5. CASE TakeSlot(t, Len(ss), ss)
  BY <1>1, <1>2, <1>5, TakeSlotKeeps
<1> QED  BY <1>3, <1>4, <1>5 DEF SlotCreated

LEMMA NoSlotUnlessOwning ==
  ASSUME PoolInv, NEW t \in Tasks, pc[t] \notin Owning
  PROVE  slot[t] = 0
  BY DEF PoolInv, View, Owns

LEMMA AcquireKeeps ==
  ASSUME PoolInv, NEW t \in Tasks, Acquire(t)
  PROVE  PoolInv'
<1>1. slot[t] = 0 /\ View(slots) /\ UNCHANGED <<log, prepared, fresh, faults>>
  BY NoSlotUnlessOwning DEF Acquire, Owning, PoolInv
<1>2. CASE ChooseSlot(t, slots)
  BY <1>1, <1>2, ChooseSlotKeeps
<1>3. CASE SuspendAt(t, "connecting", slots)
  BY <1>1, <1>3, SuspendKeeps
<1> QED  BY <1>2, <1>3 DEF Acquire

LEMMA NewConnectionGood ==
  NewConnection \in Connection /\ NewConnection.cursor = 0
  /\ ~NewConnection.in_use /\ ~NewConnection.broken
  /\ (Types => Good(NewConnection))
<1>1. NewConnection \in Connection
  BY DEF NewConnection, Connection
<1>2. Types => Good(NewConnection)
  BY DEF NewConnection, Types, Good, InForceOf
<1> QED  BY <1>1, <1>2 DEF NewConnection

LEMMA ConnectedKeeps ==
  ASSUME PoolInv, NEW t \in Tasks, Connected(t)
  PROVE  PoolInv'
<1>1. slot[t] = 0 /\ pc[t] = "connecting" /\ UNCHANGED <<log, prepared, faults>> /\ Types
  BY NoSlotUnlessOwning DEF Connected, Owning, PoolInv
<1>2. CASE SlotCreated(t, NewConnection) /\ UNCHANGED fresh
  BY <1>1, <1>2, NewConnectionGood, SlotCreatedKeeps
<1>3. CASE /\ log # <<>>
           /\ fresh' = [fresh EXCEPT ![t] = NewConnection]
           /\ seen' = [seen EXCEPT ![t] = Len(log)]
           /\ pc' = [pc EXCEPT ![t] = "syncing_new"]
           /\ UNCHANGED <<slots, slot, todo, initialized>>
  <2>1. Len(log) \in Nat /\ Len(log) > 0
    BY <1>1, <1>3 DEF Types
  <2>2. /\ fresh' \in [Tasks -> Connection] /\ fresh'[t] = NewConnection
        /\ \A u \in Tasks : u # t => fresh'[u] = fresh[u]
    BY <1>1, <1>3, NewConnectionGood DEF Types
  <2>3. /\ seen' \in [Tasks -> Nat] /\ seen'[t] = Len(log)
        /\ \A u \in Tasks : u # t => seen'[u] = seen[u]
    BY <1>1, <1>3, <2>1 DEF Types
  <2>4. /\ pc' \in [Tasks -> Places] /\ pc'[t] = "syncing_new"
        /\ \A u \in Tasks : u # t => pc'[u] = pc[u]
    BY <1>1, <1>3 DEF Types, Places
  <2>5. Types'
    BY <1>1, <1>3, <2>2, <2>3, <2>4 DEF Types
  <2>6. SlotsGood(slots)' /\ NoLeak(slots)'
    BY <1>1, <1>3 DEF PoolInv, View, SlotsGood, Good, NoLeak
  <2>7. ASSUME NEW u \in Tasks PROVE (Owns(u, slots) /\ Sync(u, slots))'
    BY <1>1, <1>3, <2>3, <2>4 DEF PoolInv, View, Owns, Sync, Owning
  <2>8. ASSUME NEW u \in Tasks PROVE Building(u)'
    <3>1. CASE u = t
      BY <3>1, <1>1, <2>1, <2>2, <2>3, NewConnectionGood DEF Building, Good
    <3>2. CASE u # t
      BY <3>2, <1>1, <2>2, <2>3, <2>4 DEF PoolInv, Building, Good
    <3> QED  BY <3>1, <3>2
  <2>9. Unshared'
    BY <1>3 DEF PoolInv, Unshared
  <2> QED  BY <1>1, <1>3, <2>5, <2>6, <2>7, <2>8, <2>9 DEF PoolInv, View, Types
<1> QED  BY <1>2, <1>3 DEF Connected

LEMMA SyncNewSlotKeeps ==
  ASSUME PoolInv, NEW t \in Tasks, SyncNewSlot(t)
  PROVE  PoolInv'
<1>1. /\ slot[t] = 0 /\ pc[t] = "syncing_new" /\ UNCHANGED <<log, prepared, faults>> /\ Types
      /\ fresh[t] \in Connection
  BY NoSlotUnlessOwning DEF SyncNewSlot, Owning, PoolInv, Types
<1>2. /\ Good(fresh[t]) /\ ~fresh[t].in_use /\ ~fresh[t].broken
      /\ fresh[t].cursor < seen[t] /\ seen[t] <= Len(log)
  BY <1>1 DEF PoolInv, Building
<1>3. fresh[t].cursor \in Nat /\ seen[t] \in Nat /\ Len(log) \in Nat
  BY <1>1 DEF Types, Connection
<1>4. PICK c \in Connection : /\ c = Replay(fresh[t]) /\ Good(c) /\ ~c.in_use /\ ~c.broken
                              /\ c.cursor = fresh[t].cursor + 1
  BY <1>1, <1>2, <1>3, ReplayGood
<1>5. CASE SlotCreated(t, c) /\ UNCHANGED fresh
  BY <1>1, <1>4, <1>5, SlotCreatedKeeps
<1>6. CASE /\ c.cursor < seen[t]
           /\ fresh' = [fresh EXCEPT ![t] = c]
           /\ UNCHANGED <<slots, slot, seen, todo, initialized, pc>>
  <2>1. /\ fresh' \in [Tasks -> Connection] /\ fresh'[t] = c
        /\ \A u \in Tasks : u # t => fresh'[u] = fresh[u]
    BY <1>1, <1>6 DEF Types
  <2>2. Types'
    BY <1>1, <1>6, <2>1 DEF Types
  <2>3. SlotsGood(slots)' /\ NoLeak(slots)' /\ Unshared'
    BY <1>1, <1>6 DEF PoolInv, View, SlotsGood, Good, NoLeak, Unshared
  <2>4. ASSUME NEW u \in Tasks PROVE (Owns(u, slots) /\ Sync(u, slots))'
    BY <1>1, <1>6 DEF PoolInv, View, Owns, Sync
  <2>5. ASSUME NEW u \in Tasks PROVE Building(u)'
    <3>1. CASE u = t
      BY <3>1, <1>1, <1>2, <1>4, <1>6, <2>1 DEF Building, Good
    <3>2. CASE u # t
      BY <3>2, <1>1, <1>6, <2>1 DEF PoolInv, Building, Good
    <3> QED  BY <3>1, <3>2
  <2> QED  BY <1>1, <2>2, <2>3, <2>4, <2>5 DEF PoolInv, View, Types
<1> QED  BY <1>4, <1>5, <1>6 DEF SyncNewSlot

LEMMA PollSlotKeeps ==
  ASSUME PoolInv, NEW t \in Tasks, PollSlot(t)
  PROVE  PoolInv'
<1>1. slot[t] = 0 /\ View(slots) /\ UNCHANGED <<log, prepared, fresh, faults>>
  BY NoSlotUnlessOwning DEF PollSlot, Owning, PoolInv
<1>2. PICK i \in DOMAIN slots : FirstIdle(i, slots) /\ TakeSlot(t, i, slots)
  BY DEF PollSlot
<1>3. ~slots[i].in_use
  BY <1>2 DEF FirstIdle, Idle
<1> QED  BY <1>1, <1>2, <1>3, TakeSlotKeeps

\* A task changes the connection of its own slot, and keeps the slot or leaves it.
Keeps(t, c, w) ==
    /\ slot' = slot /\ w \in Owning /\ c.in_use
    /\ w \in {"syncing", "resyncing"} => c.cursor < seen[t] /\ seen[t] <= Len(log)
    /\ w = "leased" => c.cursor >= seen[t] \/ c.broken
Leaves(t, c, w) ==
    /\ slot' = [slot EXCEPT ![t] = 0] /\ w = "idle"
    /\ ~c.in_use \/ faults' > 0

LEMMA OwnSlotStep ==
  ASSUME PoolInv, NEW t \in Tasks, slot[t] # 0, NEW c \in Connection, Good(c),
         NEW w \in Places, pc' = [pc EXCEPT ![t] = w],
         slots' = [slots EXCEPT ![slot[t]] = c],
         UNCHANGED <<log, prepared, fresh, seen>>,
         faults' \in Nat, faults' >= faults, c.broken => faults' > 0,
         Keeps(t, c, w) \/ Leaves(t, c, w)
  PROVE  PoolInv'
<1>1. Types /\ slots \in Seq(Connection) /\ faults \in Nat
  BY DEF PoolInv, Types
<1>2. slot[t] \in DOMAIN slots
  BY DEF PoolInv, View, Owns
<1>3. /\ slots' \in Seq(Connection) /\ DOMAIN slots' = DOMAIN slots /\ slots'[slot[t]] = c
      /\ \A j \in DOMAIN slots : j # slot[t] => slots'[j] = slots[j]
  BY <1>1, <1>2, SetSlot
<1>4. /\ pc' \in [Tasks -> Places] /\ pc'[t] = w
      /\ \A u \in Tasks : u # t => pc'[u] = pc[u]
  BY <1>1 DEF Types
<1>5. /\ slot' \in [Tasks -> Nat]
      /\ \A u \in Tasks : u # t => slot'[u] = slot[u]
      /\ slot'[t] = slot[t] \/ slot'[t] = 0
  <2>1. slot' = slot \/ slot' = [slot EXCEPT ![t] = 0]
    BY DEF Keeps, Leaves
  <2>2. slot \in [Tasks -> Nat]
    BY <1>1 DEF Types
  <2>3. CASE slot' = slot
    BY <2>2, <2>3
  <2>4. CASE slot' = [slot EXCEPT ![t] = 0]
    BY <2>2, <2>4
  <2> QED  BY <2>1, <2>3, <2>4
<1>6. Types'
  BY <1>1, <1>3, <1>4, <1>5 DEF Types
<1>7. ASSUME NEW j \in DOMAIN slots PROVE Good(slots'[j]) /\ (slots'[j].broken => faults' > 0)
  <2>1. CASE j = slot[t]
    BY <2>1, <1>3
  <2>2. CASE j # slot[t]
    BY <2>2, <1>1, <1>3 DEF PoolInv, View, SlotsGood
  <2> QED  BY <2>1, <2>2
<1>8. SlotsGood(slots)'
  BY <1>3, <1>7 DEF SlotsGood, Good
<1>9. ASSUME NEW u \in Tasks PROVE (Owns(u, slots) /\ Sync(u, slots))'
  <2>1. CASE u = t /\ Keeps(t, c, w)
    <3>1. slot'[t] = slot[t] /\ slots'[slot'[t]] = c
      BY <2>1, <1>3 DEF Keeps
    <3> QED  BY <2>1, <3>1, <1>2, <1>3, <1>4 DEF Keeps, Owns, Sync
  <2>2. CASE u = t /\ Leaves(t, c, w)
    <3>1. slot'[t] = 0
      BY <2>2, <1>1 DEF Leaves, Types
    <3> QED  BY <2>2, <3>1, <1>4 DEF Leaves, Owns, Sync, Owning
  <2>3. CASE u # t
    <3>1. Owns(u, slots) /\ Sync(u, slots)
      BY DEF PoolInv, View
    <3>2. slot[u] # 0 => slot[u] # slot[t] /\ slots'[slot[u]] = slots[slot[u]]
      BY <2>3, <3>1, <1>3 DEF PoolInv, Unshared, Owns
    <3> QED  BY <2>3, <3>1, <3>2, <1>3, <1>4, <1>5 DEF Owns, Sync, Owning
  <2> QED  BY <2>1, <2>2, <2>3
<1>10. NoLeak(slots)'
  <2> SUFFICES ASSUME faults' = 0, NEW j \in DOMAIN slots, slots'[j].in_use
               PROVE  \E u \in Tasks : slot'[u] = j
    BY <1>3 DEF NoLeak
  <2>1. CASE j = slot[t]
    BY <2>1, <1>3 DEF Keeps, Leaves
  <2>2. CASE j # slot[t]
    <3>1. faults = 0 /\ slots[j].in_use
      BY <2>2, <1>1, <1>3
    <3>2. PICK u \in Tasks : slot[u] = j
      BY <3>1 DEF PoolInv, View, NoLeak
    <3> QED  BY <2>2, <3>2, <1>5
  <2> QED  BY <2>1, <2>2
<1>11. Unshared'
  <2> SUFFICES ASSUME NEW u \in Tasks, NEW v \in Tasks, slot'[u] # 0, slot'[u] = slot'[v]
               PROVE  u = v
    BY DEF Unshared
  <2>1. slot[u] = slot'[u] /\ slot[v] = slot'[v]
    BY <1>5
  <2> QED  BY <2>1 DEF PoolInv, Unshared
<1>12. ASSUME NEW u \in Tasks PROVE Building(u)'
  <2>1. w # "syncing_new"
    BY DEF Keeps, Leaves, Owning
  <2> QED  BY <2>1, <1>4 DEF PoolInv, Building, Good
<1> QED  BY <1>3, <1>6, <1>8, <1>9, <1>10, <1>11, <1>12 DEF PoolInv, View

LEMMA OwnedSlot ==
  ASSUME PoolInv, NEW t \in Tasks, pc[t] \in Owning
  PROVE  /\ slot[t] # 0 /\ slot[t] \in DOMAIN slots
         /\ slots[slot[t]] \in Connection /\ Good(slots[slot[t]]) /\ slots[slot[t]].in_use
         /\ slots[slot[t]].broken => faults > 0
         /\ slots[slot[t]].cursor \in Nat /\ seen[t] \in Nat /\ Len(log) \in Nat /\ faults \in Nat
         /\ Sync(t, slots)
<1>1. slot[t] # 0 /\ slot[t] \in DOMAIN slots /\ slots[slot[t]].in_use /\ Sync(t, slots)
  BY DEF PoolInv, View, Owns
<1>2. slots[slot[t]] \in Connection /\ seen[t] \in Nat /\ Len(log) \in Nat /\ faults \in Nat
  BY <1>1 DEF PoolInv, Types
<1>3. Good(slots[slot[t]]) /\ (slots[slot[t]].broken => faults > 0)
  BY <1>1 DEF PoolInv, View, SlotsGood
<1>4. slots[slot[t]].cursor \in Nat
  BY <1>2 DEF Connection
<1> QED  BY <1>1, <1>2, <1>3, <1>4

LEMMA SyncSlotKeeps ==
  ASSUME PoolInv, NEW t \in Tasks, SyncSlot(t)
  PROVE  PoolInv'
<1> DEFINE s == slots[slot[t]]
<1>1. pc[t] \in {"syncing", "resyncing"} /\ pc[t] \in Owning
  BY DEF SyncSlot, Owning
<1>2. /\ slot[t] # 0 /\ s \in Connection /\ Good(s) /\ s.in_use
      /\ s.cursor \in Nat /\ seen[t] \in Nat /\ Len(log) \in Nat /\ faults \in Nat
  BY <1>1, OwnedSlot
<1>3. s.cursor < seen[t] /\ seen[t] <= Len(log)
  BY <1>1, OwnedSlot DEF Sync
<1>4. PICK c \in Connection : /\ c = Replay(s) /\ Good(c) /\ c.cursor = s.cursor + 1
                              /\ c.in_use = s.in_use /\ c.broken = s.broken
  <2>1. Types /\ s.cursor < Len(log)
    BY <1>2, <1>3 DEF PoolInv
  <2>2. /\ Replay(s) \in Connection /\ Good(Replay(s)) /\ Replay(s).cursor = s.cursor + 1
        /\ Replay(s).in_use = s.in_use /\ Replay(s).broken = s.broken
    BY <1>2, <2>1, ReplayGood
  <2> QED  BY <2>2
<1>5. PICK w \in Places : w = IF c.cursor < seen[t] THEN pc[t] ELSE "leased"
  BY <1>1 DEF Places
<1>6. /\ slots' = [slots EXCEPT ![slot[t]] = c] /\ slot' = slot
      /\ pc' = [pc EXCEPT ![t] = w] /\ UNCHANGED <<log, prepared, fresh, seen, faults>>
  BY <1>4, <1>5 DEF SyncSlot
<1>7. Keeps(t, c, w)
  BY <1>1, <1>2, <1>3, <1>4, <1>5, <1>6 DEF Keeps, Owning
<1>8. c.broken => faults > 0
  BY <1>1, <1>4, OwnedSlot
<1>9. faults' \in Nat /\ faults' >= faults /\ (c.broken => faults' > 0)
  BY <1>2, <1>6, <1>8
<1> QED  BY <1>2, <1>4, <1>6, <1>7, <1>9, OwnSlotStep

LEMMA CreateSlotFailsKeeps ==
  ASSUME PoolInv, NEW t \in Tasks, CreateSlotFails(t)
  PROVE  PoolInv'
<1>1. /\ slot[t] = 0 /\ Types /\ faults' = faults + 1 /\ faults \in Nat
      /\ pc' = [pc EXCEPT ![t] = "idle"]
      /\ UNCHANGED <<slots, log, prepared, fresh, slot, seen>>
  BY NoSlotUnlessOwning DEF CreateSlotFails, Fault, Owning, PoolInv, Types
<1>2. /\ pc' \in [Tasks -> Places] /\ pc'[t] = "idle"
      /\ \A u \in Tasks : u # t => pc'[u] = pc[u]
  BY <1>1 DEF Types, Places
<1>3. Types'
  BY <1>1, <1>2 DEF Types
<1>4. SlotsGood(slots)' /\ NoLeak(slots)' /\ Unshared'
  BY <1>1 DEF PoolInv, View, SlotsGood, Good, NoLeak, Unshared
<1>5. ASSUME NEW u \in Tasks PROVE (Owns(u, slots) /\ Sync(u, slots))'
  BY <1>1, <1>2 DEF PoolInv, View, Owns, Sync, Owning
<1>6. ASSUME NEW u \in Tasks PROVE Building(u)'
  BY <1>1, <1>2 DEF PoolInv, Building, Good
<1> QED  BY <1>1, <1>3, <1>4, <1>5, <1>6 DEF PoolInv, View, Types

\* A command fails on the connection of t's slot.
LEMMA BrokenSlot ==
  ASSUME PoolInv, NEW t \in Tasks, pc[t] \in Owning
  PROVE  \E c \in Connection :
            /\ c = [slots[slot[t]] EXCEPT !.broken = TRUE]
            /\ Good(c) /\ c.broken /\ c.in_use
<1> DEFINE s == slots[slot[t]]
           c == [s EXCEPT !.broken = TRUE]
<1>1. s \in Connection /\ Good(s) /\ s.in_use
  BY OwnedSlot
<1>2. /\ c = [in_use |-> s.in_use, cursor |-> s.cursor, blocks |-> s.blocks, broken |-> TRUE]
      /\ c \in Connection
  BY <1>1, SetField
<1>3. c.in_use = s.in_use /\ c.cursor = s.cursor /\ c.blocks = s.blocks /\ c.broken
  BY <1>2
<1> QED  BY <1>1, <1>2, <1>3 DEF Good

LEMMA SyncSlotFailsKeeps ==
  ASSUME PoolInv, NEW t \in Tasks, SyncSlotFails(t)
  PROVE  PoolInv'
<1>1. pc[t] \in {"syncing", "resyncing"} /\ pc[t] \in Owning
  BY DEF SyncSlotFails, Owning
<1>2. slot[t] # 0 /\ faults \in Nat /\ (slots[slot[t]].broken => faults > 0)
  BY <1>1, OwnedSlot
<1>3. PICK c \in Connection : /\ c = [slots[slot[t]] EXCEPT !.broken = TRUE]
                              /\ Good(c) /\ c.broken /\ c.in_use
  BY <1>1, BrokenSlot
<1>4. slots' = [slots EXCEPT ![slot[t]] = c] /\ UNCHANGED <<log, prepared, fresh, seen>>
  BY <1>3 DEF SyncSlotFails
<1>5. faults' \in Nat /\ faults' >= faults /\ faults' > 0
  <2>1. CASE slots[slot[t]].broken
    BY <2>1, <1>2 DEF SyncSlotFails
  <2>2. CASE ~slots[slot[t]].broken
    BY <2>2, <1>2 DEF SyncSlotFails, Fault
  <2> QED  BY <2>1, <2>2
<1>6. CASE pc[t] = "syncing" /\ pc' = [pc EXCEPT ![t] = "idle"] /\ slot' = [slot EXCEPT ![t] = 0]
  <2>1. Leaves(t, c, "idle") /\ "idle" \in Places
    BY <1>5, <1>6 DEF Leaves, Places
  <2> QED  BY <1>2, <1>3, <1>4, <1>5, <1>6, <2>1, OwnSlotStep
<1>7. CASE pc[t] = "resyncing" /\ pc' = [pc EXCEPT ![t] = "leased"] /\ slot' = slot
  <2>1. Keeps(t, c, "leased") /\ "leased" \in Places
    BY <1>3, <1>7 DEF Keeps, Places, Owning
  <2> QED  BY <1>2, <1>3, <1>4, <1>5, <1>7, <2>1, OwnSlotStep
<1> QED  BY <1>6, <1>7 DEF SyncSlotFails

LEMMA QueryFailsKeeps ==
  ASSUME PoolInv, NEW t \in Tasks, QueryFails(t)
  PROVE  PoolInv'
<1>1. pc[t] = "leased" /\ pc[t] \in Owning /\ "leased" \in Places
  BY DEF QueryFails, Owning, Places
<1>2. slot[t] # 0 /\ faults \in Nat
  BY <1>1, OwnedSlot
<1>3. PICK c \in Connection : /\ c = [slots[slot[t]] EXCEPT !.broken = TRUE]
                              /\ Good(c) /\ c.broken /\ c.in_use
  BY <1>1, BrokenSlot
<1>4. /\ slots' = [slots EXCEPT ![slot[t]] = c] /\ UNCHANGED <<log, prepared, fresh, seen>>
      /\ slot' = slot /\ faults' = faults + 1
  BY <1>3 DEF QueryFails, Fault
<1>5. pc' = [pc EXCEPT ![t] = "leased"]
  BY <1>1 DEF QueryFails, PoolInv, Types
<1>6. Keeps(t, c, "leased")
  BY <1>3, <1>4 DEF Keeps, Owning
<1>7. faults' \in Nat /\ faults' >= faults /\ faults' > 0
  BY <1>2, <1>4
<1> QED  BY <1>1, <1>2, <1>3, <1>4, <1>5, <1>6, <1>7, OwnSlotStep

LEMMA ReleaseSlotKeeps ==
  ASSUME PoolInv, NEW t \in Tasks, ReleaseSlot(t)
  PROVE  PoolInv'
<1> DEFINE s == slots[slot[t]]
<1>1. pc[t] \in Owning /\ "idle" \in Places
  BY DEF ReleaseSlot, Owning, Places
<1>2. slot[t] # 0 /\ faults \in Nat /\ s \in Connection /\ Good(s) /\ (s.broken => faults > 0)
  BY <1>1, OwnedSlot
<1>3. PICK c \in Connection : /\ c = [s EXCEPT !.in_use = FALSE]
                              /\ Good(c) /\ ~c.in_use /\ c.broken = s.broken
  <2> DEFINE d == [s EXCEPT !.in_use = FALSE]
  <2>1. /\ d = [in_use |-> FALSE, cursor |-> s.cursor, blocks |-> s.blocks, broken |-> s.broken]
        /\ d \in Connection
    BY <1>2, SetField
  <2>2. ~d.in_use /\ d.cursor = s.cursor /\ d.blocks = s.blocks /\ d.broken = s.broken
    BY <2>1
  <2> QED  BY <1>2, <2>1, <2>2 DEF Good
<1>4. /\ slots' = [slots EXCEPT ![slot[t]] = c] /\ UNCHANGED <<log, prepared, fresh, seen, faults>>
      /\ pc' = [pc EXCEPT ![t] = "idle"] /\ slot' = [slot EXCEPT ![t] = 0]
  BY <1>3 DEF ReleaseSlot
<1>5. Leaves(t, c, "idle")
  BY <1>3, <1>4 DEF Leaves
<1>6. faults' \in Nat /\ faults' >= faults /\ (c.broken => faults' > 0)
  BY <1>2, <1>3, <1>4
<1> QED  BY <1>1, <1>2, <1>3, <1>4, <1>5, <1>6, OwnSlotStep

\* The log grows by one action.
LEMMA LogGrows ==
  ASSUME PoolInv, NEW type \in {"PREPARE", "UNPREPARE"}, NEW b \in Blocks, AppendAction(type, b)
  PROVE  /\ log' \in Seq(Action) /\ Len(log) \in Nat /\ Len(log') = Len(log) + 1
         /\ prepared' = InForceOf(log', Len(log'))
         /\ \A c \in Connection : Good(c) =>
               c.cursor <= Len(log') /\ c.blocks = InForceOf(log', c.cursor)
<1> DEFINE a == [type |-> type, block |-> b]
<1>1. a \in Action /\ a.type = type /\ a.block = b
  BY DEF Action
<1>2. log' = Append(log, a) /\ log \in Seq(Action) /\ Len(log) \in Nat
  BY DEF AppendAction, PoolInv, Types
<1>3. log' \in Seq(Action) /\ Len(log') = Len(log) + 1 /\ log'[Len(log) + 1] = a
  BY <1>1, <1>2
<1>4. \A n \in Nat : n <= Len(log) => InForceOf(log', n) = InForceOf(log, n)
  BY <1>1, <1>2, InForcePrefix
<1>5. InForceOf(log', Len(log) + 1) = IF type = "PREPARE" THEN InForceOf(log', Len(log)) \cup {b}
                                                        ELSE InForceOf(log', Len(log)) \ {b}
  <2>1. PICK l \in Seq(Action) : l = log'
    BY <1>3
  <2>2. Len(log) < Len(l) /\ l[Len(log) + 1].type = type /\ l[Len(log) + 1].block = b
    BY <1>1, <1>2, <1>3, <2>1
  <2>3. InForceOf(l, Len(log) + 1) = IF l[Len(log) + 1].type = "PREPARE"
                                     THEN InForceOf(l, Len(log)) \cup {l[Len(log) + 1].block}
                                     ELSE InForceOf(l, Len(log)) \ {l[Len(log) + 1].block}
    BY <1>2, <2>2, InForceStep
  <2> QED  BY <2>1, <2>2, <2>3
<1>6. prepared' = InForceOf(log', Len(log'))
  <2>1. InForceOf(log', Len(log)) = prepared
    BY <1>2, <1>4 DEF PoolInv
  <2>2. prepared' = IF type = "PREPARE" THEN prepared \cup {b} ELSE prepared \ {b}
    BY DEF AppendAction
  <2> QED  BY <1>3, <1>5, <2>1, <2>2
<1>7. ASSUME NEW c \in Connection, Good(c)
      PROVE  c.cursor <= Len(log') /\ c.blocks = InForceOf(log', c.cursor)
  <2>1. c.cursor \in Nat
    BY DEF Connection
  <2> QED  BY <2>1, <1>2, <1>3, <1>4, <1>7 DEF Good
<1> QED  BY <1>2, <1>3, <1>6, <1>7

LEMMA StatementsKeep ==
  ASSUME PoolInv, NEW type \in {"PREPARE", "UNPREPARE"}, NEW b \in Blocks,
         PoolStatements(type, b) \/ \E t \in Tasks : LeaseStatements(t, type, b)
  PROVE  PoolInv'
<1>1. AppendAction(type, b) /\ UNCHANGED <<slots, fresh, slot, faults>> /\ Types
  BY DEF PoolStatements, LeaseStatements, PoolInv
<1>2. /\ log' \in Seq(Action) /\ Len(log) \in Nat /\ Len(log') = Len(log) + 1
      /\ prepared' = InForceOf(log', Len(log'))
      /\ \A c \in Connection : Good(c) =>
            c.cursor <= Len(log') /\ c.blocks = InForceOf(log', c.cursor)
  BY <1>1, LogGrows
<1>3. SlotsGood(slots)'
  <2> SUFFICES ASSUME NEW i \in DOMAIN slots
               PROVE  /\ slots[i].cursor <= Len(log') /\ slots[i].blocks = InForceOf(log', slots[i].cursor)
                      /\ slots[i].broken => faults > 0
    BY <1>1 DEF SlotsGood, Good
  <2>1. slots[i] \in Connection
    BY <1>1 DEF Types
  <2> QED  BY <2>1, <1>2 DEF PoolInv, View, SlotsGood
<1>4. NoLeak(slots)' /\ Unshared'
  BY <1>1 DEF PoolInv, View, NoLeak, Unshared
<1>5. CASE pc' = pc /\ seen' = seen
  <2>1. Types'
    BY <1>1, <1>2, <1>5 DEF Types
  <2>2. ASSUME NEW u \in Tasks PROVE (Owns(u, slots) /\ Sync(u, slots))'
    <3>1. seen[u] \in Nat /\ Owns(u, slots) /\ Sync(u, slots)
      BY <1>1 DEF PoolInv, View, Types
    <3> QED  BY <3>1, <1>1, <1>2, <1>5 DEF Owns, Sync
  <2>3. ASSUME NEW u \in Tasks PROVE Building(u)'
    <3>1. seen[u] \in Nat /\ fresh[u] \in Connection /\ Building(u)
      BY <1>1 DEF PoolInv, Types
    <3> QED  BY <3>1, <1>1, <1>2, <1>5 DEF Building, Good
  <2> QED  BY <1>1, <1>2, <1>3, <1>4, <2>1, <2>2, <2>3 DEF PoolInv, View, Types
<1>6. ASSUME NEW t \in Tasks, LeaseStatements(t, type, b) PROVE PoolInv'
  <2>1. /\ pc[t] = "leased" /\ pc[t] \in Owning
        /\ seen' = [seen EXCEPT ![t] = Len(log')] /\ pc' = [pc EXCEPT ![t] = "resyncing"]
    BY <1>6 DEF LeaseStatements, Owning
  <2>2. /\ seen' \in [Tasks -> Nat] /\ seen'[t] = Len(log')
        /\ \A u \in Tasks : u # t => seen'[u] = seen[u]
    BY <2>1, <1>1, <1>2 DEF Types
  <2>3. /\ pc' \in [Tasks -> Places] /\ pc'[t] = "resyncing"
        /\ \A u \in Tasks : u # t => pc'[u] = pc[u]
    BY <2>1, <1>1 DEF Types, Places
  <2>4. Types'
    BY <1>1, <1>2, <2>2, <2>3 DEF Types
  <2>5. ASSUME NEW u \in Tasks PROVE (Owns(u, slots) /\ Sync(u, slots))'
    <3>1. seen[u] \in Nat /\ Owns(u, slots) /\ Sync(u, slots)
      BY <1>1 DEF PoolInv, View, Types
    <3>2. CASE u = t
      <4>1. slots[slot[t]].cursor \in Nat /\ slots[slot[t]].cursor <= Len(log)
        BY <2>1, OwnedSlot DEF Good
      <4> QED  BY <3>1, <3>2, <4>1, <1>1, <1>2, <2>1, <2>2, <2>3 DEF Owns, Sync, Owning
    <3>3. CASE u # t
      BY <3>1, <3>3, <1>1, <1>2, <2>2, <2>3 DEF Owns, Sync
    <3> QED  BY <3>2, <3>3
  <2>6. ASSUME NEW u \in Tasks PROVE Building(u)'
    <3>1. seen[u] \in Nat /\ fresh[u] \in Connection /\ Building(u)
      BY <1>1 DEF PoolInv, Types
    <3>2. CASE u = t
      BY <3>2, <2>3 DEF Building
    <3>3. CASE u # t
      BY <3>1, <3>3, <1>1, <1>2, <2>2, <2>3 DEF Building, Good
    <3> QED  BY <3>2, <3>3
  <2> QED  BY <1>1, <1>2, <1>3, <1>4, <2>4, <2>5, <2>6 DEF PoolInv, View, Types
<1> QED  BY <1>5, <1>6 DEF PoolStatements

LEMMA NextKeepsPool == PoolInv /\ [Next]_vars => PoolInv'
<1> SUFFICES ASSUME PoolInv, [Next]_vars PROVE PoolInv'
  OBVIOUS
<1>1. ASSUME NEW t \in Tasks,
             \/ Acquire(t) \/ Connected(t) \/ SyncNewSlot(t) \/ PollSlot(t) \/ SyncSlot(t)
             \/ CreateSlotFails(t) \/ SyncSlotFails(t) \/ QueryFails(t) \/ ReleaseSlot(t)
      PROVE  PoolInv'
  BY <1>1, AcquireKeeps, ConnectedKeeps, SyncNewSlotKeeps, PollSlotKeeps, SyncSlotKeeps,
     CreateSlotFailsKeeps, SyncSlotFailsKeeps, QueryFailsKeeps, ReleaseSlotKeeps
<1>2. ASSUME NEW type \in {"PREPARE", "UNPREPARE"}, NEW b \in Blocks,
             PoolStatements(type, b) \/ \E t \in Tasks : LeaseStatements(t, type, b)
      PROVE  PoolInv'
  BY <1>2, StatementsKeep
<1>3. CASE UNCHANGED vars
  BY <1>3 DEF vars, PoolInv, Types, View, SlotsGood, Good, Owns, Sync, NoLeak, Building, Unshared
<1> QED  BY <1>1, <1>2, <1>3 DEF Next

\* The inductive invariant: every slot has replayed a prefix of the log, a task
\* owns the slot it syncs or uses and shares it with nobody.
THEOREM PoolInvariant == Spec => []PoolInv
  BY InitPool, NextKeepsPool, PTL DEF Spec

\* No two tasks use one connection, a used slot is never seen as idle, and until a
\* command fails no slot is left marked (acquire, ~PooledConnection).
THEOREM LeasesAreExclusive == Spec => []InUseByOneOwner
<1>1. ASSUME PoolInv PROVE InUseByOneOwner
  BY <1>1 DEF PoolInv, View, Owns, Unshared, NoLeak, InUseByOneOwner, Owner
<1> QED  BY <1>1, PoolInvariant, PTL

\* However the log grows during a replay, a connection has exactly the blocks its
\* prefix leaves prepared, and a lease has all that acquire() knew of, unless a
\* command failed on it (syncStatements).
THEOREM LeasesAreSynced == Spec => []LeaseIsSynced
<1>1. \A n : InForce(n) = InForceOf(log, n)
  BY DEF InForce, InForceOf
<1>2. ASSUME PoolInv PROVE LeaseIsSynced
  BY <1>1, <1>2 DEF PoolInv, View, SlotsGood, Good, Sync, LeaseIsSynced
<1> QED  BY <1>2, PoolInvariant, PTL
-----------------------------------------------------------------------------
(* The size of the pool *)

\* The tasks in createSlot(), and how many slots a task with todo n has still to
\* create there.
Creating(places) == {t \in Tasks : places[t] \in {"connecting", "syncing_new"}}
Need(n) == IF n > 1 THEN n ELSE 1

\* One element for each slot that the tasks of C have still to create.
Pending(C, td) == {p \in Tasks \X (1 .. Share) : p[1] \in C /\ p[2] <= Need(td[p[1]])}

Most == PoolMax + (Cardinality(Tasks) - 1) * Share

\* n slots, with the tasks of C creating more. Until the pool is initialised all
\* slots come from initialize(): each task there accounts for PoolMin of them,
\* each failure for at most PoolMin - 1 more. From then on a task starts to create
\* a slot only when it sees fewer than PoolMax.
Sized(C, td, n, done, f) ==
    /\ done \in BOOLEAN
    /\ td \in [Tasks -> 0 .. PoolMin]
    /\ \A t \in Tasks : td[t] # 0 => t \in C
    /\ \A t \in C : ~done => td[t] # 0
    /\ ~done => n + Cardinality(Pending(C, td)) <= Cardinality(C) * Share + f * (Share - 1)
    /\ done => n + Cardinality(Pending(C, td)) <= Most + f * (Share - 1)

SizeInv ==
    /\ Sized(Creating(pc), todo, Len(slots), initialized, faults)
    /\ rounds \in [Tasks -> Nat]

LEMMA Products ==
  ASSUME NEW a \in Int, NEW b \in Int, NEW m \in Nat
  PROVE  /\ a * m \in Int
         /\ (a + 1) * m = a * m + m /\ (a - 1) * m = a * m - m
         /\ a <= b => a * m <= b * m
  OBVIOUS

LEMMA Shares ==
  /\ Share \in Nat /\ Share >= 1 /\ Share - 1 \in Nat /\ Share <= PoolMax /\ PoolMin <= Share
  /\ PoolMin # 0 => Share = PoolMin
  /\ PoolMax \in Nat /\ PoolMin \in Nat
  /\ IsFiniteSet(Tasks) /\ Cardinality(Tasks) \in Nat
<1>1. IsFiniteSet(Tasks) /\ Cardinality(Tasks) \in Nat
  BY PoolAssumption, FS_CardinalityType
<1> QED  BY <1>1, PoolAssumption DEF Share

LEMMA ShareInterval == IsFiniteSet(1 .. Share) /\ Cardinality(1 .. Share) = Share
<1>1. PICK m \in Int : m = Share /\ m >= 1
  BY Shares
<1>2. IsFiniteSet(1 .. m) /\ Cardinality(1 .. m) = IF 1 > m THEN 0 ELSE m - 1 + 1
  BY FS_Interval
<1> QED  BY <1>1, <1>2

LEMMA Finite ==
  ASSUME NEW C \in SUBSET Tasks, NEW td \in [Tasks -> 0 .. PoolMin]
  PROVE  /\ IsFiniteSet(Pending(C, td)) /\ Cardinality(Pending(C, td)) \in Nat
         /\ IsFiniteSet(C) /\ Cardinality(C) \in Nat /\ Cardinality(C) <= Cardinality(Tasks)
<1>1. IsFiniteSet(1 .. Share)
  BY ShareInterval
<1>2. IsFiniteSet(Tasks \X (1 .. Share))
  BY <1>1, Shares, FS_Product
<1>3. Pending(C, td) \in SUBSET (Tasks \X (1 .. Share))
  BY DEF Pending
<1>4. IsFiniteSet(Pending(C, td))
  BY <1>2, <1>3, FS_Subset
<1>5. IsFiniteSet(C) /\ Cardinality(C) <= Cardinality(Tasks)
  BY Shares, FS_Subset
<1> QED  BY <1>4, <1>5, FS_CardinalityType

\* A task joins with its whole share.
LEMMA PendingJoins ==
  ASSUME NEW C \in SUBSET Tasks, NEW td \in [Tasks -> 0 .. PoolMin], NEW t \in Tasks \ C,
         PoolMin # 0
  PROVE  /\ Cardinality(Pending(C \cup {t}, [td EXCEPT ![t] = PoolMin]))
               = Cardinality(Pending(C, td)) + Share
         /\ Cardinality(C \cup {t}) = Cardinality(C) + 1
<1>1. PICK td2 \in [Tasks -> 0 .. PoolMin] : td2 = [td EXCEPT ![t] = PoolMin]
  <2>1. PoolMin \in 0 .. PoolMin
    BY Shares
  <2> QED  BY <2>1
<1>2. td2[t] = PoolMin /\ Need(td2[t]) = Share /\ \A u \in Tasks : u # t => td2[u] = td[u]
  BY <1>1, Shares DEF Need, Share
<1>3. Pending(C \cup {t}, td2) = Pending(C, td) \cup ({t} \X (1 .. Share))
  BY <1>2 DEF Pending
<1>4. Pending(C, td) \cap ({t} \X (1 .. Share)) = {}
  BY DEF Pending
<1>5. IsFiniteSet({t}) /\ Cardinality({t}) = 1
  BY FS_Singleton
<1>6. IsFiniteSet({t} \X (1 .. Share)) /\ Cardinality({t} \X (1 .. Share)) = Share
  <2>1. Cardinality({t} \X (1 .. Share)) = Cardinality({t}) * Cardinality(1 .. Share)
    BY <1>5, ShareInterval, FS_Product
  <2>2. IsFiniteSet({t} \X (1 .. Share))
    BY <1>5, ShareInterval, FS_Product
  <2> QED  BY <1>5, <2>1, <2>2, ShareInterval, Shares
<1>7. /\ IsFiniteSet(Pending(C, td)) /\ Cardinality(Pending(C, td)) \in Nat
      /\ IsFiniteSet(C) /\ Cardinality(C) \in Nat
  BY Finite
<1>8. Cardinality(Pending(C \cup {t}, td2)) = Cardinality(Pending(C, td)) + Share
                                              - Cardinality(Pending(C, td) \cap ({t} \X (1 .. Share)))
  BY <1>3, <1>6, <1>7, FS_Union
<1>9. Cardinality(Pending(C, td) \cap ({t} \X (1 .. Share))) = 0
  BY <1>4, FS_EmptySet
<1>10. Cardinality(C \cup {t}) = Cardinality(C) + 1
  BY <1>7, FS_AddElement
<1> QED  BY <1>1, <1>7, <1>8, <1>9, <1>10, Shares

\* A task has created one of its slots.
LEMMA PendingShrinks ==
  ASSUME NEW C \in SUBSET Tasks, NEW td \in [Tasks -> 0 .. PoolMin], NEW t \in C
  PROVE  /\ td[t] > 1 => Cardinality(Pending(C, [td EXCEPT ![t] = td[t] - 1]))
                            = Cardinality(Pending(C, td)) - 1
         /\ td[t] <= 1 => Cardinality(Pending(C \ {t}, [td EXCEPT ![t] = 0]))
                            = Cardinality(Pending(C, td)) - 1
         /\ Cardinality(Pending(C \ {t}, [td EXCEPT ![t] = 0])) <= Cardinality(Pending(C, td)) - 1
         /\ Cardinality(C \ {t}) = Cardinality(C) - 1
<1> DEFINE last == <<t, Need(td[t])>>
<1>1. IsFiniteSet(Pending(C, td)) /\ Cardinality(Pending(C, td)) \in Nat /\ IsFiniteSet(C)
  BY Finite
<1>2. td[t] \in 0 .. PoolMin /\ Need(td[t]) \in 1 .. Share
  BY Shares DEF Need
<1>3. last \in Pending(C, td)
  BY <1>2, Shares DEF Pending
<1>4. /\ IsFiniteSet(Pending(C, td) \ {last})
      /\ Cardinality(Pending(C, td) \ {last}) = Cardinality(Pending(C, td)) - 1
  BY <1>1, <1>3, FS_RemoveElement
<1>5. ASSUME td[t] > 1
      PROVE  Pending(C, [td EXCEPT ![t] = td[t] - 1]) = Pending(C, td) \ {last}
  <2>1. PICK td2 \in [Tasks -> 0 .. PoolMin] : td2 = [td EXCEPT ![t] = td[t] - 1]
    <3>1. td[t] - 1 \in 0 .. PoolMin
      BY <1>2, <1>5, Shares
    <3> QED  BY <3>1
  <2>2. td2[t] = td[t] - 1 /\ Need(td[t]) = td[t] /\ Need(td2[t]) = td[t] - 1
        /\ \A u \in Tasks : u # t => td2[u] = td[u]
    BY <2>1, <1>2, <1>5 DEF Need
  <2>3. ASSUME NEW p \in Tasks \X (1 .. Share)
        PROVE  p \in Pending(C, td2) <=> p \in Pending(C, td) /\ p # last
    <3>1. p = <<p[1], p[2]>> /\ p[1] \in Tasks /\ p[2] \in 1 .. Share
      OBVIOUS
    <3>2. CASE p[1] = t
      <4>1. p # last <=> p[2] # td[t]
        BY <3>1, <3>2, <2>2
      <4>2. p[2] <= td[t] - 1 <=> p[2] <= td[t] /\ p[2] # td[t]
        BY <3>1, <1>2
      <4> QED  BY <3>2, <4>1, <4>2, <2>2 DEF Pending
    <3>3. CASE p[1] # t
      BY <3>1, <3>3, <2>2 DEF Pending
    <3> QED  BY <3>2, <3>3
  <2>4. Pending(C, td2) \subseteq Tasks \X (1 .. Share) /\ Pending(C, td) \subseteq Tasks \X (1 .. Share)
    BY DEF Pending
  <2> QED  BY <2>1, <2>3, <2>4
<1>6. PICK td2 \in [Tasks -> 0 .. PoolMin] : td2 = [td EXCEPT ![t] = 0]
  <2>1. 0 \in 0 .. PoolMin
    BY Shares
  <2> QED  BY <2>1
<1>7. \A u \in Tasks : u # t => td2[u] = td[u]
  BY <1>6
<1>8. Pending(C \ {t}, td2) \in SUBSET (Pending(C, td) \ {last})
  BY <1>7 DEF Pending
<1>9. Cardinality(Pending(C \ {t}, td2)) <= Cardinality(Pending(C, td)) - 1
  BY <1>4, <1>8, FS_Subset
<1>10. ASSUME td[t] <= 1
       PROVE  Pending(C \ {t}, td2) = Pending(C, td) \ {last}
  <2>1. Need(td[t]) = 1
    BY <1>2, <1>10 DEF Need
  <2>2. ASSUME NEW p \in Tasks \X (1 .. Share)
        PROVE  p \in Pending(C \ {t}, td2) <=> p \in Pending(C, td) /\ p # last
    <3>1. p = <<p[1], p[2]>> /\ p[1] \in Tasks /\ p[2] \in 1 .. Share
      OBVIOUS
    <3>2. CASE p[1] = t
      <4>1. p[2] <= 1 <=> p[2] = 1
        BY <3>1, Shares
      <4>2. p = last <=> p[2] = 1
        BY <3>1, <3>2, <2>1
      <4> QED  BY <3>2, <4>1, <4>2, <2>1 DEF Pending
    <3>3. CASE p[1] # t
      BY <3>1, <3>3, <1>7 DEF Pending
    <3> QED  BY <3>2, <3>3
  <2>3. /\ Pending(C \ {t}, td2) \subseteq Tasks \X (1 .. Share)
        /\ Pending(C, td) \subseteq Tasks \X (1 .. Share)
    BY DEF Pending
  <2> QED  BY <2>2, <2>3
<1>11. Cardinality(C \ {t}) = Cardinality(C) - 1
  BY <1>1, FS_RemoveElement
<1> QED  BY <1>4, <1>5, <1>6, <1>9, <1>10, <1>11

\* However many slots the others have still to create: a task that creates one
\* more slot adds one.
LEMMA PendingOfOthers ==
  ASSUME NEW C \in SUBSET Tasks, NEW td \in [Tasks -> 0 .. PoolMin], NEW t \in Tasks, td[t] <= 1
  PROVE  Cardinality(Pending(C, td)) <= (Cardinality(Tasks) - 1) * Share + 1
<1> DEFINE Rest == (Tasks \ {t}) \X (1 .. Share)
<1>1. IsFiniteSet(Tasks \ {t}) /\ Cardinality(Tasks \ {t}) = Cardinality(Tasks) - 1
  BY Shares, FS_RemoveElement
<1>2. IsFiniteSet(1 .. Share) /\ Cardinality(1 .. Share) = Share
  BY ShareInterval
<1>3. IsFiniteSet(Rest) /\ Cardinality(Rest) = (Cardinality(Tasks) - 1) * Share
  <2>1. IsFiniteSet(Rest)
    BY <1>1, <1>2, FS_Product
  <2>2. Cardinality(Rest) = Cardinality(Tasks \ {t}) * Cardinality(1 .. Share)
    BY <1>1, <1>2, FS_Product
  <2> QED  BY <1>1, <1>2, <2>1, <2>2
<1>4. /\ IsFiniteSet(Rest \cup {<<t, 1>>})
      /\ Cardinality(Rest \cup {<<t, 1>>}) = Cardinality(Rest) + 1
  BY <1>3, FS_AddElement
<1>5. Pending(C, td) \in SUBSET (Rest \cup {<<t, 1>>})
  <2>1. td[t] \in 0 .. PoolMin /\ Need(td[t]) = 1
    BY DEF Need
  <2> SUFFICES ASSUME NEW p \in Pending(C, td) PROVE p \in Rest \cup {<<t, 1>>}
    OBVIOUS
  <2>2. p = <<p[1], p[2]>> /\ p[1] \in Tasks /\ p[2] \in 1 .. Share
    BY DEF Pending
  <2>3. CASE p[1] = t
    <3>1. p[2] <= 1
      BY <2>1, <2>3 DEF Pending
    <3>2. p[2] = 1
      BY <3>1, <2>2, Shares
    <3> QED  BY <2>2, <2>3, <3>2
  <2>4. CASE p[1] # t
    BY <2>2, <2>4
  <2> QED  BY <2>3, <2>4
<1> QED  BY <1>3, <1>4, <1>5, FS_Subset

\* Whether initialised or not: what is there and what will be created.
LEMMA WithinMost ==
  ASSUME NEW C \in SUBSET Tasks, NEW td, NEW n \in Nat, NEW done, NEW f \in Nat,
         Sized(C, td, n, done, f)
  PROVE  n + Cardinality(Pending(C, td)) <= Most + f * (Share - 1)
<1>1. CASE done
  BY <1>1 DEF Sized
<1>2. CASE ~done
  <2>1. td \in [Tasks -> 0 .. PoolMin]
    BY DEF Sized
  <2>2. PICK k \in Nat : k = Cardinality(C) /\ k <= Cardinality(Tasks)
    BY <2>1, Finite
  <2>3. PICK c \in Nat : c = Cardinality(Tasks)
    BY Shares
  <2>4. k * Share <= c * Share /\ (c - 1) * Share = c * Share - Share
    BY <2>2, <2>3, Shares, Products
  <2>5. k * Share \in Int /\ c * Share \in Int /\ (c - 1) * Share \in Int /\ f * (Share - 1) \in Int
    BY <2>2, <2>3, Shares, Products
  <2>6. k * Share <= Most /\ Most \in Int
    BY <2>3, <2>4, <2>5, Shares DEF Most
  <2>7. PICK x \in Int : x = n + Cardinality(Pending(C, td))
    BY <2>1, Finite
  <2>8. x <= k * Share + f * (Share - 1)
    BY <1>2, <2>2, <2>7 DEF Sized
  <2> QED  BY <2>5, <2>6, <2>7, <2>8
<1> QED  BY <1>1, <1>2 DEF Sized

\* A task begins initialize().
LEMMA InitializeSized ==
  ASSUME NEW C \in SUBSET Tasks, NEW td, NEW n \in Nat, NEW f \in Nat, Sized(C, td, n, FALSE, f),
         NEW t \in Tasks \ C, PoolMin # 0
  PROVE  Sized(C \cup {t}, [td EXCEPT ![t] = PoolMin], n, FALSE, f)
<1>1. td \in [Tasks -> 0 .. PoolMin]
  BY DEF Sized
<1>2. PICK td2 : td2 = [td EXCEPT ![t] = PoolMin]
  OBVIOUS
<1>3. /\ td2 \in [Tasks -> 0 .. PoolMin] /\ td2[t] = PoolMin
      /\ \A u \in Tasks : u # t => td2[u] = td[u]
  <2>1. PoolMin \in 0 .. PoolMin
    BY Shares
  <2> QED  BY <1>1, <1>2, <2>1
<1>4. PICK k \in Nat : k = Cardinality(C)
  BY <1>1, Finite
<1>5. PICK p \in Nat : p = Cardinality(Pending(C, td))
  BY <1>1, Finite
<1>6. n + p <= k * Share + f * (Share - 1)
  BY <1>4, <1>5 DEF Sized
<1>7. (k + 1) * Share = k * Share + Share /\ k * Share \in Int /\ f * (Share - 1) \in Int
  BY Shares, Products
<1>8. Cardinality(Pending(C \cup {t}, td2)) = p + Share /\ Cardinality(C \cup {t}) = k + 1
  BY <1>1, <1>2, <1>4, <1>5, PendingJoins
<1>9. n + (p + Share) <= (k + 1) * Share + f * (Share - 1)
  BY <1>6, <1>7, Shares
<1>10. Sized(C \cup {t}, td2, n, FALSE, f)
  BY <1>3, <1>8, <1>9 DEF Sized
<1> QED  BY <1>2, <1>10

\* A task that has seen fewer than PoolMax slots sets out to create one.
LEMMA CreateSized ==
  ASSUME NEW C \in SUBSET Tasks, NEW td, NEW n, NEW done, NEW f \in Nat, Sized(C, td, n, done, f),
         NEW t \in Tasks, NEW m \in Nat, m < PoolMax
  PROVE  Sized(C \cup {t}, [td EXCEPT ![t] = 0], m, TRUE, f)
<1>1. td \in [Tasks -> 0 .. PoolMin]
  BY DEF Sized
<1>2. PICK td2 : td2 = [td EXCEPT ![t] = 0]
  OBVIOUS
<1>3. /\ td2 \in [Tasks -> 0 .. PoolMin] /\ td2[t] = 0
      /\ \A u \in Tasks : u # t => td2[u] = td[u]
  <2>1. 0 \in 0 .. PoolMin
    BY Shares
  <2> QED  BY <1>1, <1>2, <2>1
<1>4. PICK c \in Nat : c = Cardinality(Tasks)
  BY Shares
<1>5. PICK p \in Nat : p = Cardinality(Pending(C \cup {t}, td2))
  BY <1>3, Finite
<1>6. p <= (c - 1) * Share + 1
  BY <1>3, <1>4, <1>5, PendingOfOthers
<1>7. (c - 1) * Share \in Int /\ f * (Share - 1) \in Int /\ 0 * (Share - 1) <= f * (Share - 1)
  BY Shares, Products
<1>8. 0 * (Share - 1) = 0
  BY Shares
<1>9. m + p <= PoolMax + (c - 1) * Share + f * (Share - 1)
  BY <1>6, <1>7, <1>8, Shares
<1>10. m + Cardinality(Pending(C \cup {t}, td2)) <= Most + f * (Share - 1)
  BY <1>4, <1>5, <1>9 DEF Most
<1>11. Sized(C \cup {t}, td2, m, TRUE, f)
  BY <1>3, <1>10 DEF Sized
<1> QED  BY <1>2, <1>11

\* A task has created a slot: one of several, or its last.
LEMMA CreatedSized ==
  ASSUME NEW C \in SUBSET Tasks, NEW td, NEW n \in Nat, NEW done, NEW f \in Nat,
         Sized(C, td, n, done, f), NEW t \in C
  PROVE  /\ td[t] > 1 => Sized(C, [td EXCEPT ![t] = td[t] - 1], n + 1, done, f)
         /\ td[t] <= 1 => Sized(C \ {t}, [td EXCEPT ![t] = 0], n + 1, TRUE, f)
<1>1. td \in [Tasks -> 0 .. PoolMin] /\ td[t] \in 0 .. PoolMin
  BY DEF Sized
<1>2. PICK p \in Nat : p = Cardinality(Pending(C, td))
  BY <1>1, Finite
<1>3. ASSUME td[t] > 1 PROVE Sized(C, [td EXCEPT ![t] = td[t] - 1], n + 1, done, f)
  <2>1. PICK td2 : td2 = [td EXCEPT ![t] = td[t] - 1]
    OBVIOUS
  <2>2. td[t] - 1 \in 0 .. PoolMin /\ td[t] - 1 # 0
    BY <1>1, <1>3, Shares
  <2>3. /\ td2 \in [Tasks -> 0 .. PoolMin] /\ td2[t] # 0
        /\ \A u \in Tasks : u # t => td2[u] = td[u]
    BY <1>1, <2>1, <2>2
  <2>4. Cardinality(Pending(C, td2)) = p - 1
    BY <1>1, <1>2, <1>3, <2>1, PendingShrinks
  <2>5. (n + 1) + (p - 1) = n + p
    OBVIOUS
  <2>6. Sized(C, td2, n + 1, done, f)
    BY <1>2, <2>3, <2>4, <2>5 DEF Sized
  <2> QED  BY <2>1, <2>6
<1>4. ASSUME td[t] <= 1 PROVE Sized(C \ {t}, [td EXCEPT ![t] = 0], n + 1, TRUE, f)
  <2>1. PICK td2 : td2 = [td EXCEPT ![t] = 0]
    OBVIOUS
  <2>2. 0 \in 0 .. PoolMin
    BY Shares
  <2>3. /\ td2 \in [Tasks -> 0 .. PoolMin] /\ td2[t] = 0
        /\ \A u \in Tasks : u # t => td2[u] = td[u]
    BY <1>1, <2>1, <2>2
  <2>4. Cardinality(Pending(C \ {t}, td2)) = p - 1
    BY <1>1, <1>2, <1>4, <2>1, PendingShrinks
  <2>5. n + p <= Most + f * (Share - 1)
    BY <1>2, WithinMost
  <2>6. (n + 1) + (p - 1) = n + p
    OBVIOUS
  <2>7. Sized(C \ {t}, td2, n + 1, TRUE, f)
    BY <2>3, <2>4, <2>5, <2>6 DEF Sized
  <2> QED  BY <2>1, <2>7
<1> QED  BY <1>3, <1>4

\* createSlot() throws: what its task had still to create is never created.
LEMMA FailedSized ==
  ASSUME NEW C \in SUBSET Tasks, NEW td, NEW n \in Nat, NEW done, NEW f \in Nat,
         Sized(C, td, n, done, f), NEW t \in C
  PROVE  Sized(C \ {t}, [td EXCEPT ![t] = 0], n, done, f + 1)
<1>1. td \in [Tasks -> 0 .. PoolMin] /\ done \in BOOLEAN
  BY DEF Sized
<1>2. PICK p \in Nat : p = Cardinality(Pending(C, td))
  BY <1>1, Finite
<1>3. PICK k \in Nat : k = Cardinality(C)
  BY <1>1, Finite
<1>4. PICK td2 : td2 = [td EXCEPT ![t] = 0]
  OBVIOUS
<1>5. 0 \in 0 .. PoolMin
  BY Shares
<1>6. /\ td2 \in [Tasks -> 0 .. PoolMin] /\ td2[t] = 0
      /\ \A u \in Tasks : u # t => td2[u] = td[u]
  BY <1>1, <1>4, <1>5
<1>7. PICK q \in Nat : q = Cardinality(Pending(C \ {t}, td2))
  BY <1>6, Finite
<1>8. q <= p - 1 /\ Cardinality(C \ {t}) = k - 1
  BY <1>1, <1>2, <1>3, <1>4, <1>7, PendingShrinks
<1>9. /\ (k - 1) * Share = k * Share - Share /\ k * Share \in Int
      /\ (f + 1) * (Share - 1) = f * (Share - 1) + (Share - 1) /\ f * (Share - 1) \in Int
  BY Shares, Products
<1>10. ~done => n + q <= (k - 1) * Share + (f + 1) * (Share - 1)
  <2>1. ~done => n + p <= k * Share + f * (Share - 1)
    BY <1>2, <1>3 DEF Sized
  <2> QED  BY <2>1, <1>8, <1>9, Shares
<1>11. done => n + q <= Most + (f + 1) * (Share - 1)
  <2>1. done => n + p <= Most + f * (Share - 1)
    BY <1>2 DEF Sized
  <2>2. Most \in Int
    BY Shares, Products DEF Most
  <2> QED  BY <2>1, <2>2, <1>8, <1>9, Shares
<1>12. Sized(C \ {t}, td2, n, done, f + 1)
  BY <1>1, <1>6, <1>7, <1>8, <1>10, <1>11 DEF Sized
<1> QED  BY <1>4, <1>12

\* Nobody begins or ends creating; a pool with pool_min = 0 counts as initialised
\* on the first acquire().
LEMMA QuietSized ==
  ASSUME NEW C \in SUBSET Tasks, NEW td, NEW n \in Nat, NEW done, NEW f \in Nat,
         Sized(C, td, n, done, f), NEW g \in Nat, g >= f
  PROVE  Sized(C, td, n, done, g) /\ Sized(C, td, n, TRUE, g)
<1>1. td \in [Tasks -> 0 .. PoolMin]
  BY DEF Sized
<1>2. PICK p \in Nat : p = Cardinality(Pending(C, td))
  BY <1>1, Finite
<1>3. PICK k \in Nat : k = Cardinality(C)
  BY <1>1, Finite
<1>4. /\ f * (Share - 1) <= g * (Share - 1) /\ k * Share \in Int
      /\ f * (Share - 1) \in Int /\ g * (Share - 1) \in Int
  BY Shares, Products
<1>5. Most \in Int
  BY Shares, Products DEF Most
<1>6. n + p <= Most + f * (Share - 1)
  BY <1>2, WithinMost
<1>7. n + p <= Most + g * (Share - 1)
  BY <1>4, <1>5, <1>6
<1>8. ~done => n + p <= k * Share + g * (Share - 1)
  <2>1. ~done => n + p <= k * Share + f * (Share - 1)
    BY <1>2, <1>3 DEF Sized
  <2> QED  BY <2>1, <1>4
<1> QED  BY <1>2, <1>3, <1>7, <1>8 DEF Sized

\* SizeInv in the next state.
LEMMA SizeNext ==
  ASSUME Sized(Creating(pc'), todo', Len(slots'), initialized', faults'),
         rounds' \in [Tasks -> Nat]
  PROVE  SizeInv'
  BY DEF SizeInv, Sized, Creating, Pending, Most, Need

LEMMA Sizes ==
  ASSUME PoolInv, SizeInv
  PROVE  /\ Creating(pc) \in SUBSET Tasks /\ Len(slots) \in Nat /\ faults \in Nat
         /\ Sized(Creating(pc), todo, Len(slots), initialized, faults)
         /\ rounds \in [Tasks -> Nat] /\ todo \in [Tasks -> 0 .. PoolMin] /\ initialized \in BOOLEAN
         /\ pc \in [Tasks -> Places] /\ slots \in Seq(Connection)
  BY DEF PoolInv, Types, SizeInv, Sized, Creating

\* A task enters or leaves createSlot().
LEMMA CreatingMoves ==
  ASSUME NEW places \in [Tasks -> Places], NEW t \in Tasks, NEW w \in Places
  PROVE  Creating([places EXCEPT ![t] = w]) = IF w \in {"connecting", "syncing_new"}
                                              THEN Creating(places) \cup {t}
                                              ELSE Creating(places) \ {t}
<1>1. PICK after \in [Tasks -> Places] : after = [places EXCEPT ![t] = w]
  OBVIOUS
<1>2. after[t] = w /\ \A u \in Tasks : u # t => after[u] = places[u]
  BY <1>1
<1>3. Creating(after) = IF w \in {"connecting", "syncing_new"} THEN Creating(places) \cup {t}
                                                               ELSE Creating(places) \ {t}
  BY <1>2 DEF Creating
<1> QED  BY <1>1, <1>3

\* Taking a slot adds none and leaves the task outside createSlot().
LEMMA TakeSize ==
  ASSUME PoolInv, NEW t \in Tasks, NEW ss \in Seq(Connection), NEW i \in DOMAIN ss,
         TakeSlot(t, i, ss)
  PROVE  Len(slots') = Len(ss) /\ Creating(pc') = Creating(pc) \ {t}
<1>1. ss[i] \in Connection /\ pc \in [Tasks -> Places]
  BY DEF PoolInv, Types
<1>2. PICK c \in Connection : c = [ss[i] EXCEPT !.in_use = TRUE]
  BY <1>1, SetField
<1>3. slots' = [ss EXCEPT ![i] = c]
  BY <1>2 DEF TakeSlot
<1>4. Len(slots') = Len(ss)
  BY <1>3
<1>5. PICK w \in {"syncing", "leased"} : pc' = [pc EXCEPT ![t] = w]
  BY DEF TakeSlot
<1>6. w \in Places /\ w \notin {"connecting", "syncing_new"}
  BY <1>5 DEF Places
<1> QED  BY <1>1, <1>4, <1>5, <1>6, CreatingMoves

\* acquire() under pool_mutex_, with ss the slots it sees: without t creating
\* anything the sizes are right, so they are whatever it chooses.
LEMMA ChooseSized ==
  ASSUME PoolInv, NEW t \in Tasks, NEW ss \in Seq(Connection), NEW td, faults \in Nat,
         Sized(Creating(pc) \ {t}, td, Len(ss), TRUE, faults),
         ChooseSlot(t, ss), todo' = td, initialized' = TRUE, faults' = faults
  PROVE  Sized(Creating(pc'), todo', Len(slots'), initialized', faults')
<1>1. pc \in [Tasks -> Places] /\ Len(ss) \in Nat /\ Creating(pc) \in SUBSET Tasks
  BY DEF PoolInv, Types, Creating
<1>2. ASSUME NEW i \in DOMAIN ss, TakeSlot(t, i, ss)
      PROVE  Sized(Creating(pc'), todo', Len(slots'), initialized', faults')
  BY <1>2, TakeSize
<1>3. CASE Len(ss) < PoolMax /\ SuspendAt(t, "connecting", ss)
  <2>1. pc' = [pc EXCEPT ![t] = "connecting"] /\ slots' = ss /\ "connecting" \in Places
    BY <1>3 DEF SuspendAt, Places
  <2>2. Creating(pc') = (Creating(pc) \ {t}) \cup {t}
    BY <1>1, <2>1, CreatingMoves
  <2>3. td \in [Tasks -> 0 .. PoolMin] /\ td[t] = 0
    BY DEF Sized
  <2>4. [td EXCEPT ![t] = 0] = td
    BY <2>3
  <2>5. Sized((Creating(pc) \ {t}) \cup {t}, [td EXCEPT ![t] = 0], Len(ss), TRUE, faults)
    BY <1>1, <1>3, CreateSized
  <2> QED  BY <2>1, <2>2, <2>4, <2>5
<1>4. CASE SuspendAt(t, "waiting", ss)
  <2>1. pc' = [pc EXCEPT ![t] = "waiting"] /\ slots' = ss /\ "waiting" \in Places
        /\ "waiting" \notin {"connecting", "syncing_new"}
    BY <1>4 DEF SuspendAt, Places
  <2>2. Creating(pc') = Creating(pc) \ {t}
    BY <1>1, <2>1, CreatingMoves
  <2> QED  BY <2>1, <2>2
<1> QED  BY <1>2, <1>3, <1>4 DEF ChooseSlot

LEMMA AcquireSize ==
  ASSUME PoolInv, SizeInv, NEW t \in Tasks, Acquire(t)
  PROVE  SizeInv'
<1>1. Sized(Creating(pc), todo, Len(slots), initialized, faults)
  BY Sizes
<1>2. /\ Creating(pc) \in SUBSET Tasks /\ t \in Tasks \ Creating(pc)
      /\ Creating(pc) \ {t} = Creating(pc)
  BY DEF Acquire, Creating
<1>3. /\ rounds' = [rounds EXCEPT ![t] = rounds[t] + 1] /\ faults' = faults
  BY DEF Acquire
<1>4. rounds' \in [Tasks -> Nat]
  <2>1. rounds \in [Tasks -> Nat] /\ rounds[t] + 1 \in Nat
    BY Sizes
  <2> QED  BY <1>3, <2>1
<1>5. CASE initialized' = TRUE /\ ChooseSlot(t, slots) /\ todo' = todo
  <2>1. Sized(Creating(pc) \ {t}, todo, Len(slots), TRUE, faults)
    <3>1. faults \in Nat /\ faults >= faults /\ Len(slots) \in Nat
      BY Sizes
    <3>2. Sized(Creating(pc), todo, Len(slots), TRUE, faults)
      BY <1>1, <1>2, <3>1, QuietSized
    <3> QED  BY <1>2, <3>2
  <2> QED  BY <1>3, <1>4, <1>5, <2>1, Sizes, ChooseSized, SizeNext
<1>6. CASE /\ ~initialized /\ PoolMin > 0
           /\ todo' = [todo EXCEPT ![t] = PoolMin]
           /\ SuspendAt(t, "connecting", slots)
           /\ initialized' = initialized
  <2>1. initialized = FALSE /\ PoolMin # 0
    BY <1>6, Sizes, PoolAssumption
  <2>2. pc' = [pc EXCEPT ![t] = "connecting"] /\ slots' = slots /\ "connecting" \in Places
    BY <1>6 DEF SuspendAt, Places
  <2>3. Creating(pc') = Creating(pc) \cup {t}
    BY <2>2, Sizes, CreatingMoves
  <2>4. Sized(Creating(pc) \cup {t}, [todo EXCEPT ![t] = PoolMin], Len(slots), FALSE, faults)
    BY <1>1, <1>2, <2>1, Sizes, InitializeSized
  <2> QED  BY <1>3, <1>4, <1>6, <2>1, <2>2, <2>3, <2>4, SizeNext
<1> QED  BY <1>5, <1>6 DEF Acquire

LEMMA SlotCreatedSize ==
  ASSUME PoolInv, SizeInv, NEW t \in Creating(pc), NEW c \in Connection, SlotCreated(t, c),
         UNCHANGED <<rounds, faults>>
  PROVE  SizeInv'
<1> DEFINE ss == Append(slots, c)
<1>1. Sized(Creating(pc), todo, Len(slots), initialized, faults) /\ t \in Tasks
  BY Sizes DEF Creating
<1>2. ss \in Seq(Connection) /\ Len(ss) = Len(slots) + 1 /\ Len(ss) \in DOMAIN ss
  BY Sizes
<1>3. rounds' \in [Tasks -> Nat] /\ faults' = faults
  BY Sizes
<1>4. todo \in [Tasks -> 0 .. PoolMin] /\ todo[t] \in 0 .. PoolMin
  BY <1>1, Sizes
<1>5. /\ todo[t] > 1 =>
            Sized(Creating(pc), [todo EXCEPT ![t] = todo[t] - 1], Len(ss), initialized, faults)
      /\ todo[t] <= 1 => Sized(Creating(pc) \ {t}, [todo EXCEPT ![t] = 0], Len(ss), TRUE, faults)
  <2>1. Creating(pc) \in SUBSET Tasks /\ Len(slots) \in Nat /\ faults \in Nat
    BY Sizes
  <2>2. /\ todo[t] > 1 => Sized(Creating(pc), [todo EXCEPT ![t] = todo[t] - 1], Len(slots) + 1,
                               initialized, faults)
        /\ todo[t] <= 1 => Sized(Creating(pc) \ {t}, [todo EXCEPT ![t] = 0], Len(slots) + 1,
                                TRUE, faults)
    BY <1>1, <2>1, CreatedSized
  <2> QED  BY <1>2, <2>2
<1>6. CASE /\ todo[t] > 1
           /\ todo' = [todo EXCEPT ![t] = todo[t] - 1]
           /\ SuspendAt(t, "connecting", ss)
           /\ initialized' = initialized
  <2>1. pc' = [pc EXCEPT ![t] = "connecting"] /\ slots' = ss /\ "connecting" \in Places
    BY <1>6 DEF SuspendAt, Places
  <2>2. Creating(pc') = Creating(pc) \cup {t}
    BY <1>1, <2>1, Sizes, CreatingMoves
  <2>3. Creating(pc') = Creating(pc)
    BY <2>2
  <2> QED  BY <1>3, <1>5, <1>6, <2>1, <2>3, SizeNext
<1>7. CASE /\ todo[t] = 1
           /\ todo' = [todo EXCEPT ![t] = 0]
           /\ initialized' = TRUE
           /\ ChooseSlot(t, ss)
  <2>1. Sized(Creating(pc) \ {t}, todo', Len(ss), TRUE, faults)
    <3>1. todo[t] <= 1
      BY <1>7
    <3> QED  BY <1>5, <1>7, <3>1
  <2>2. Sized(Creating(pc'), todo', Len(slots'), initialized', faults')
    BY <1>1, <1>2, <1>3, <1>7, <2>1, Sizes, ChooseSized
  <2> QED  BY <1>3, <2>2, SizeNext
<1>8. CASE /\ todo[t] = 0
           /\ TakeSlot(t, Len(ss), ss)
           /\ UNCHANGED <<todo, initialized>>
  <2>1. initialized = TRUE
    BY <1>1, <1>8 DEF Sized
  <2>2. [todo EXCEPT ![t] = 0] = todo
    BY <1>4, <1>8
  <2>3. Sized(Creating(pc) \ {t}, todo, Len(ss), TRUE, faults)
    <3>1. todo[t] <= 1
      BY <1>8
    <3> QED  BY <1>5, <2>2, <3>1
  <2>4. Len(slots') = Len(ss) /\ Creating(pc') = Creating(pc) \ {t}
    BY <1>1, <1>2, <1>8, TakeSize
  <2> QED  BY <1>3, <1>8, <2>1, <2>3, <2>4, SizeNext
<1> QED  BY <1>6, <1>7, <1>8 DEF SlotCreated

LEMMA ConnectedSize ==
  ASSUME PoolInv, SizeInv, NEW t \in Tasks, Connected(t)
  PROVE  SizeInv'
<1>1. pc[t] = "connecting" /\ t \in Creating(pc) /\ UNCHANGED <<rounds, faults>>
  BY DEF Connected, Creating
<1>2. CASE SlotCreated(t, NewConnection)
  BY <1>1, <1>2, NewConnectionGood, SlotCreatedSize
<1>3. CASE pc' = [pc EXCEPT ![t] = "syncing_new"] /\ UNCHANGED <<slots, todo, initialized>>
  <2>1. "syncing_new" \in Places
    BY DEF Places
  <2>2. Creating(pc') = Creating(pc) \cup {t}
    BY <1>3, <2>1, Sizes, CreatingMoves
  <2>3. Creating(pc') = Creating(pc)
    BY <1>1, <2>2
  <2> QED  BY <1>1, <1>3, <2>3, Sizes, SizeNext
<1> QED  BY <1>2, <1>3 DEF Connected

LEMMA SyncNewSlotSize ==
  ASSUME PoolInv, SizeInv, NEW t \in Tasks, SyncNewSlot(t)
  PROVE  SizeInv'
<1>1. pc[t] = "syncing_new" /\ t \in Creating(pc) /\ UNCHANGED <<rounds, faults>>
  BY DEF SyncNewSlot, Creating
<1>2. CASE SlotCreated(t, Replay(fresh[t]))
  <2>1. Types /\ fresh[t] \in Connection /\ Good(fresh[t]) /\ fresh[t].cursor < seen[t]
        /\ seen[t] <= Len(log)
    BY <1>1 DEF PoolInv, Types, Building
  <2>2. fresh[t].cursor \in Nat /\ seen[t] \in Nat /\ Len(log) \in Nat
    BY <2>1 DEF Types, Connection
  <2>3. Replay(fresh[t]) \in Connection
    BY <2>1, <2>2, ReplayGood
  <2> QED  BY <1>1, <1>2, <2>3, SlotCreatedSize
<1>3. CASE UNCHANGED <<slots, todo, initialized, pc>>
  BY <1>1, <1>3, Sizes, SizeNext
<1> QED  BY <1>2, <1>3 DEF SyncNewSlot

LEMMA CreateSlotFailsSize ==
  ASSUME PoolInv, SizeInv, NEW t \in Tasks, CreateSlotFails(t)
  PROVE  SizeInv'
<1>1. /\ t \in Creating(pc) /\ pc' = [pc EXCEPT ![t] = "idle"] /\ todo' = [todo EXCEPT ![t] = 0]
      /\ faults' = faults + 1 /\ UNCHANGED <<initialized, slots, rounds>>
  BY DEF CreateSlotFails, Fault, Creating
<1>2. "idle" \in Places /\ "idle" \notin {"connecting", "syncing_new"}
  BY DEF Places
<1>3. Creating(pc') = Creating(pc) \ {t}
  BY <1>1, <1>2, Sizes, CreatingMoves
<1>4. Sized(Creating(pc) \ {t}, [todo EXCEPT ![t] = 0], Len(slots), initialized, faults + 1)
  BY <1>1, Sizes, FailedSized
<1> QED  BY <1>1, <1>3, <1>4, Sizes, SizeNext

\* A step outside createSlot() that keeps the number of slots.
LEMMA ElsewhereSize ==
  ASSUME PoolInv, SizeInv, Creating(pc') = Creating(pc), Len(slots') = Len(slots),
         faults' \in Nat, faults' >= faults, UNCHANGED <<initialized, todo, rounds>>
  PROVE  SizeInv'
<1>1. Sized(Creating(pc), todo, Len(slots), initialized, faults')
  BY Sizes, QuietSized
<1> QED  BY <1>1, Sizes, SizeNext

LEMMA PollSlotSize ==
  ASSUME PoolInv, SizeInv, NEW t \in Tasks, PollSlot(t)
  PROVE  SizeInv'
<1>1. /\ pc[t] = "waiting" /\ Creating(pc) \ {t} = Creating(pc)
      /\ UNCHANGED <<initialized, todo, rounds, faults>>
  BY DEF PollSlot, Creating
<1>2. PICK i \in DOMAIN slots : TakeSlot(t, i, slots)
  BY DEF PollSlot
<1>3. Len(slots') = Len(slots) /\ Creating(pc') = Creating(pc)
  BY <1>1, <1>2, Sizes, TakeSize
<1>4. faults' \in Nat /\ faults' >= faults
  BY <1>1, Sizes
<1> QED  BY <1>1, <1>3, <1>4, ElsewhereSize

\* A step of the owner of a slot.
LEMMA OwnerSize ==
  ASSUME PoolInv, SizeInv, NEW t \in Tasks,
         SyncSlot(t) \/ SyncSlotFails(t) \/ QueryFails(t) \/ ReleaseSlot(t)
  PROVE  SizeInv'
<1>1. pc[t] \in Owning /\ t \notin Creating(pc) /\ UNCHANGED <<initialized, todo, rounds>>
  BY DEF SyncSlot, SyncSlotFails, QueryFails, ReleaseSlot, Owning, Creating
<1>2. PICK w \in {"idle", "syncing", "resyncing", "leased"} : pc' = [pc EXCEPT ![t] = w]
  <2>1. pc \in [Tasks -> Places] /\ pc = [pc EXCEPT ![t] = pc[t]]
    BY Sizes
  <2>2. CASE SyncSlot(t)
    BY <2>2 DEF SyncSlot
  <2>3. CASE SyncSlotFails(t)
    BY <2>3 DEF SyncSlotFails
  <2>4. CASE QueryFails(t)
    BY <2>1, <2>4 DEF QueryFails
  <2>5. CASE ReleaseSlot(t)
    BY <2>5 DEF ReleaseSlot
  <2> QED  BY <2>2, <2>3, <2>4, <2>5
<1>3. Creating(pc') = Creating(pc)
  <2>1. w \in Places /\ w \notin {"connecting", "syncing_new"}
    BY <1>2 DEF Places
  <2>2. Creating(pc') = Creating(pc) \ {t}
    BY <1>2, <2>1, Sizes, CreatingMoves
  <2> QED  BY <1>1, <2>2
<1>4. Len(slots') = Len(slots)
  <2>1. \E c : slots' = [slots EXCEPT ![slot[t]] = c]
    BY DEF SyncSlot, SyncSlotFails, QueryFails, ReleaseSlot
  <2> QED  BY <2>1, Sizes
<1>5. faults' \in Nat /\ faults' >= faults
  <2>1. faults' = faults \/ faults' = faults + 1
    BY DEF SyncSlot, SyncSlotFails, QueryFails, ReleaseSlot, Fault
  <2> QED  BY <2>1, Sizes
<1> QED  BY <1>1, <1>3, <1>4, <1>5, ElsewhereSize

LEMMA StatementsSize ==
  ASSUME PoolInv, SizeInv, NEW type \in {"PREPARE", "UNPREPARE"}, NEW b \in Blocks,
         PoolStatements(type, b) \/ \E t \in Tasks : LeaseStatements(t, type, b)
  PROVE  SizeInv'
<1>1. UNCHANGED <<initialized, slots, todo, rounds, faults>>
  BY DEF PoolStatements, LeaseStatements
<1>2. Creating(pc') = Creating(pc)
  <2>1. CASE pc' = pc
    BY <2>1
  <2>2. ASSUME NEW t \in Tasks, LeaseStatements(t, type, b) PROVE Creating(pc') = Creating(pc)
    <3>1. /\ t \notin Creating(pc) /\ pc' = [pc EXCEPT ![t] = "resyncing"]
          /\ "resyncing" \in Places /\ "resyncing" \notin {"connecting", "syncing_new"}
      BY <2>2 DEF LeaseStatements, Creating, Places
    <3>2. Creating(pc') = Creating(pc) \ {t}
      BY <3>1, Sizes, CreatingMoves
    <3> QED  BY <3>1, <3>2
  <2> QED  BY <2>1, <2>2 DEF PoolStatements
<1>3. faults' \in Nat /\ faults' >= faults
  BY <1>1, Sizes
<1> QED  BY <1>1, <1>2, <1>3, ElsewhereSize

LEMMA InitSize == Init => SizeInv
<1> SUFFICES ASSUME Init PROVE SizeInv
  OBVIOUS
<1>1. rounds \in [Tasks -> Nat] /\ Creating(pc) = {} /\ Len(slots) = 0 /\ faults = 0
      /\ initialized = FALSE
  BY DEF Init, Creating
<1>2. todo \in [Tasks -> 0 .. PoolMin] /\ \A t \in Tasks : todo[t] = 0
  <2>1. 0 \in 0 .. PoolMin
    BY Shares
  <2> QED  BY <2>1 DEF Init
<1>3. Pending({}, todo) = {}
  BY DEF Pending
<1>4. Cardinality({}) = 0 /\ 0 * Share = 0 /\ 0 * (Share - 1) = 0
  BY FS_EmptySet, Shares
<1>5. 0 + Cardinality(Pending({}, todo)) <= Cardinality({}) * Share + 0 * (Share - 1)
  BY <1>3, <1>4
<1>6. Sized({}, todo, 0, FALSE, 0)
  BY <1>2, <1>5 DEF Sized
<1> QED  BY <1>1, <1>6 DEF SizeInv

LEMMA NextKeepsSize == PoolInv /\ SizeInv /\ [Next]_vars => SizeInv'
<1> SUFFICES ASSUME PoolInv, SizeInv, [Next]_vars PROVE SizeInv'
  OBVIOUS
<1>1. ASSUME NEW t \in Tasks,
             \/ Acquire(t) \/ Connected(t) \/ SyncNewSlot(t) \/ PollSlot(t) \/ SyncSlot(t)
             \/ CreateSlotFails(t) \/ SyncSlotFails(t) \/ QueryFails(t) \/ ReleaseSlot(t)
      PROVE  SizeInv'
  BY <1>1, AcquireSize, ConnectedSize, SyncNewSlotSize, PollSlotSize, CreateSlotFailsSize,
     OwnerSize
<1>2. ASSUME NEW type \in {"PREPARE", "UNPREPARE"}, NEW b \in Blocks,
             PoolStatements(type, b) \/ \E t \in Tasks : LeaseStatements(t, type, b)
      PROVE  SizeInv'
  BY <1>2, StatementsSize
<1>3. CASE UNCHANGED vars
  <2>1. Creating(pc') = Creating(pc) /\ Len(slots') = Len(slots)
        /\ UNCHANGED <<initialized, todo, rounds, faults>>
    BY <1>3 DEF vars
  <2>2. faults' \in Nat /\ faults' >= faults
    BY <2>1, Sizes
  <2> QED  BY <2>1, <2>2, ElsewhereSize
<1> QED  BY <1>1, <1>2, <1>3 DEF Next

\* What the tasks in createSlot() have still to create is accounted for, through
\* races for the last places and initializations that fail part way.
THEOREM SizeInvariant == Spec => []SizeInv
  BY InitPool, NextKeepsPool, InitSize, NextKeepsSize, PTL DEF Spec

\* The pool outgrows pool_max by no more than the shares of the other tasks and
\* what failed initializations left behind (acquire, initialize, createSlot).
THEOREM PoolSizeBounded == Spec => []SlotsBounded
<1>1. ASSUME PoolInv, SizeInv PROVE SlotsBounded
  <2>1. PICK p \in Nat : p = Cardinality(Pending(Creating(pc), todo))
    BY <1>1, Sizes, Finite
  <2>2. Len(slots) + p <= Most + faults * (Share - 1)
    BY <1>1, <2>1, Sizes, WithinMost
  <2>3. Len(slots) \in Nat /\ faults \in Nat
    BY <1>1, Sizes
  <2>4. (Cardinality(Tasks) - 1) * Share \in Int /\ faults * (Share - 1) \in Int
    BY <2>3, Shares, Products
  <2>5. Len(slots) <= Most + faults * (Share - 1)
    BY <2>1, <2>2, <2>3, <2>4, Shares DEF Most
  <2> QED  BY <2>5 DEF SlotsBounded, Most
<1> QED  BY <1>1, PoolInvariant, SizeInvariant, PTL

\* Every variable keeps its type and every slot index points at a slot of its
\* owner's (slots_ only grows).
THEOREM PoolTypes == Spec => []TypeOK
<1>1. ASSUME PoolInv, SizeInv PROVE TypeOK
  <2>1. prepared \subseteq Blocks
    BY <1>1 DEF PoolInv, InForceOf
  <2>2. todo \in [Tasks -> Nat] /\ rounds \in [Tasks -> Nat] /\ initialized \in BOOLEAN
    <3>1. 0 .. PoolMin \subseteq Nat
      BY Shares
    <3> QED  BY <1>1, <3>1, Sizes
  <2>3. \A t \in Tasks : /\ slot[t] \in {0} \cup DOMAIN slots
                         /\ slot[t] # 0 <=> pc[t] \in {"syncing", "resyncing", "leased"}
    BY <1>1 DEF PoolInv, View, Owns, Owning
  <2> QED  BY <1>1, <2>1, <2>2, <2>3 DEF PoolInv, Types, TypeOK, Action, Places
<1> QED  BY <1>1, PoolInvariant, SizeInvariant, PTL
=============================================================================
