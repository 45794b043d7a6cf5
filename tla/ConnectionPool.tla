--------------------------- MODULE ConnectionPool ---------------------------
(***************************************************************************)
(* ConnectionPool, the PooledConnection leases it hands out and the log of *)
(* prepared-statement blocks that every connection replays.                *)
(*                                                                         *)
(* Tasks are coroutines of one single-threaded executor: an action is the  *)
(* stretch between two suspensions, which are connectAsync, each statement *)
(* of syncStatements, the polling timer and the queries of a lease holder. *)
(***************************************************************************)
EXTENDS Naturals, Sequences, FiniteSets

CONSTANTS Tasks,             \* coroutines that use the pool
          Blocks,            \* names of statement blocks
          PoolMin, PoolMax,  \* DatabaseConfig
          Rounds,            \* bound: acquires per task
          LogBound,          \* bound: length of the statement log
          Faults             \* bound: failures of the database

\* What getDatabaseConfig accepts.
ASSUME PoolAssumption ==
    /\ PoolMin \in Nat /\ PoolMax \in Nat \ {0} /\ PoolMin <= PoolMax
    /\ Rounds \in Nat /\ LogBound \in Nat /\ Faults \in Nat
    /\ IsFiniteSet(Tasks)

VARIABLES initialized,   \* initialized_
          slots,         \* slots_, each with the state of its LibpqConnection
          log,           \* StatementActionLog::actions_
          prepared,      \* StatementActionLog::prepared_blocks_, the pool's own copy
          pc,            \* where each task is suspended
          todo,          \* slots its initialize() has still to create
          fresh,         \* the connection its createSlot() is building
          slot,          \* slot_index of its acquire() or lease, 0 if none
          seen,          \* size of its copy of the statement actions
          rounds, faults

vars == <<initialized, slots, log, prepared, pc, todo, fresh, slot, seen, rounds, faults>>

\* statement_cursor_, prepared_blocks_, and whether a failed command has left
\* the connection refusing the next one.
NewConnection == [in_use |-> FALSE, cursor |-> 0, blocks |-> {}, broken |-> FALSE]

(***************************************************************************)
(* acquire()                                                               *)
(***************************************************************************)

\* Mutant: off by one, the last slot is never looked at.
IdleMutant(ss) == {i \in DOMAIN ss : i + 1 \in DOMAIN ss /\ ~ss[i].in_use}

Idle(ss) == {i \in DOMAIN ss : ~ss[i].in_use}
FirstIdle(i, ss) == i \in Idle(ss) /\ \A j \in Idle(ss) : i <= j

\* The end of acquire(): slot i is ours; sync it with a copy of the log. With
\* nothing to replay the lease is returned without suspending.
TakeSlot(t, i, ss) ==
    /\ slots' = [ss EXCEPT ![i].in_use = TRUE]
    /\ slot' = [slot EXCEPT ![t] = i]
    /\ seen' = [seen EXCEPT ![t] = Len(log)]
    /\ pc' = [pc EXCEPT ![t] = IF ss[i].cursor < Len(log) THEN "syncing" ELSE "leased"]

SuspendAt(t, where, ss) ==
    /\ pc' = [pc EXCEPT ![t] = where]
    /\ slots' = ss
    /\ UNCHANGED <<slot, seen>>

\* Mutant: a slot in use is taken.
ChooseSlotShared(t, ss) ==
    \/ \E i \in DOMAIN ss : i = 1 /\ TakeSlot(t, i, ss)
    \/ DOMAIN ss = {} /\ SuspendAt(t, "connecting", ss)

\* The block under pool_mutex_ and what follows it.
ChooseSlot(t, ss) ==
    \/ \E i \in DOMAIN ss : FirstIdle(i, ss) /\ TakeSlot(t, i, ss)
    \/ Idle(ss) = {} /\ Len(ss) < PoolMax /\ SuspendAt(t, "connecting", ss)
    \/ Idle(ss) = {} /\ Len(ss) >= PoolMax /\ SuspendAt(t, "waiting", ss)

\* acquire() up to its first suspension, requireInitialized() included.
Acquire(t) ==
    /\ pc[t] = "idle"
    /\ rounds[t] < Rounds
    /\ rounds' = [rounds EXCEPT ![t] = @ + 1]
    /\ \/ /\ initialized \/ PoolMin = 0
          /\ initialized' = TRUE
          /\ ChooseSlot(t, slots)
          /\ UNCHANGED todo
       \/ /\ ~initialized /\ PoolMin > 0
          /\ todo' = [todo EXCEPT ![t] = PoolMin]
          /\ SuspendAt(t, "connecting", slots)
          /\ UNCHANGED initialized
    /\ UNCHANGED <<log, prepared, fresh, faults>>

\* Mutant: the pool is never marked as initialised.
SlotCreatedMutant(t, connection) ==
    LET ss == Append(slots, connection)
    IN  \/ /\ todo[t] > 1
           /\ todo' = [todo EXCEPT ![t] = @ - 1]
           /\ SuspendAt(t, "connecting", ss)
        \/ /\ todo[t] = 1
           /\ todo' = [todo EXCEPT ![t] = 0]
           /\ ChooseSlot(t, ss)
        \/ /\ todo[t] = 0
           /\ TakeSlot(t, Len(ss), ss)
           /\ UNCHANGED todo
    /\ UNCHANGED initialized

\* createSlot() returns: initialize() goes on, or acquire() takes the new slot.
SlotCreated(t, connection) ==
    LET ss == Append(slots, connection)
    IN  \/ /\ todo[t] > 1
           /\ todo' = [todo EXCEPT ![t] = @ - 1]
           /\ SuspendAt(t, "connecting", ss)
           /\ UNCHANGED initialized
        \/ /\ todo[t] = 1
           /\ todo' = [todo EXCEPT ![t] = 0]
           /\ initialized' = TRUE
           /\ ChooseSlot(t, ss)
        \/ /\ todo[t] = 0
           /\ TakeSlot(t, Len(ss), ss)
           /\ UNCHANGED <<todo, initialized>>

\* connectAsync() is done; the log is copied and replayed.
Connected(t) ==
    /\ pc[t] = "connecting"
    /\ \/ log = <<>> /\ SlotCreated(t, NewConnection) /\ UNCHANGED fresh
       \/ /\ log # <<>>
          /\ fresh' = [fresh EXCEPT ![t] = NewConnection]
          /\ seen' = [seen EXCEPT ![t] = Len(log)]
          /\ pc' = [pc EXCEPT ![t] = "syncing_new"]
          /\ UNCHANGED <<slots, slot, todo, initialized>>
    /\ UNCHANGED <<log, prepared, rounds, faults>>

\* One action of syncStatements' loop.
Replay(connection) ==
    LET action == log[connection.cursor + 1]
    IN  [connection EXCEPT
            !.cursor = @ + 1,
            !.blocks = IF action.type = "PREPARE" THEN @ \cup {action.block}
                                                  ELSE @ \ {action.block}]

SyncNewSlot(t) ==
    /\ pc[t] = "syncing_new"
    /\ LET connection == Replay(fresh[t])
       IN  \/ /\ connection.cursor < seen[t]
              /\ fresh' = [fresh EXCEPT ![t] = connection]
              /\ UNCHANGED <<slots, slot, seen, todo, initialized, pc>>
           \/ /\ connection.cursor >= seen[t]
              /\ SlotCreated(t, connection)
              /\ UNCHANGED fresh
    /\ UNCHANGED <<log, prepared, rounds, faults>>

\* waitForAvailableSlot: a timer tick that finds an idle slot. A tick that
\* finds none changes nothing.
PollSlot(t) ==
    /\ pc[t] = "waiting"
    /\ \E i \in DOMAIN slots : FirstIdle(i, slots) /\ TakeSlot(t, i, slots)
    /\ UNCHANGED <<initialized, log, prepared, todo, fresh, rounds, faults>>

\* Mutant: the lease is handed out after the first action of the replay.
SyncSlotMutant(t) ==
    /\ pc[t] \in {"syncing", "resyncing"}
    /\ ~slots[slot[t]].broken
    /\ LET connection == Replay(slots[slot[t]])
       IN  /\ slots' = [slots EXCEPT ![slot[t]] = connection]
           /\ pc' = [pc EXCEPT ![t] = "leased"]
    /\ UNCHANGED <<initialized, log, prepared, todo, fresh, slot, seen, rounds, faults>>

\* syncStatements on the slot of an acquire() or of a lease.
SyncSlot(t) ==
    /\ pc[t] \in {"syncing", "resyncing"}
    /\ ~slots[slot[t]].broken
    /\ LET connection == Replay(slots[slot[t]])
       IN  /\ slots' = [slots EXCEPT ![slot[t]] = connection]
           /\ pc' = [pc EXCEPT ![t] = IF connection.cursor < seen[t] THEN @ ELSE "leased"]
    /\ UNCHANGED <<initialized, log, prepared, todo, fresh, slot, seen, rounds, faults>>

(***************************************************************************)
(* Failures. An exception ends the task's acquire().                       *)
(***************************************************************************)

Fault == faults < Faults /\ faults' = faults + 1

\* createSlot() throws: the connection is dropped, initialize() is abandoned
\* and the slots it had created stay.
CreateSlotFails(t) ==
    /\ pc[t] \in {"connecting", "syncing_new"}
    /\ Fault
    /\ pc' = [pc EXCEPT ![t] = "idle"]
    /\ todo' = [todo EXCEPT ![t] = 0]
    /\ UNCHANGED <<initialized, slots, log, prepared, fresh, slot, seen, rounds>>

\* syncStatements throws. In acquire() no PooledConnection exists yet to give
\* the slot back; a lease holder keeps its lease.
SyncSlotFails(t) ==
    /\ pc[t] \in {"syncing", "resyncing"}
    /\ IF slots[slot[t]].broken THEN UNCHANGED faults ELSE Fault
    /\ slots' = [slots EXCEPT ![slot[t]].broken = TRUE]
    /\ \/ /\ pc[t] = "syncing"
          /\ pc' = [pc EXCEPT ![t] = "idle"]
          /\ slot' = [slot EXCEPT ![t] = 0]
       \/ /\ pc[t] = "resyncing"
          /\ pc' = [pc EXCEPT ![t] = "leased"]
          /\ UNCHANGED slot
    /\ UNCHANGED <<initialized, log, prepared, todo, fresh, seen, rounds>>

\* A query fails: consumeResults throws with a result still to be read, so
\* libpq refuses every later command on this connection.
QueryFails(t) ==
    /\ pc[t] = "leased"
    /\ ~slots[slot[t]].broken
    /\ Fault
    /\ slots' = [slots EXCEPT ![slot[t]].broken = TRUE]
    /\ UNCHANGED <<initialized, log, prepared, pc, todo, fresh, slot, seen, rounds>>

(***************************************************************************)
(* The lease and the statement log.                                        *)
(***************************************************************************)

\* ~PooledConnection
ReleaseSlot(t) ==
    /\ pc[t] = "leased"
    /\ slots' = [slots EXCEPT ![slot[t]].in_use = FALSE]
    /\ pc' = [pc EXCEPT ![t] = "idle"]
    /\ slot' = [slot EXCEPT ![t] = 0]
    /\ UNCHANGED <<initialized, log, prepared, todo, fresh, seen, rounds, faults>>

\* appendPrepare and appendUnprepare; they throw, changing nothing, when the
\* block is, or is not, prepared already.
AppendAction(type, b) ==
    /\ Len(log) < LogBound
    /\ b \in prepared <=> type = "UNPREPARE"
    /\ log' = Append(log, [type |-> type, block |-> b])
    /\ prepared' = IF type = "PREPARE" THEN prepared \cup {b} ELSE prepared \ {b}

\* ConnectionPool::prepareStatements and unprepareStatements.
PoolStatements(type, b) ==
    /\ AppendAction(type, b)
    /\ UNCHANGED <<initialized, slots, pc, todo, fresh, slot, seen, rounds, faults>>

\* PooledConnection::prepareStatements and unprepareStatements also sync the
\* connection of the lease.
LeaseStatements(t, type, b) ==
    /\ pc[t] = "leased"
    /\ AppendAction(type, b)
    /\ seen' = [seen EXCEPT ![t] = Len(log')]
    /\ pc' = [pc EXCEPT ![t] = "resyncing"]
    /\ UNCHANGED <<initialized, slots, todo, fresh, slot, rounds, faults>>
-----------------------------------------------------------------------------
Init ==
    /\ initialized = FALSE
    /\ slots = <<>>
    /\ log = <<>>
    /\ prepared = {}
    /\ pc = [t \in Tasks |-> "idle"]
    /\ todo = [t \in Tasks |-> 0]
    /\ fresh = [t \in Tasks |-> NewConnection]
    /\ slot = [t \in Tasks |-> 0]
    /\ seen = [t \in Tasks |-> 0]
    /\ rounds = [t \in Tasks |-> 0]
    /\ faults = 0

Next ==
    \/ \E t \in Tasks :
          \/ Acquire(t) \/ Connected(t) \/ SyncNewSlot(t) \/ PollSlot(t) \/ SyncSlot(t)
          \/ CreateSlotFails(t) \/ SyncSlotFails(t) \/ QueryFails(t) \/ ReleaseSlot(t)
    \/ \E type \in {"PREPARE", "UNPREPARE"}, b \in Blocks :
          PoolStatements(type, b) \/ \E t \in Tasks : LeaseStatements(t, type, b)

Spec == Init /\ [][Next]_vars

\* The executor runs every coroutine that can go on, timers fire, and a lease
\* is destroyed some time.
FairSpec ==
    /\ Spec
    /\ \A t \in Tasks :
        /\ WF_vars(Connected(t) \/ CreateSlotFails(t)) /\ WF_vars(SyncNewSlot(t))
        /\ WF_vars(SyncSlot(t) \/ SyncSlotFails(t))
        /\ WF_vars(PollSlot(t)) /\ WF_vars(ReleaseSlot(t))
-----------------------------------------------------------------------------
Owner(t) == slot[t] # 0

\* The blocks whose PREPARE among the first n actions was not undone.
InForce(n) ==
    {b \in Blocks : \E i \in 1 .. n :
        /\ log[i] = [type |-> "PREPARE", block |-> b]
        /\ \A j \in i + 1 .. n : log[j].block # b}

Connection == [in_use : BOOLEAN, cursor : Nat, blocks : SUBSET Blocks, broken : BOOLEAN]

\* Every variable has its type and indices point at existing slots.
TypeOK ==
    /\ initialized \in BOOLEAN
    /\ slots \in Seq(Connection)
    /\ log \in Seq([type : {"PREPARE", "UNPREPARE"}, block : Blocks])
    /\ prepared \subseteq Blocks
    /\ pc \in [Tasks -> {"idle", "connecting", "syncing_new", "waiting", "syncing",
                         "resyncing", "leased"}]
    /\ todo \in [Tasks -> Nat]
    /\ fresh \in [Tasks -> Connection]
    /\ slot \in [Tasks -> Nat]
    /\ seen \in [Tasks -> Nat]
    /\ rounds \in [Tasks -> Nat]
    /\ faults \in Nat
    /\ \A t \in Tasks : /\ slot[t] \in {0} \cup DOMAIN slots
                        /\ slot[t] # 0 <=> pc[t] \in {"syncing", "resyncing", "leased"}

\* The slots one task may be about to create.
Share == IF PoolMin > 1 THEN PoolMin ELSE 1

\* How far the pool can grow beyond pool_max: the size check and the creation of
\* a slot are suspensions apart, so every other task may be creating its share,
\* and an initialize() that throws leaves all but one of its slots behind, while
\* the next acquire() initializes from the start. It grows no further, however
\* many acquires there are.
SlotsBounded ==
    Len(slots) <= PoolMax + (Cardinality(Tasks) - 1) * Share + faults * (Share - 1)

\* No two tasks ever use one connection through the pool, a slot with an owner is
\* never seen as idle by tryAcquireExistingSlot, and a slot marked in use has a
\* task that will give it back, as long as no replay has failed (the slot of an
\* acquire() that throws there stays marked for good).
InUseByOneOwner ==
    /\ \A t, u \in Tasks : Owner(t) =>
          /\ slots[slot[t]].in_use
          /\ slot[t] = slot[u] => t = u
    /\ faults = 0 => \A i \in DOMAIN slots : slots[i].in_use => \E t \in Tasks : slot[t] = i

\* However the log grows while a connection replays it, the connection has
\* exactly the blocks that its prefix of the log leaves prepared; and a lease's
\* connection has replayed at least the log that acquire() copied, so a statement
\* prepared before the acquire() exists on it, unless a statement of the lease's
\* own failed to sync.
LeaseIsSynced ==
    /\ prepared = InForce(Len(log))
    /\ \A i \in DOMAIN slots :
          /\ slots[i].cursor <= Len(log)
          /\ slots[i].blocks = InForce(slots[i].cursor)
    /\ \A t \in Tasks : pc[t] = "leased" =>
          slots[slot[t]].cursor >= seen[t] \/ slots[slot[t]].broken

\* An acquire() that threw has marked this slot and nobody will give it back.
Leaked(i) == slots[i].in_use /\ \A t \in Tasks : slot[t] # i

\* Every acquire() ends, also one that has to wait for a slot, as long as one of
\* the slots has not leaked: with a lease, or with the exception of a failure. So
\* it always returns a lease while the database answers.
AcquireReturns ==
    \A t \in Tasks :
        pc[t] \notin {"idle", "leased"} ~>
            \/ pc[t] = "leased"
            \/ pc[t] = "idle" /\ faults > 0
            \/ Len(slots) >= PoolMax /\ \A i \in DOMAIN slots : Leaked(i)
=============================================================================
