-------------------------- MODULE AwaitableBridge --------------------------
(***************************************************************************)
(* How Python awaits a C++ coroutine. A bridge owns an io_context; inside  *)
(* an `async with bridge:` block it is the thread's current bridge and a   *)
(* driver task polls its io_context on every turn of the asyncio loop. A   *)
(* bound C++ function creates a Future, starts the coroutine on the        *)
(* *current* bridge and returns the Future; the coroutine settles it.      *)
(*                                                                         *)
(* Everything runs on the loop's thread: a step is what happens between    *)
(* two awaits of a Python task. A bridge has at most one block at a time.  *)
(* The Future's reference count is kept, as two of the paths through       *)
(* awaitAndResolve release the coroutine's reference twice.                *)
(***************************************************************************)
EXTENDS Integers, Sequences, FiniteSets

CONSTANTS Bridges, Calls,
          Requests,  \* the calls of bound functions that Python makes
          NoBridge,  \* a null AwaitableBridge*
          MaxWaits   \* bound: how often a coroutine is suspended

\* The kinds of bound functions: the module's execute and execute_sql, its quote
\* and acquire_connection, the methods of an executor, those of a table.
Functions == {"execute", "quote", "acquire", "method", "table"}

\* The types of values that the binding tells apart. A bigint is an int that
\* has more than 64 bits.
ValueTypes == {"None", "bool", "int", "bigint", "float", "str", "executor", "other"}

ASSUME BridgeAssumption ==
    /\ NoBridge \notin Bridges
    /\ \A r \in Requests : /\ r.fn \in Functions
                           /\ r.params \subseteq ValueTypes
                           /\ \A k \in DOMAIN r.kwargs : r.kwargs[k] \in ValueTypes
    /\ MaxWaits \in Nat

VARIABLES current,   \* the thread-local current_
          previous,  \* previous_ of each bridge
          loop,      \* does it hold a loop (cached_loop_)?
          block,     \* how Python uses the bridge
          opened,    \* history: while nested, the bridges activated and not left,
                     \* oldest first
          nested,    \* history: was every bridge left in the reverse order of entry?
          home,      \* the bridge whose io_context runs a call
          coro,      \* the coroutine of a call
          waits,     \* how often it was suspended
          fut,       \* the state of a call's Future
          kept,      \* does Python hold the Future?
          refs       \* the Future's reference count

vars == <<current, previous, loop, block, opened, nested,
          home, coro, waits, fut, kept, refs>>
bridgeVars == <<current, previous, loop, block, opened, nested>>
callVars == <<home, coro, waits, fut, kept, refs>>

\* "bare": activate() without a block; "stuck": its __aexit__ raised.
BlockStates == {"none", "bare", "in", "exiting", "stuck", "dead"}
Unfinished == {"ready", "waiting"}
\* "inconvertible": it returned, but the result has no Python value.
Outcomes == {"returned", "threw", "inconvertible"}
CoroStates == {"none", "lost"} \cup Unfinished \cup Outcomes
FutureStates == {"none", "raised", "pending", "result", "exception", "cancelled"}

TypeOK ==
    /\ current \in Bridges \cup {NoBridge}
    /\ previous \in [Bridges -> Bridges \cup {NoBridge}]
    /\ loop \in [Bridges -> BOOLEAN]
    /\ block \in [Bridges -> BlockStates]
    /\ opened \in Seq(Bridges)
    /\ nested \in BOOLEAN
    /\ home \in [Calls -> Bridges \cup {NoBridge}]
    /\ coro \in [Calls -> CoroStates]
    /\ waits \in [Calls -> 0..MaxWaits]
    /\ fut \in [Calls -> FutureStates]
    /\ kept \in [Calls -> BOOLEAN]
    /\ refs \in [Calls -> -1..2]

Init ==
    /\ current = NoBridge
    /\ previous = [b \in Bridges |-> NoBridge]
    /\ loop = [b \in Bridges |-> FALSE]
    /\ block = [b \in Bridges |-> "none"]
    /\ opened = <<>>
    /\ nested = TRUE
    /\ home = [c \in Calls |-> NoBridge]
    /\ coro = [c \in Calls |-> "none"]
    /\ waits = [c \in Calls |-> 0]
    /\ fut = [c \in Calls |-> "none"]
    /\ kept = [c \in Calls |-> FALSE]
    /\ refs = [c \in Calls |-> 0]
-----------------------------------------------------------------------------
(* Blocks *)

\* The blocks of one task nest. Those of several tasks overlap as they like: one
\* is entered while another is being left, or left before one entered later.
EntersInOrder == \A b \in Bridges : block[b] # "exiting"
LeavesInOrder(b) == \A i \in 1..Len(opened) : opened[i] = b => i = Len(opened)

\* Bridge b is left. Once the nesting is broken nobody looks at opened again.
Left(b) ==
    /\ nested' = (nested /\ LeavesInOrder(b))
    /\ opened' = IF ~nested' THEN <<>>
                 ELSE IF \E i \in 1..Len(opened) : opened[i] = b
                 THEN SubSeq(opened, 1, Len(opened) - 1)
                 ELSE opened

\* activate(): raises, and changes nothing, when the bridge is current.
Activate(b) ==
    /\ current # b
    /\ loop' = [loop EXCEPT ![b] = TRUE]
    /\ previous' = [previous EXCEPT ![b] = current]
    /\ current' = b
    /\ nested' = (nested /\ EntersInOrder)
    /\ opened' = IF nested' THEN Append(opened, b) ELSE <<>>

\* Mutant: no bridge is current afterwards, a nested one's outer included.
DeactivateMutant(b) ==
    /\ current = b
    /\ current' = NoBridge
    /\ previous' = [previous EXCEPT ![b] = NoBridge]
    /\ loop' = [loop EXCEPT ![b] = FALSE]
    /\ Left(b)

\* deactivate(): stop() and restart() forget no handler, and as poll() restarts
\* the io_context before it runs it, that it was stopped is never seen.
Deactivate(b) ==
    /\ current = b
    /\ current' = previous[b]
    /\ previous' = [previous EXCEPT ![b] = NoBridge]
    /\ loop' = [loop EXCEPT ![b] = FALSE]
    /\ Left(b)

\* deactivate() of a bridge that is not current raises.
DeactivateRaises(b) ==
    /\ current # b
    /\ Left(b)
    /\ UNCHANGED <<current, previous, loop>>

\* __aenter__
AEnter(b) ==
    /\ block[b] \in {"none", "stuck"}
    /\ Activate(b)
    /\ block' = [block EXCEPT ![b] = "in"]
    /\ UNCHANGED callVars

\* Python calls activate() itself.
ActivateOnly(b) ==
    /\ block[b] = "none"
    /\ Activate(b)
    /\ block' = [block EXCEPT ![b] = "bare"]
    /\ UNCHANGED callVars

\* __aexit__ up to its await: the driver is cancelled and polls no more.
BeginAExit(b) ==
    /\ block[b] = "in"
    /\ block' = [block EXCEPT ![b] = "exiting"]
    /\ nested' = (nested /\ LeavesInOrder(b))
    /\ opened' = IF nested' THEN opened ELSE <<>>
    /\ UNCHANGED <<current, previous, loop, callVars>>

\* __aexit__ after its await
EndAExit(b) ==
    /\ block[b] = "exiting"
    /\ \/ Deactivate(b) /\ block' = [block EXCEPT ![b] = "none"]
       \/ DeactivateRaises(b) /\ block' = [block EXCEPT ![b] = "stuck"]
    /\ UNCHANGED callVars

DeactivateOnly(b) ==
    /\ block[b] = "bare"
    /\ Deactivate(b)
    /\ block' = [block EXCEPT ![b] = "none"]
    /\ UNCHANGED callVars

\* ~AwaitableBridge(): Python drops its last reference. The io_context goes
\* with its handlers, and a destroyed frame does not release its Future.
Destroy(b) ==
    /\ block[b] \in {"none", "stuck", "bare"}
    /\ \/ Deactivate(b)
       \/ DeactivateRaises(b)
    /\ block' = [block EXCEPT ![b] = "dead"]
    /\ coro' = [c \in Calls |-> IF home[c] = b /\ coro[c] \in Unfinished
                                THEN "lost" ELSE coro[c]]
    /\ UNCHANGED <<home, waits, fut, kept, refs>>
-----------------------------------------------------------------------------
(* What a bound function accepts *)

\* queryParamFromPython, paramsFromArgs
ParamsConvert(r) == r.params \subseteq {"None", "bool", "int", "float", "str"}

\* popOptionalBool and popOptionalInt: None counts as absent, the casts convert.
OptionTypes(key) ==
    CASE key = "read_only" -> {"None", "bool", "int", "bigint", "float"}
      [] key \in {"timeout_sec", "retries"} -> {"None", "bool", "int"}

\* executorFromPython: None is the default executor.
ExecutorTypes == {"None", "executor"}

OptionKeys == {"read_only", "timeout_sec", "retries"}

\* executeOptionsFromKwargs, tableExecuteOptionsFromKwargs and
\* ensureNoExtraKwargs: which keywords each function takes.
Keywords(fn) ==
    CASE fn \in {"execute", "table"} -> OptionKeys \cup {"executor"}
      [] fn = "method" -> OptionKeys
      [] fn = "quote" -> {"executor"}
      [] fn = "acquire" -> {}

KwargsConvert(r) ==
    \A key \in DOMAIN r.kwargs :
        /\ key \in Keywords(r.fn)
        /\ r.kwargs[key] \in IF key = "executor" THEN ExecutorTypes ELSE OptionTypes(key)

\* Query parameters are converted one by one; the other functions have declared
\* arguments, strings here, which pybind11 checks.
Accepts(r) ==
    /\ KwargsConvert(r)
    /\ CASE r.fn \in {"execute", "method"} -> ParamsConvert(r)
         [] r.fn \in {"quote", "table"} -> r.params \subseteq {"str"}
         [] r.fn = "acquire" -> r.params = {}
-----------------------------------------------------------------------------
(* Calls *)

\* Mutant: the coroutine gets no reference of its own.
SpawnMutant(c) ==
    /\ home' = [home EXCEPT ![c] = current]
    /\ coro' = [coro EXCEPT ![c] = "ready"]
    /\ fut' = [fut EXCEPT ![c] = "pending"]
    /\ kept' = [kept EXCEPT ![c] = TRUE]
    /\ refs' = [refs EXCEPT ![c] = 1]
    /\ UNCHANGED waits

\* spawnMethod, spawnFunction, spawnQueryResult: the caller's reference to the
\* Future and the coroutine's.
Spawn(c) ==
    /\ home' = [home EXCEPT ![c] = current]
    /\ coro' = [coro EXCEPT ![c] = "ready"]
    /\ fut' = [fut EXCEPT ![c] = "pending"]
    /\ kept' = [kept EXCEPT ![c] = TRUE]
    /\ refs' = [refs EXCEPT ![c] = 2]
    /\ UNCHANGED waits

\* A bound function is called: bad arguments raise before anything is started,
\* current() without a bridge and createFuture() without a loop do as well.
Call(c, r) ==
    /\ fut[c] = "none"
    /\ current # NoBridge => block[current] # "dead"
    /\ IF Accepts(r) /\ current # NoBridge /\ loop[current]
       THEN Spawn(c)
       ELSE /\ fut' = [fut EXCEPT ![c] = "raised"]
            /\ UNCHANGED <<home, coro, waits, kept, refs>>
    /\ UNCHANGED bridgeVars

\* What the awaited operation of a suspended coroutine waits for has happened.
Wake(c) ==
    /\ coro[c] = "waiting"
    /\ coro' = [coro EXCEPT ![c] = "ready"]
    /\ UNCHANGED <<home, waits, fut, kept, refs, bridgeVars>>

\* set_result and set_exception raise InvalidStateError on a Future that is done.
Settled(c, outcome) ==
    IF fut[c] # "pending" THEN fut[c]
    ELSE IF outcome = "returned" THEN "result" ELSE "exception"

\* awaitAndResolve steals the reference in the expression that sets the result;
\* when that raises, setFutureException steals it again.
Releases(c, outcome) ==
    IF outcome = "threw" \/ (outcome = "returned" /\ fut[c] = "pending") THEN 1 ELSE 2

\* io_context::poll(): every ready coroutine of the bridge runs until it is
\* suspended or ends.
RunReady(b) ==
    LET ready == {c \in Calls : home[c] = b /\ coro[c] = "ready"} IN
    /\ \E to \in [ready -> Outcomes \cup {"waiting"}] :
        LET ending == {c \in ready : to[c] # "waiting"} IN
        /\ \A c \in ready \ ending : waits[c] < MaxWaits
        /\ coro' = [c \in Calls |-> IF c \in ready THEN to[c] ELSE coro[c]]
        /\ waits' = [c \in Calls |-> IF c \in ready \ ending THEN waits[c] + 1 ELSE waits[c]]
        /\ fut' = [c \in Calls |-> IF c \in ending THEN Settled(c, to[c]) ELSE fut[c]]
        /\ refs' = [c \in Calls |-> IF c \in ending THEN refs[c] - Releases(c, to[c]) ELSE refs[c]]
    /\ UNCHANGED <<home, kept, bridgeVars>>

\* Mutant: the driver polls the current bridge instead of its own.
PollMutant(b) == block[b] \in {"in", "bare"} /\ current = b /\ RunReady(b)

\* poll(), by the driver or by Python itself
Poll(b) == block[b] \in {"in", "bare"} /\ RunReady(b)

\* The awaiting task is cancelled.
Cancel(c) ==
    /\ fut[c] = "pending"
    /\ fut' = [fut EXCEPT ![c] = "cancelled"]
    /\ UNCHANGED <<home, coro, waits, kept, refs, bridgeVars>>

\* The awaiting task goes on and lets go of the Future.
Drop(c) ==
    /\ kept[c] /\ fut[c] # "pending"
    /\ kept' = [kept EXCEPT ![c] = FALSE]
    /\ refs' = [refs EXCEPT ![c] = @ - 1]
    /\ UNCHANGED <<home, coro, waits, fut, bridgeVars>>
-----------------------------------------------------------------------------
Next ==
    \/ \E b \in Bridges :
        \/ AEnter(b) \/ ActivateOnly(b)
        \/ BeginAExit(b) \/ EndAExit(b) \/ DeactivateOnly(b)
        \/ Destroy(b) \/ Poll(b)
    \/ \E c \in Calls :
        \/ \E r \in Requests : Call(c, r)
        \/ Wake(c) \/ Cancel(c) \/ Drop(c)

\* The loop turns, so a driver that is not cancelled polls again; what a
\* coroutine waits for happens. Python owes nothing.
Fairness ==
    /\ \A b \in Bridges : WF_vars(block[b] = "in" /\ Poll(b))
    /\ \A c \in Calls : WF_vars(Wake(c))

Spec == Init /\ [][Next]_vars /\ Fairness
-----------------------------------------------------------------------------
(* Properties *)

\* Under nested use, current_ and the chain of previous_ are exactly the open
\* blocks, innermost first, each on a live bridge that holds its loop, however
\* bridges are reused, destroyed and polled in between: no call can reach a
\* bridge that is gone (AwaitableBridge::activate, deactivate, destructor).
ChainIsNesting ==
    nested =>
        LET n == Len(opened)
            below(i) == IF i = 1 THEN NoBridge ELSE opened[i - 1]
        IN  /\ current = IF n = 0 THEN NoBridge ELSE opened[n]
            /\ \A i \in 1..n : /\ previous[opened[i]] = below(i)
                               /\ loop[opened[i]]
                               /\ block[opened[i]] \in {"bare", "in", "exiting"}
            /\ \A b \in Bridges : block[b] \in {"none", "dead"} =>
                    ~loop[b] /\ previous[b] = NoBridge

\* A Future's reference count is the number of its owners: Python, and a
\* coroutine that has not ended (or was destroyed unfinished). The exceptions
\* are a cancelled Future whose coroutine still returned and a result that has
\* no Python value: then awaitAndResolve has released one reference too many.
RefsMatchOwners ==
    \A c \in Calls :
        LET owners == (IF kept[c] THEN 1 ELSE 0)
                      + (IF coro[c] \in Unfinished \cup {"lost"} THEN 1 ELSE 0)
            twice == coro[c] = "inconvertible" \/ (coro[c] = "returned" /\ fut[c] = "cancelled")
        IN  refs[c] = owners - (IF twice THEN 1 ELSE 0)

\* A call made in a block that stays open is answered, with a result or an
\* exception: the driver of its bridge polls although a nested block has taken
\* over current_ (_driver, poll, awaitAndResolve).
AwaitedCallSettles ==
    \A c \in Calls : \A b \in Bridges :
        (fut[c] = "pending" /\ home[c] = b /\ block[b] = "in")
            ~> (fut[c] # "pending" \/ block[b] # "in")

\* current_ never names a destroyed bridge ("deactivate cleanly so the
\* thread-local pointer does not dangle"). This holds for nested blocks
\* (ChainIsNesting) and not for overlapping ones: the bridge entered last keeps
\* the other in previous_, and brings it back when that is gone.
CurrentIsAlive == current # NoBridge => block[current] # "dead"

\* A bridge that is left has no coroutine of that block to run later ("Drain any
\* remaining handlers"). This does not hold: stop() and restart() run and forget
\* nothing, and the driver has ended before.
DrainedOnDeactivate ==
    \A b \in Bridges : block[b] = "none" =>
        ~\E c \in Calls : home[c] = b /\ coro[c] \in Unfinished
=============================================================================
