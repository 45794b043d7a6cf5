-------------------------- MODULE LibpqConnection --------------------------
(***************************************************************************)
(* One LibpqConnection used by several coroutines: the execution queue     *)
(* that serialises their commands, the replay of the statement log, and    *)
(* what a failed command leaves behind in libpq.                           *)
(*                                                                         *)
(* Coroutines share one thread. A command is sent in one stretch and its   *)
(* result read in a later one; between the two others may run.             *)
(***************************************************************************)
EXTENDS Naturals, Sequences, FiniteSets, SequencesExt

CONSTANTS Tasks,     \* coroutines, each making one call
          Kind,      \* its call: "query", "quote" or "sync"
          ActionsOf, \* for "sync": how much of the log the caller copied
          Failing    \* tasks whose commands the server may reject

ASSUME LibpqAssumption ==
    /\ Kind \in [Tasks -> {"query", "quote", "sync"}]
    /\ ActionsOf \in [Tasks -> Nat]
    /\ Failing \subseteq Tasks

VARIABLES execution_in_progress,
          execution_waiters,  \* deque of timers, one per waiting coroutine
          statement_cursor,
          pc,                 \* "new", "waiting", "woken", "sent", "ok", "error"
          busy,               \* libpq: results of the last command not read to the end
          replayed,           \* log actions the server has executed, in order
          arrived, served,    \* order of asking for and of getting the connection
          rejected            \* tasks the server has rejected a command of

vars == <<execution_in_progress, execution_waiters, statement_cursor, pc, busy,
          replayed, arrived, served, rejected>>

Holder(t) == pc[t] \in {"woken", "sent"}

(***************************************************************************)
(* One stretch may end with t suspended at a sent command or finished; a   *)
(* finished one destroys its lease and so wakes the next waiter.           *)
(***************************************************************************)

\* ~ExecutionQueueLease: the flag stays up when ownership passes to a waiter.
ReleaseExecutionQueue(t, outcome) ==
    \/ /\ execution_waiters = <<>>
       /\ execution_in_progress' = FALSE
       /\ pc' = [pc EXCEPT ![t] = outcome]
       /\ UNCHANGED execution_waiters
    \/ /\ execution_waiters # <<>>
       /\ execution_waiters' = Tail(execution_waiters)
       /\ pc' = [pc EXCEPT ![t] = outcome, ![Head(execution_waiters)] = "woken"]
       /\ UNCHANGED execution_in_progress

\* PQsendPrepare, PQsendQuery, PQsendQueryPrepared, PQsendQueryParams: refused
\* while results of an earlier command are unread.
Send(t) ==
    \/ /\ ~busy
       /\ busy' = TRUE
       /\ pc' = [pc EXCEPT ![t] = "sent"]
       /\ execution_in_progress' = TRUE
       /\ UNCHANGED execution_waiters
    \/ /\ busy
       /\ ReleaseExecutionQueue(t, "error")
       /\ UNCHANGED busy

\* From getting the lease to the first suspension.
Run(t) ==
    /\ served' = Append(served, t)
    /\ IF Kind[t] = "quote" \/ (Kind[t] = "sync" /\ statement_cursor >= ActionsOf[t])
       THEN ReleaseExecutionQueue(t, "ok") /\ UNCHANGED busy
       ELSE Send(t)

\* Mutant: nobody asks whether a command is under way.
CallMutant(t) ==
    /\ pc[t] = "new"
    /\ arrived' = Append(arrived, t)
    /\ Run(t)
    /\ UNCHANGED <<statement_cursor, replayed, rejected>>

\* acquireExecutionQueue, and the call's first stretch if the queue is free.
Call(t) ==
    /\ pc[t] = "new"
    /\ arrived' = Append(arrived, t)
    /\ \/ ~execution_in_progress /\ Run(t)
       \/ /\ execution_in_progress
          /\ execution_waiters' = Append(execution_waiters, t)
          /\ pc' = [pc EXCEPT ![t] = "waiting"]
          /\ UNCHANGED <<execution_in_progress, busy, served>>
    /\ UNCHANGED <<statement_cursor, replayed, rejected>>

\* Mutant: a woken coroutine lets those behind it go first.
ResumeMutant(t) ==
    /\ pc[t] = "woken"
    /\ execution_waiters = <<>>
    /\ Run(t)
    /\ UNCHANGED <<statement_cursor, replayed, arrived, rejected>>

\* The cancelled timer resumes its coroutine.
Resume(t) ==
    /\ pc[t] = "woken"
    /\ Run(t)
    /\ UNCHANGED <<statement_cursor, replayed, arrived, rejected>>

\* Mutant: the cursor is taken from the caller's copy instead of incremented.
ReadResultMutant(t) ==
    /\ pc[t] = "sent"
    /\ busy' = FALSE
    /\ IF Kind[t] = "sync"
       THEN /\ replayed' = Append(replayed, statement_cursor + 1)
            /\ statement_cursor' = ActionsOf[t]
       ELSE UNCHANGED <<replayed, statement_cursor>>
    /\ ReleaseExecutionQueue(t, "ok")
    /\ UNCHANGED <<arrived, served, rejected>>

\* consumeResults reads to the end. syncStatements sends its next action in
\* the same stretch.
ReadResult(t) ==
    /\ pc[t] = "sent"
    /\ IF Kind[t] = "sync"
       THEN /\ replayed' = Append(replayed, statement_cursor + 1)
            /\ statement_cursor' = statement_cursor + 1
       ELSE UNCHANGED <<replayed, statement_cursor>>
    /\ IF Kind[t] = "sync" /\ statement_cursor' < ActionsOf[t]
       THEN UNCHANGED <<pc, busy, execution_in_progress, execution_waiters>>
       ELSE busy' = FALSE /\ ReleaseExecutionQueue(t, "ok")
    /\ UNCHANGED <<arrived, served, rejected>>

\* Mutant: a failed action takes its predecessor back.
ReadErrorMutant(t) ==
    /\ pc[t] = "sent"
    /\ t \in Failing
    /\ rejected' = rejected \cup {t}
    /\ ReleaseExecutionQueue(t, "error")
    /\ statement_cursor' = statement_cursor - 1
    /\ UNCHANGED <<busy, replayed, arrived, served>>

\* The server rejects the command: consumeResults throws after the first
\* result, with the end of the results still unread.
ReadError(t) ==
    /\ pc[t] = "sent"
    /\ t \in Failing
    /\ rejected' = rejected \cup {t}
    /\ ReleaseExecutionQueue(t, "error")
    /\ UNCHANGED <<statement_cursor, busy, replayed, arrived, served>>
-----------------------------------------------------------------------------
Init ==
    /\ execution_in_progress = FALSE
    /\ execution_waiters = <<>>
    /\ statement_cursor = 0
    /\ pc = [t \in Tasks |-> "new"]
    /\ busy = FALSE
    /\ replayed = <<>>
    /\ arrived = <<>>
    /\ served = <<>>
    /\ rejected = {}

Next == \E t \in Tasks : Call(t) \/ Resume(t) \/ ReadResult(t) \/ ReadError(t)

Spec == Init /\ [][Next]_vars

\* The executor resumes whoever can run, and the server answers.
FairSpec ==
    /\ Spec
    /\ \A t \in Tasks : WF_vars(Resume(t)) /\ WF_vars(ReadResult(t) \/ ReadError(t))
-----------------------------------------------------------------------------
\* Every variable has its type.
TypeOK ==
    /\ execution_in_progress \in BOOLEAN
    /\ execution_waiters \in Seq(Tasks)
    /\ statement_cursor \in Nat
    /\ pc \in [Tasks -> {"new", "waiting", "woken", "sent", "ok", "error"}]
    /\ busy \in BOOLEAN
    /\ replayed \in Seq(Nat)
    /\ arrived \in Seq(Tasks) /\ served \in Seq(Tasks)
    /\ rejected \subseteq Tasks

\* The flag is up exactly while one coroutine owns the connection, and it is
\* one: releasing to a waiter neither drops nor duplicates the ownership, and
\* passes it on in the order the coroutines asked. So libpq refuses a command only
\* on a connection that the server has rejected a command of before: concurrency
\* alone never makes a call fail.
OneHolderWhileBusy ==
    /\ execution_in_progress <=> \E t \in Tasks : Holder(t)
    /\ \A t, u \in Tasks : Holder(t) /\ Holder(u) => t = u
    /\ \A t \in Tasks : pc[t] = "waiting" <=> t \in ToSet(execution_waiters)
    /\ IsPrefix(served, arrived)
    /\ (\E t \in Tasks : pc[t] = "error") => rejected # {}

\* Overlapping syncs with copies of different age replay every action of the
\* log once, in order.
ReplayedOnceInOrder ==
    replayed = [i \in 1 .. statement_cursor |-> i]

\* Every call ends, also after another one's failure.
CallsEnd == \A t \in Tasks : pc[t] # "new" ~> pc[t] \in {"ok", "error"}
=============================================================================
