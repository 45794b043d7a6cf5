------------------------------ MODULE Judging ------------------------------
(***************************************************************************)
(* What the dispatcher promises about submissions, without queue, invokers *)
(* or streams: at-least-once judging. A submission handed to a test node   *)
(* may come back, it may be tested more than once, but it is finished only *)
(* after a result for it has been stored, and then stays finished.         *)
(***************************************************************************)
CONSTANT Submissions

VARIABLES status, \* "unknown", "pending", "assigned" or "finished"
          tested  \* submissions a result has been stored for

Init ==
    /\ status = [s \in Submissions |-> "unknown"]
    /\ tested = {}

Accept(s) ==
    /\ status[s] = "unknown"
    /\ \E st \in {"pending", "assigned"} : status' = [status EXCEPT ![s] = st]
    /\ UNCHANGED tested

Assign(s) ==
    /\ status[s] = "pending"
    /\ status' = [status EXCEPT ![s] = "assigned"]
    /\ UNCHANGED tested

Return(s) ==
    /\ status[s] = "assigned"
    /\ status' = [status EXCEPT ![s] = "pending"]
    /\ UNCHANGED tested

\* A node that answers is free, and may be given the next submission at once.
Finish(s) ==
    /\ status[s] = "assigned"
    /\ s \in tested
    /\ \/ status' = [status EXCEPT ![s] = "finished"]
       \/ \E t \in Submissions :
             /\ status[t] = "pending"
             /\ status' = [status EXCEPT ![s] = "finished", ![t] = "assigned"]
    /\ UNCHANGED tested

StoreResult(s) ==
    /\ status[s] # "unknown"
    /\ tested' = tested \cup {s}
    /\ UNCHANGED status

Next == \E s \in Submissions :
           Accept(s) \/ Assign(s) \/ Return(s) \/ Finish(s) \/ StoreResult(s)

Spec == Init /\ [][Next]_<<status, tested>>
=============================================================================
