------------------------- MODULE MCAwaitableBridge -------------------------
(* The application's bridge and a second one, nested in it or beside it. *)
EXTENDS AwaitableBridge

CONSTANTS b1, b2, c1, c2

Request(fn, params, kwargs) == [fn |-> fn, params |-> params, kwargs |-> kwargs]

\* Each kind of function called well, and with each kind of bad argument.
MCRequests ==
    { Request("execute", {"str", "None"}, [read_only |-> "bool", executor |-> "None"]),
      Request("method", {"int"}, [retries |-> "None"]),
      Request("table", {"str"}, [executor |-> "executor"]),
      Request("quote", {"str"}, <<>>),
      Request("acquire", {}, <<>>),
      Request("execute", {"bigint"}, <<>>),
      Request("method", {"str"}, [executor |-> "executor"]),
      Request("table", {"str"}, [timeout_sec |-> "float"]),
      Request("quote", {"str"}, [executor |-> "str"]) }
=============================================================================
