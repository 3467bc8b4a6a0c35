--------------------------- MODULE LogPipeTracker ---------------------------
(***************************************************************************)
(* The log pipe of one container is what RuntimeService takes for granted  *)
(* of a tracker: it goes on from "wait" only when the program has exited   *)
(* and no descendant holds an output stream.  RuntimeService has no        *)
(* streams; to it a helper is a process that holds one.                    *)
(***************************************************************************)
EXTENDS LogPipe

CONSTANT Nil  \* Go's nil

Service == INSTANCE RuntimeService WITH
  Rpc <- {}, Pod <- {}, Cid <- {"container"}, Pid <- {1}, Faults <- {"helper", "logpipe"},
  containers <- [c \in {"container"} |-> Nil], sandboxes <- <<>>, calls <- <<>>,
  used <- {"container"},
  procs <- [p \in {1} |-> [main |-> main, cid |-> "container",
                           helper |-> \E s \in Stream : "helper" \in writers[s]]],
  trackers <- [p \in {1} |-> [pc |-> IF tracker = "read" THEN "read" ELSE "wait", cnt |-> Nil]]

\* Every step of the programs, the copiers and the tracker is a step of
\* RuntimeService's program, helper or tracker, or invisible to it.
ImplementsTracker ==
  [][Service!TrackerWait(1) \/ Service!MainExits(1) \/ Service!HelperExits(1)]_<<Service!host>>
=============================================================================
