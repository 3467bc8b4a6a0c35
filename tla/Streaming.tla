----------------------------- MODULE Streaming -----------------------------
(***************************************************************************)
(* One exec, attach, port-forward or ExecSync session                      *)
(* (procri/pkg/streaming, procri/pkg/runtimeservice/streaming.go).         *)
(* Sessions share nothing, and none of them looks at pods or containers:   *)
(* a command runs on the host and a port is one of localhost.              *)
(*                                                                         *)
(* A session copies chunks "in", from the client, and "out", to it, each   *)
(* direction in a goroutine of its own; the handler starts the two and     *)
(* waits.  stderr is copied like stdout and is left out.  The other end is *)
(* a command and at most one helper that inherited its output, or the      *)
(* server that listens on the port.  Time is left out: a timeout may fire  *)
(* as soon as it is armed, and fires in the end.                           *)
(***************************************************************************)
EXTENDS Naturals, Sequences

CONSTANT MaxChunks  \* bound on the chunks sent in one direction

ASSUME MaxChunksAssumption == MaxChunks \in Nat

Direction == {"in", "out"}
Commands == {"tty", "exec", "sync"}
Kind == Commands \cup {"forward", "attach"}

VARIABLES
  kind,      \* what the client asked for; "sync" is ExecSync
  wanted,    \* the directions it asked for
  handler,   \* the handler's program counter
  result,    \* what the handler returned
  program,   \* the command's main program
  status,    \* how it ended
  helper,    \* a descendant holds its output open
  ctx,       \* ExecSync's childCtx
  sent,      \* chunks sent into a direction
  delivered, \* chunks that came out of it
  ended,     \* its sender has closed it
  broken,    \* its receiver is gone
  closed,    \* procri has closed its ends of a direction
  copier,    \* the goroutine of a direction
  errCh      \* what the copiers of a forwarded port returned, in order

host == <<program, status, helper>>
flow == <<sent, delivered, ended, broken>>
vars == <<kind, wanted, handler, result, host, ctx, flow, closed, copier, errCh>>

Init ==
  /\ kind \in Kind
  /\ wanted \in (SUBSET Direction) \ {{}}
  /\ kind = "forward" => wanted = Direction
  /\ kind = "sync" => wanted = {"out"}
  /\ handler = "asked" /\ result = "none"
  /\ program = "none" /\ status = "ok" /\ helper = FALSE
  /\ ctx = "live"
  /\ sent = [d \in Direction |-> 0] /\ delivered = [d \in Direction |-> 0]
  /\ ended = [d \in Direction |-> FALSE] /\ broken = [d \in Direction |-> FALSE]
  /\ closed = [d \in Direction |-> FALSE]
  /\ copier = [d \in Direction |-> "none"]
  /\ errCh = <<>>

\* An operator Wrong_X is no part of the specification: it is X with a plausible
\* bug, and a property that is listed for it fails when it takes X's place.

-----------------------------------------------------------------------------
(***************************************************************************)
(* The client, the other end, and the k8s streaming server in between.     *)
(***************************************************************************)
over(d) ==
  IF d = "out" /\ kind \in Commands THEN program \in {"exited", "reaped"} /\ ~helper ELSE ended[d]

Send(d) ==
  /\ handler \notin {"asked", "prepared"} /\ ~over(d)
  /\ d = "out" /\ kind \in Commands => program # "none"
  /\ sent[d] < MaxChunks
  /\ sent' = [sent EXCEPT ![d] = @ + 1]
  /\ UNCHANGED <<kind, wanted, handler, result, host, ctx, delivered, ended, broken, closed, copier, errCh>>

EndSending(d) ==
  /\ ~ended[d] /\ (d = "in" \/ kind = "forward")
  /\ ended' = [ended EXCEPT ![d] = TRUE]
  /\ UNCHANGED <<kind, wanted, handler, result, host, ctx, sent, delivered, broken, closed, copier, errCh>>

StopReceiving(d) ==
  /\ ~broken[d] /\ kind # "sync"
  /\ broken' = [broken EXCEPT ![d] = TRUE]
  /\ UNCHANGED <<kind, wanted, handler, result, host, ctx, sent, delivered, ended, closed, copier, errCh>>

\* The command ends by itself; nobody reads its input any more.
ProgramExits ==
  /\ program = "alive"
  /\ program' = "exited"
  /\ status' \in {"ok", "failed"}
  /\ broken' = [broken EXCEPT !["in"] = TRUE]
  /\ UNCHANGED <<kind, wanted, handler, result, helper, ctx, sent, delivered, ended, closed, copier, errCh>>

HelperExits ==
  /\ helper
  /\ helper' = FALSE
  /\ UNCHANGED <<kind, wanted, handler, result, program, status, ctx, flow, closed, copier, errCh>>

allClosed == [d \in Direction |-> TRUE]

\* The client follows the URL that it was given.
Connect ==
  /\ handler = "prepared"
  /\ handler' = "start"
  /\ UNCHANGED <<kind, wanted, result, host, ctx, flow, closed, copier, errCh>>

\* Once the handler of a command is done the streaming server closes the
\* client's streams.
ServerCloses ==
  /\ handler \in {"returned", "panicked"} /\ kind \in Commands /\ closed # allClosed
  /\ closed' = allClosed
  /\ UNCHANGED <<kind, wanted, handler, result, host, ctx, flow, copier, errCh>>

-----------------------------------------------------------------------------
(***************************************************************************)
(* io.Copy, in a goroutine per direction: reads a chunk and writes it.     *)
(***************************************************************************)
held(d) == IF copier[d] = "write" THEN 1 ELSE 0

CopyRead(d) ==
  /\ copier[d] = "read" /\ ~closed[d]
  /\ sent[d] > delivered[d]
  /\ copier' = [copier EXCEPT ![d] = "write"]
  /\ UNCHANGED <<kind, wanted, handler, result, host, ctx, flow, closed, errCh>>

CopyWrite(d) ==
  /\ copier[d] = "write" /\ ~closed[d] /\ ~broken[d]
  /\ delivered' = [delivered EXCEPT ![d] = @ + 1]
  /\ copier' = [copier EXCEPT ![d] = "read"]
  /\ UNCHANGED <<kind, wanted, handler, result, host, ctx, sent, ended, broken, closed, errCh>>

\* What Copy returns.  os/exec takes a command that stopped reading its input
\* for no error.
copyEnds(d) == copier[d] = "read" /\ sent[d] = delivered[d] /\ over(d)
copyFails(d) == copier[d] \in {"read", "write"} /\ (closed[d] \/ (copier[d] = "write" /\ broken[d]))
copyError(d) ==
  IF copyFails(d) /\ ~(kind = "exec" /\ d = "in") THEN "error" ELSE "nil"

\* errCh holds the errors of both copiers of a forwarded port.
errChCapacity == 2

CopyReturns(d) ==
  /\ copyEnds(d) \/ copyFails(d)
  /\ kind = "forward" => Len(errCh) < errChCapacity
  /\ errCh' = IF kind = "forward" THEN Append(errCh, copyError(d)) ELSE errCh
  /\ copier' = [copier EXCEPT ![d] = copyError(d)]
  /\ UNCHANGED <<kind, wanted, handler, result, host, ctx, flow, closed>>

ceased(d) == copier[d] \in {"none", "nil", "error"}
startCopiers == copier' = [d \in Direction |-> IF d \in wanted THEN "read" ELSE "none"]

-----------------------------------------------------------------------------
(***************************************************************************)
(* Exec, Attach and PortForward prepare an endpoint that the client then   *)
(* connects to; ExecSync runs its command at once.                         *)
(***************************************************************************)
Prepare ==
  /\ handler = "asked"
  /\ handler' = IF kind = "sync" THEN "start" ELSE "prepared"
  /\ UNCHANGED <<kind, wanted, result, host, ctx, flow, closed, copier, errCh>>

Return(r) == handler' = "returned" /\ result' = r

\* Attach; no command; the command or the connection cannot be started.
StartFails ==
  /\ handler = "start"
  /\ Return(IF ctx = "expired" THEN "timeout" ELSE "error")
  /\ UNCHANGED <<kind, wanted, host, ctx, flow, closed, copier, errCh>>

\* ttyCmd defers the close of a stdout that it only later compares with nil.
Start ==
  /\ handler = "start" /\ kind \in Commands /\ ctx = "live"
  /\ program' = "alive" /\ helper' \in BOOLEAN
  /\ IF kind = "tty" /\ "out" \notin wanted
     THEN handler' = "panicked" /\ UNCHANGED copier
     ELSE handler' = "wait" /\ startCopiers
  /\ UNCHANGED <<kind, wanted, result, status, ctx, flow, closed, errCh>>

\* Wait: the program has exited, and its output has been copied.  ttyCmd, whose
\* copiers Wait does not know, returns at once.
Wrong_Reap ==
  /\ handler = "wait" /\ program = "exited"
  /\ program' = "reaped"
  /\ Return(IF status = "ok" THEN "nil" ELSE "error")
  /\ UNCHANGED <<kind, wanted, status, helper, ctx, flow, closed, copier, errCh>>

Wrong_ReapTty ==
  /\ handler = "wait" /\ program = "exited"
  /\ program' = "reaped"
  /\ handler' = "copied"
  /\ UNCHANGED <<kind, wanted, result, status, helper, ctx, flow, closed, copier, errCh>>

Reap ==
  /\ handler = "wait" /\ program = "exited"
  /\ program' = "reaped"
  /\ IF kind = "tty"
     THEN /\ Return(IF status = "ok" THEN "nil" ELSE "error")
          /\ closed' = [closed EXCEPT !["out"] = TRUE]
     ELSE handler' = "copied" /\ UNCHANGED <<result, closed>>
  /\ UNCHANGED <<kind, wanted, status, helper, ctx, flow, copier, errCh>>

commandError == IF status = "ok" /\ \A d \in Direction : copier[d] # "error" THEN "nil" ELSE "error"

Copied ==
  /\ handler = "copied"
  /\ \A d \in Direction : ceased(d)
  /\ Return(IF ctx = "expired" THEN "timeout" ELSE commandError)
  /\ UNCHANGED <<kind, wanted, host, ctx, flow, closed, copier, errCh>>

\* ExecSync's timeout or the client's deadline passes, or the client cancels.
Wrong_ContextEnds ==
  /\ kind = "sync" /\ handler \in {"start", "wait", "copied"} /\ ctx = "live"
  /\ ctx' = "expired"
  /\ Return("timeout")
  /\ UNCHANGED <<kind, wanted, host, flow, closed, copier, errCh>>

ContextEnds ==
  /\ kind = "sync" /\ handler \in {"start", "wait", "copied"} /\ ctx = "live"
  /\ ctx' \in {"expired", "cancelled"}
  /\ UNCHANGED <<kind, wanted, handler, result, host, flow, closed, copier, errCh>>

\* exec.CommandContext then kills the program, though not its descendants.
Wrong_ContextKills ==
  /\ kind = "sync" /\ handler = "wait" /\ ctx = "cancelled" /\ program = "alive"
  /\ program' = "exited" /\ status' = "killed"
  /\ broken' = [broken EXCEPT !["in"] = TRUE]
  /\ UNCHANGED <<kind, wanted, handler, result, helper, ctx, sent, delivered, ended, closed, copier, errCh>>

ContextKills ==
  /\ kind = "sync" /\ handler = "wait" /\ ctx # "live" /\ program = "alive"
  /\ program' = "exited" /\ status' = "killed"
  /\ broken' = [broken EXCEPT !["in"] = TRUE]
  /\ UNCHANGED <<kind, wanted, handler, result, helper, ctx, sent, delivered, ended, closed, copier, errCh>>

-----------------------------------------------------------------------------
(***************************************************************************)
(* handlePortForward: waits for one direction to end, and one second more  *)
(* for the other.  Its context is TODO, which never ends.                  *)
(***************************************************************************)
Dial ==
  /\ handler = "start" /\ kind = "forward"
  /\ handler' = "first"
  /\ startCopiers
  /\ UNCHANGED <<kind, wanted, result, host, ctx, flow, closed, errCh>>

First ==
  /\ handler = "first" /\ errCh # <<>>
  /\ result' = Head(errCh) /\ errCh' = Tail(errCh)
  /\ handler' = "second"
  /\ UNCHANGED <<kind, wanted, host, ctx, flow, closed, copier>>

Wrong_errFwd(first, second) == first
errFwd(first, second) == IF first = "nil" THEN second ELSE first

\* Both returns close the connection to the port and the client's stream.
Second ==
  /\ handler = "second" /\ errCh # <<>>
  /\ Return(errFwd(result, Head(errCh))) /\ errCh' = Tail(errCh)
  /\ closed' = allClosed
  /\ UNCHANGED <<kind, wanted, host, ctx, flow, copier>>

Wrong_SecondTimeout ==
  /\ handler = "second"
  /\ Return(result)
  /\ UNCHANGED <<kind, wanted, host, ctx, flow, closed, copier, errCh>>

SecondTimeout ==
  /\ handler = "second"
  /\ Return(result)
  /\ closed' = allClosed
  /\ UNCHANGED <<kind, wanted, host, ctx, flow, copier, errCh>>

-----------------------------------------------------------------------------
Copier(d) == CopyRead(d) \/ CopyWrite(d) \/ CopyReturns(d)
Handler == Prepare \/ StartFails \/ Start \/ Reap \/ Copied \/ Dial \/ First \/ Second

Next ==
  \/ \E d \in Direction : Send(d) \/ EndSending(d) \/ StopReceiving(d) \/ Copier(d)
  \/ ProgramExits \/ HelperExits \/ Connect \/ ServerCloses
  \/ Handler \/ SecondTimeout
  \/ ContextEnds \/ ContextKills

(***************************************************************************)
(* Goroutines are scheduled, the timeout of one second fires and the       *)
(* server closes the connection of a handler that is done.  No end of a    *)
(* session has to send, to receive, to close or to exit.                   *)
(***************************************************************************)
Fairness ==
  /\ WF_vars(Handler) /\ WF_vars(SecondTimeout) /\ WF_vars(ContextKills) /\ WF_vars(ServerCloses)
  /\ \A d \in Direction : WF_vars(Copier(d))

Spec == Init /\ [][Next]_vars
FairSpec == Spec /\ Fairness

-----------------------------------------------------------------------------
\* The session's parts are of their types, and no chunk is delivered that was
\* not sent.
TypeOK ==
  /\ kind \in Kind /\ wanted \in SUBSET Direction
  /\ handler \in {"asked", "prepared", "start", "wait", "copied", "first", "second",
                  "returned", "panicked"}
  /\ result \in {"none", "nil", "error", "timeout"}
  /\ program \in {"none", "alive", "exited", "reaped"}
  /\ status \in {"ok", "failed", "killed"} /\ helper \in BOOLEAN
  /\ ctx \in {"live", "expired", "cancelled"}
  /\ sent \in [Direction -> Nat] /\ delivered \in [Direction -> Nat]
  /\ \A d \in Direction : delivered[d] + held(d) <= sent[d]
  /\ ended \in [Direction -> BOOLEAN] /\ broken \in [Direction -> BOOLEAN]
  /\ closed \in [Direction -> BOOLEAN]
  /\ copier \in [Direction -> {"none", "read", "write", "nil", "error"}]
  /\ errCh \in Seq({"nil", "error"}) /\ Len(errCh) <= 2

complete(d) == over(d) /\ delivered[d] = sent[d]

\* A command that Exec without a terminal or ExecSync reports as successful has
\* ended with status 0, and all that it and its descendants wrote was delivered.
SuccessIsComplete ==
  handler = "returned" /\ kind \in {"exec", "sync"} /\ result = "nil" =>
    /\ status = "ok" /\ program = "reaped"
    /\ "out" \in wanted => complete("out")

\* A forwarded port that ends without an error has carried all of at least one
\* direction, and all of both when both had ended before the handler returned.
ForwardIsComplete ==
  handler = "returned" /\ kind = "forward" /\ result = "nil" =>
    /\ \E d \in Direction : complete(d)
    /\ (\A d \in Direction : ceased(d)) /\ errCh = <<>> => \A d \in Direction : complete(d)

\* Except by the panic, no handler leaves a command behind that it has not
\* waited for, however its timeout, the client and the copiers race.
ReturnedIsReaped == handler = "returned" => program \in {"none", "reaped"}

-----------------------------------------------------------------------------
\* When the handler has nothing to wait for any more: a terminal's program has
\* exited; without a terminal its output and the client's input must be closed
\* too; ExecSync has timed out and no descendant holds the output; one
\* direction of a forwarded port has ended.
nothingLeft ==
  CASE kind = "tty" -> program = "exited" /\ handler # "panicked"
    [] kind = "exec" -> program = "exited" /\ ~helper /\ ("in" \in wanted => ended["in"])
    [] kind = "sync" -> program # "none" /\ ctx # "live" /\ ~helper
    [] kind = "forward" -> \E d \in Direction : copier[d] \in {"nil", "error"}
    [] OTHER -> FALSE

\* The handler then returns.
SessionEnds == nothingLeft ~> handler = "returned"

\* No copier outlives its session: what it may be blocked on is closed, and
\* errCh has room for it.
CopiersEnd == handler \in {"returned", "panicked"} ~> \A d \in Direction : ceased(d)

\* A command that ran out of its time is killed, even when a descendant keeps
\* ExecSync from returning.
ExpiredIsKilled == kind = "sync" /\ program = "alive" /\ ctx # "live" ~> program # "alive"
=============================================================================
