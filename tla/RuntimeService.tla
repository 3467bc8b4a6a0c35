--------------------------- MODULE RuntimeService ---------------------------
(***************************************************************************)
(* ProCRI's RuntimeService (procri/pkg/runtimeservice): pod sandboxes and  *)
(* containers kept as JSON records in a key-value store, and one host      *)
(* process per started container.                                          *)
(*                                                                         *)
(* gRPC runs every request in a goroutine of its own and no handler takes  *)
(* a lock.  The unit of atomicity is one access to the store or one system *)
(* call, so a handler is a program counter over steps, each of which is    *)
(* one such access; everything it read earlier is a local snapshot in its  *)
(* call record.  Besides the requests there is one goroutine per started   *)
(* process, trackContainerProcess, which writes the exit back.             *)
(*                                                                         *)
(* Abstracted: names, labels, log paths, timestamps, exit codes and the    *)
(* environment are dropped from the records; time is dropped (module       *)
(* GraceTimer has it); a process is its main program plus at most one      *)
(* helper, a descendant in its group that holds the output pipes open.     *)
(***************************************************************************)
EXTENDS Naturals, SequencesExt

CONSTANTS
  Rpc,     \* requests that can be in flight at once
  Pod,     \* pod identities, namespace_name
  Cid,     \* container ids xid.New() can return; bounds CreateContainer
  Pid,     \* process ids; bounds the processes that are ever spawned
  Nil,     \* Go's nil, returned by getContainer and getSandbox
  Faults   \* what the environment may do, a subset of FaultKinds

(***************************************************************************)
(* "deadline": the client's context of a request may end while it waits.   *)
(* "helper":   a container may leave a descendant that outlives it.        *)
(* "logpipe":  the log file of a container may fail to open.               *)
(* "store":    a write or an erase of the store may fail.                  *)
(* "again":    StartContainer may be called again for the same container.  *)
(* "crash":    procri may be killed and started again.                     *)
(***************************************************************************)
FaultKinds == {"deadline", "helper", "logpipe", "store", "again", "crash"}

ASSUME FaultsAssumption == Faults \subseteq FaultKinds
ASSUME PidAssumption == 0 \notin Pid

Container == [pod: Pod, state: {"CREATED", "RUNNING", "EXITED"}, pid: Pid \cup {0}]
Sandbox == [state: {"READY", "NOTREADY"}, containers: Seq(Cid)]

ASSUME NilAssumption ==
  /\ Nil \notin Container
  /\ Nil \notin Sandbox
  /\ Nil \notin Pod \cup Cid

VARIABLES
  containers,   \* the store's container/cnt_<id> records, Nil when absent
  sandboxes,    \* the store's sandbox/sb_<id> records, Nil when absent
  procs,        \* the host's processes
  trackers,     \* the trackContainerProcess goroutine of each process
  calls,        \* the requests in flight
  used          \* container ids handed out so far

vars == <<containers, sandboxes, procs, trackers, calls, used>>
store == <<containers, sandboxes>>
host == <<procs, trackers>>

PodOps == {"StopPodSandbox", "RemovePodSandbox"}
Ops == PodOps \cup {"none", "RunPodSandbox", "CreateContainer", "StartContainer",
                    "StopContainer", "RemoveContainer"}
Pcs == {"idle", "ok", "error", "run_put", "create_putc", "create_puts",
        "start_spawn", "start_put", "kill", "wait",
        "remove_read", "remove_put", "remove_delete",
        "pod_next", "pod_delete", "pod_put", "pod_erase"}

Process ==
  [main: {"unborn", "alive", "zombie", "reaped"},  \* of the main program
   helper: BOOLEAN,        \* a descendant still holds stdout or stderr open
   cid: Cid \cup {Nil}]    \* the container it was spawned for

\* When procri crashes a tracker is lost, and a process that had none yet is
\* an orphan; both processes are launchd's children from then on.
Adopted == {"lost", "orphan"}
Tracker ==
  [pc: Adopted \cup {"none", "wait", "read", "write", "done"}, cnt: Container \cup {Nil}]

Call ==
  [op: Ops, pc: Pcs, pod: Pod \cup {Nil}, cid: Cid \cup {Nil},
   cnt: Container \cup {Nil}, sb: Sandbox \cup {Nil}, grace: BOOLEAN]

NoCall == [op |-> "none", pc |-> "idle", pod |-> Nil, cid |-> Nil,
           cnt |-> Nil, sb |-> Nil, grace |-> FALSE]
Unborn == [main |-> "unborn", helper |-> FALSE, cid |-> Nil]
Untracked == [pc |-> "none", cnt |-> Nil]

Init ==
  /\ containers = [c \in Cid |-> Nil]
  /\ sandboxes = [p \in Pod |-> Nil]
  /\ procs = [p \in Pid |-> Unborn]
  /\ trackers = [p \in Pid |-> Untracked]
  /\ calls = [r \in Rpc |-> NoCall]
  /\ used = {}

\* An operator Wrong_X is no part of the specification: it is X with a plausible
\* bug, and a property that is listed for it fails when it takes X's place.

-----------------------------------------------------------------------------
(***************************************************************************)
(* The store.  putContainer, putSandbox, deleteContainer and deleteSandbox *)
(* only log an error: their callers go on as if the access had succeeded.  *)
(***************************************************************************)
putContainer(c, cnt) ==
  \/ containers' = [containers EXCEPT ![c] = cnt]
  \/ "store" \in Faults /\ UNCHANGED containers

putSandbox(p, sb) ==
  \/ sandboxes' = [sandboxes EXCEPT ![p] = sb]
  \/ "store" \in Faults /\ UNCHANGED sandboxes

deleteContainer(c) ==
  \/ containers' = [containers EXCEPT ![c] = Nil]
  \/ "store" \in Faults /\ UNCHANGED containers

deleteSandbox(p) ==
  \/ sandboxes' = [sandboxes EXCEPT ![p] = Nil]
  \/ "store" \in Faults /\ UNCHANGED sandboxes

\* Request r arrives and its handler takes its first step, leaving call.
Arrive(r, call) ==
  /\ calls[r].pc = "idle"
  /\ calls' = [calls EXCEPT ![r] = call]

At(r, pc) == calls[r].pc = pc
Goto(r, pc) == calls' = [calls EXCEPT ![r].pc = pc]

\* The response reaches the client.
Reply(r) ==
  /\ calls[r].pc \in {"ok", "error"}
  /\ calls' = [calls EXCEPT ![r] = NoCall]
  /\ UNCHANGED <<store, host, used>>

-----------------------------------------------------------------------------
(***************************************************************************)
(* RunPodSandbox: refuses a pod that has a record, else writes a new one.  *)
(***************************************************************************)
RunPodSandbox(r, p) ==
  /\ Arrive(r, [NoCall EXCEPT !.op = "RunPodSandbox", !.pod = p,
                              !.pc = IF sandboxes[p] = Nil THEN "run_put" ELSE "error"])
  /\ UNCHANGED <<store, host, used>>

RunPut(r) ==
  /\ At(r, "run_put")
  /\ putSandbox(calls[r].pod, [state |-> "READY", containers |-> <<>>])
  /\ Goto(r, "ok")
  /\ UNCHANGED <<containers, host, used>>

-----------------------------------------------------------------------------
(***************************************************************************)
(* CreateContainer: reads the sandbox, writes the container record and     *)
(* then the sandbox record it read with the new id appended.               *)
(***************************************************************************)
Wrong_isReady(sb) == sb # Nil
isReady(sb) == sb # Nil /\ sb.state = "READY"

CreateContainer(r, p) ==
  /\ \/ /\ ~isReady(sandboxes[p])
        /\ Arrive(r, [NoCall EXCEPT !.op = "CreateContainer", !.pod = p, !.pc = "error"])
        /\ UNCHANGED used
     \/ /\ isReady(sandboxes[p])
        /\ \E c \in Cid \ used :
             /\ used' = used \cup {c}
             /\ Arrive(r, [NoCall EXCEPT !.op = "CreateContainer", !.pod = p,
                                         !.cid = c, !.pc = "create_putc",
                                         !.sb = [sandboxes[p] EXCEPT !.containers = Append(@, c)]])
  /\ UNCHANGED <<store, host>>

CreatePutContainer(r) ==
  /\ At(r, "create_putc")
  /\ putContainer(calls[r].cid, [pod |-> calls[r].pod, state |-> "CREATED", pid |-> 0])
  /\ Goto(r, "create_puts")
  /\ UNCHANGED <<sandboxes, host, used>>

CreatePutSandbox(r) ==
  /\ At(r, "create_puts")
  /\ putSandbox(calls[r].pod, calls[r].sb)
  /\ Goto(r, "ok")
  /\ UNCHANGED <<containers, host, used>>

-----------------------------------------------------------------------------
(***************************************************************************)
(* StartContainer: spawns the command in a process group of its own,       *)
(* writes pid and RUNNING into the record it read, and starts the tracker. *)
(***************************************************************************)
firstStart(c) ==
  /\ \A p \in Pid : procs[p].cid # c
  /\ \A r \in Rpc : calls[r].op = "StartContainer" => calls[r].cid # c

StartContainer(r, c) ==
  /\ "again" \in Faults \/ firstStart(c)
  /\ Arrive(r, [NoCall EXCEPT !.op = "StartContainer", !.cid = c, !.cnt = containers[c],
                              !.pc = IF containers[c] = Nil THEN "error" ELSE "start_spawn"])
  /\ UNCHANGED <<store, host, used>>

\* No command, a pipe or pty.Start fails: nothing was spawned.
StartFails(r) ==
  /\ At(r, "start_spawn")
  /\ Goto(r, "error")
  /\ UNCHANGED <<store, host, used>>

\* pty.Start succeeds; then NewLogPipe succeeds, or the call fails and the
\* process is left as it is.
StartSpawn(r) ==
  /\ At(r, "start_spawn")
  /\ \E p \in Pid, h \in BOOLEAN :
       /\ procs[p].main = "unborn"
       /\ h => "helper" \in Faults
       /\ procs' = [procs EXCEPT ![p] = [main |-> "alive", helper |-> h, cid |-> calls[r].cid]]
       /\ \/ calls' = [calls EXCEPT ![r] = [@ EXCEPT !.pc = "start_put", !.cnt.pid = p,
                                                     !.cnt.state = "RUNNING"]]
          \/ "logpipe" \in Faults /\ Goto(r, "error")
  /\ UNCHANGED <<store, trackers, used>>

Wrong_StartPut(r) ==
  /\ At(r, "start_put")
  /\ putContainer(calls[r].cid, calls[r].cnt)
  /\ Goto(r, "ok")
  /\ UNCHANGED <<sandboxes, procs, trackers, used>>

StartPut(r) ==
  /\ At(r, "start_put")
  /\ putContainer(calls[r].cid, calls[r].cnt)
  /\ trackers' = [trackers EXCEPT ![calls[r].cnt.pid].pc = "wait"]
  /\ Goto(r, "ok")
  /\ UNCHANGED <<sandboxes, procs, used>>

-----------------------------------------------------------------------------
(***************************************************************************)
(* terminateContainer, called by StopContainer, RemoveContainer and for    *)
(* each container of a sandbox.  It works on the record cnt its caller     *)
(* read.  Where it goes first, and where its caller goes on when it        *)
(* returns nil:                                                            *)
(***************************************************************************)
afterTerminate(op) ==
  CASE op = "StopContainer" -> "ok"
    [] op = "RemoveContainer" -> "remove_delete"
    [] OTHER -> "pod_delete"

terminateContainer(op, cnt) ==
  CASE cnt.state # "RUNNING" -> afterTerminate(op)
    [] cnt.state = "RUNNING" /\ cnt.pid = 0 -> "error"
    [] OTHER -> "kill"

\* The SIGTERM reaches the group.  It cannot once the main program has been
\* reaped; a zombie may or may not still have a group to find.  Whether and
\* when the group acts on it is up to MainExits and HelperExits.
Kill(r) ==
  /\ At(r, "kill")
  /\ procs[calls[r].cnt.pid].main \in {"alive", "zombie"}
  /\ Goto(r, "wait")
  /\ UNCHANGED <<store, host, used>>

\* The SIGTERM fails: the process is taken to be gone.
KillFails(r) ==
  /\ At(r, "kill")
  /\ procs[calls[r].cnt.pid].main \in {"zombie", "reaped"}
  /\ Goto(r, afterTerminate(calls[r].op))
  /\ UNCHANGED <<store, host, used>>

\* One 500 ms tick that finds the record gone or no longer RUNNING.  A tick
\* that finds it RUNNING changes nothing and is a stuttering step.
Wrong_stillRunning(cnt) == FALSE
stillRunning(cnt) == cnt # Nil /\ cnt.state = "RUNNING"

WaitTick(r) ==
  /\ At(r, "wait")
  /\ ~stillRunning(containers[calls[r].cid])
  /\ Goto(r, afterTerminate(calls[r].op))
  /\ UNCHANGED <<store, host, used>>

\* A program that ends stays a zombie until its tracker waits for it; one that
\* outlived a crash of procri is reaped by launchd.
dead(p) == IF trackers[p].pc \in Adopted THEN "reaped" ELSE "zombie"

\* proc.Signal(SIGKILL): the main program only, not its group.
Wrong_SigKill(p) == UNCHANGED procs
SigKill(p) ==
  procs' = [procs EXCEPT ![p].main = IF @ = "alive" THEN dead(p) ELSE @]

WaitTimeout(r) ==
  /\ At(r, "wait")
  /\ SigKill(calls[r].cnt.pid)
  /\ Goto(r, afterTerminate(calls[r].op))
  /\ UNCHANGED <<store, trackers, used>>

\* ctx.Done(): the client gave up, the call fails.
Wrong_WaitCancelled(r) ==
  /\ At(r, "wait")
  /\ "deadline" \in Faults
  /\ Goto(r, "error")
  /\ UNCHANGED <<store, host, used>>

WaitCancelled(r) ==
  /\ At(r, "wait")
  /\ "deadline" \in Faults
  /\ SigKill(calls[r].cnt.pid)
  /\ Goto(r, "error")
  /\ UNCHANGED <<store, trackers, used>>

-----------------------------------------------------------------------------
\* StopContainer with a grace period of zero (grace = FALSE) or more seconds.
StopContainer(r, c, grace) ==
  /\ Arrive(r, [NoCall EXCEPT !.op = "StopContainer", !.cid = c, !.cnt = containers[c],
                              !.grace = grace,
                              !.pc = IF containers[c] = Nil THEN "error"
                                     ELSE terminateContainer("StopContainer", containers[c])])
  /\ UNCHANGED <<store, host, used>>

(***************************************************************************)
(* RemoveContainer: takes the id out of the sandbox record, terminates     *)
(* with a grace period of zero, erases the container record.               *)
(***************************************************************************)
RemoveContainer(r, c) ==
  /\ Arrive(r, [NoCall EXCEPT !.op = "RemoveContainer", !.cid = c, !.cnt = containers[c],
                              !.pc = IF containers[c] = Nil THEN "ok" ELSE "remove_read"])
  /\ UNCHANGED <<store, host, used>>

listed(sb, c) == sb # Nil /\ Contains(sb.containers, c)

RemoveReadSandbox(r) ==
  LET c == calls[r].cid
      sb == sandboxes[calls[r].cnt.pod]
  IN
  /\ At(r, "remove_read")
  /\ \/ /\ ~listed(sb, c)
        /\ Goto(r, terminateContainer("RemoveContainer", calls[r].cnt))
     \/ /\ listed(sb, c)
        /\ \E i \in DOMAIN sb.containers :
             /\ sb.containers[i] = c
             /\ \A j \in 1..(i - 1) : sb.containers[j] # c
             /\ calls' = [calls EXCEPT ![r] = [@ EXCEPT !.pc = "remove_put",
                            !.sb = [sb EXCEPT !.containers = RemoveAt(@, i)]]]
  /\ UNCHANGED <<store, host, used>>

RemovePutSandbox(r) ==
  /\ At(r, "remove_put")
  /\ putSandbox(calls[r].cnt.pod, calls[r].sb)
  /\ Goto(r, terminateContainer("RemoveContainer", calls[r].cnt))
  /\ UNCHANGED <<containers, host, used>>

RemoveDelete(r) ==
  /\ At(r, "remove_delete")
  /\ deleteContainer(calls[r].cid)
  /\ Goto(r, "ok")
  /\ UNCHANGED <<sandboxes, host, used>>

-----------------------------------------------------------------------------
(***************************************************************************)
(* StopPodSandbox and RemovePodSandbox, which share                        *)
(* terminateSandboxContainers: one container after the other is            *)
(* terminated, erased and taken off the list in the sandbox record, which  *)
(* is the snapshot read at the start; the emptied sandbox is NOTREADY.     *)
(* Removing (force) gives no grace and erases the record at the end.       *)
(***************************************************************************)
EndPodSandbox(r, p, op) ==
  /\ Arrive(r, [NoCall EXCEPT !.op = op, !.pod = p, !.sb = sandboxes[p],
                              !.grace = (op = "StopPodSandbox"),
                              !.pc = IF sandboxes[p] = Nil THEN "ok" ELSE "pod_next"])
  /\ UNCHANGED <<store, host, used>>

PodNext(r) ==
  LET c == Head(calls[r].sb.containers) IN
  /\ At(r, "pod_next")
  /\ calls[r].sb.containers # <<>>
  /\ calls' = [calls EXCEPT ![r] =
                 [@ EXCEPT !.cid = c, !.cnt = containers[c],
                           !.pc = IF containers[c] = Nil THEN "pod_put"
                                  ELSE terminateContainer(calls[r].op, containers[c])]]
  /\ UNCHANGED <<store, host, used>>

PodDelete(r) ==
  /\ At(r, "pod_delete")
  /\ deleteContainer(calls[r].cid)
  /\ Goto(r, "pod_put")
  /\ UNCHANGED <<sandboxes, host, used>>

Wrong_PodPut(r) ==
  /\ At(r, "pod_put")
  /\ putSandbox(calls[r].pod, calls[r].sb)
  /\ Goto(r, "pod_next")
  /\ UNCHANGED <<containers, host, used>>

PodPut(r) ==
  LET sb == [calls[r].sb EXCEPT !.containers = Tail(@)] IN
  /\ At(r, "pod_put")
  /\ putSandbox(calls[r].pod, sb)
  /\ calls' = [calls EXCEPT ![r] = [@ EXCEPT !.sb = sb, !.pc = "pod_next"]]
  /\ UNCHANGED <<containers, host, used>>

PodFinish(r) ==
  /\ At(r, "pod_next")
  /\ calls[r].sb.containers = <<>>
  /\ putSandbox(calls[r].pod, [calls[r].sb EXCEPT !.state = "NOTREADY"])
  /\ Goto(r, IF calls[r].op = "StopPodSandbox" THEN "ok" ELSE "pod_erase")
  /\ UNCHANGED <<containers, host, used>>

PodErase(r) ==
  /\ At(r, "pod_erase")
  /\ deleteSandbox(calls[r].pod)
  /\ Goto(r, "ok")
  /\ UNCHANGED <<containers, host, used>>

-----------------------------------------------------------------------------
(***************************************************************************)
(* trackContainerProcess: waits until both output pipes are at end of file *)
(* and the main program has exited, then reads the record, checks that it  *)
(* is still about this process, and writes it back as EXITED.              *)
(***************************************************************************)
Wrong_TrackerWait(p) ==
  /\ trackers[p].pc = "wait" /\ procs[p].main = "zombie"
  /\ procs' = [procs EXCEPT ![p].main = "reaped"]
  /\ trackers' = [trackers EXCEPT ![p].pc = "read"]
  /\ UNCHANGED <<store, calls, used>>

TrackerWait(p) ==
  /\ trackers[p].pc = "wait"
  /\ procs[p].main = "zombie" /\ ~procs[p].helper
  /\ procs' = [procs EXCEPT ![p].main = "reaped"]
  /\ trackers' = [trackers EXCEPT ![p].pc = "read"]
  /\ UNCHANGED <<store, calls, used>>

Wrong_ownedBy(cnt, p) == cnt # Nil
ownedBy(cnt, p) == cnt # Nil /\ cnt.pid = p

TrackerRead(p) ==
  LET cnt == containers[procs[p].cid] IN
  /\ trackers[p].pc = "read"
  /\ trackers' = [trackers EXCEPT ![p] = IF ownedBy(cnt, p)
                                         THEN [pc |-> "write", cnt |-> cnt]
                                         ELSE [pc |-> "done", cnt |-> Nil]]
  /\ UNCHANGED <<store, procs, calls, used>>

Wrong_exited(cnt) == [cnt EXCEPT !.state = "UNKNOWN"]
exited(cnt) == [cnt EXCEPT !.state = "EXITED"]

TrackerWrite(p) ==
  /\ trackers[p].pc = "write"
  /\ putContainer(procs[p].cid, exited(trackers[p].cnt))
  /\ trackers' = [trackers EXCEPT ![p] = [pc |-> "done", cnt |-> Nil]]
  /\ UNCHANGED <<sandboxes, procs, calls, used>>

\* The program ends by itself, from a signal it was sent, or crashes.
MainExits(p) ==
  /\ procs[p].main = "alive"
  /\ procs' = [procs EXCEPT ![p].main = dead(p)]
  /\ UNCHANGED <<store, trackers, calls, used>>

HelperExits(p) ==
  /\ procs[p].helper
  /\ procs' = [procs EXCEPT ![p].helper = FALSE]
  /\ UNCHANGED <<store, trackers, calls, used>>

-----------------------------------------------------------------------------
(***************************************************************************)
(* procri dies and is started again.  The requests in flight and the       *)
(* trackers are gone, NewRuntimeService rebuilds nothing from the store,   *)
(* and the processes live on as launchd's children.  A record that was     *)
(* being written may be torn, and a torn record reads as none.             *)
(***************************************************************************)
containersBeingWritten ==
  {calls[r].cid : r \in {s \in Rpc : calls[s].pc \in {"create_putc", "start_put"}}}
    \cup {procs[p].cid : p \in {q \in Pid : trackers[q].pc = "write"}}

sandboxesBeingWritten ==
  {calls[r].pod : r \in {s \in Rpc :
       \/ calls[s].pc \in {"run_put", "create_puts", "pod_put"}
       \/ calls[s].pc = "pod_next" /\ calls[s].sb.containers = <<>>}}
    \cup {calls[r].cnt.pod : r \in {s \in Rpc : calls[s].pc = "remove_put"}}

adopted(p) ==
  CASE procs[p].main = "unborn" -> trackers[p]
    [] procs[p].main # "unborn" /\ trackers[p].pc \in {"none", "orphan"} -> [pc |-> "orphan", cnt |-> Nil]
    [] OTHER -> [pc |-> "lost", cnt |-> Nil]

Crash ==
  /\ "crash" \in Faults
  /\ \E torn \in SUBSET containersBeingWritten :
       containers' = [c \in Cid |-> IF c \in torn THEN Nil ELSE containers[c]]
  /\ \E torn \in SUBSET sandboxesBeingWritten :
       sandboxes' = [p \in Pod |-> IF p \in torn THEN Nil ELSE sandboxes[p]]
  /\ procs' = [p \in Pid |-> [procs[p] EXCEPT !.main = IF @ = "zombie" THEN "reaped" ELSE @]]
  /\ trackers' = [p \in Pid |-> adopted(p)]
  /\ calls' = [r \in Rpc |-> NoCall]
  /\ UNCHANGED used

-----------------------------------------------------------------------------
\* A request arrives: kubelet may send any of them, at any time, about any id.
Request(r) ==
  \/ \E p \in Pod :
       \/ RunPodSandbox(r, p)
       \/ CreateContainer(r, p)
       \/ \E op \in PodOps : EndPodSandbox(r, p, op)
  \/ \E c \in used :
       \/ StartContainer(r, c)
       \/ RemoveContainer(r, c)
       \/ \E grace \in BOOLEAN : StopContainer(r, c, grace)

\* The steps a handler goroutine takes by itself once it is scheduled.
HandlerStep(r) ==
  \/ RunPut(r)
  \/ CreatePutContainer(r) \/ CreatePutSandbox(r)
  \/ StartFails(r) \/ StartSpawn(r) \/ StartPut(r)
  \/ Kill(r) \/ KillFails(r) \/ WaitTick(r)
  \/ RemoveReadSandbox(r) \/ RemovePutSandbox(r) \/ RemoveDelete(r)
  \/ PodNext(r) \/ PodDelete(r) \/ PodPut(r) \/ PodFinish(r) \/ PodErase(r)
  \/ Reply(r)

TrackerStep(p) == TrackerWait(p) \/ TrackerRead(p) \/ TrackerWrite(p)

Next ==
  \/ \E r \in Rpc : Request(r) \/ HandlerStep(r) \/ WaitTimeout(r) \/ WaitCancelled(r)
  \/ \E p \in Pid : TrackerStep(p) \/ MainExits(p) \/ HelperExits(p)
  \/ Crash

(***************************************************************************)
(* Goroutines are scheduled, a context that has a deadline ends, and a     *)
(* grace period of zero runs out.  Nothing makes a program or a helper     *)
(* exit, and nothing makes a positive grace period run out: the select     *)
(* loop re-arms it on every tick (module GraceTimer).                      *)
(***************************************************************************)
Fairness ==
  /\ \A r \in Rpc :
       /\ WF_vars(HandlerStep(r))
       /\ WF_vars(WaitCancelled(r))
       /\ WF_vars(~calls[r].grace /\ WaitTimeout(r))
  /\ \A p \in Pid : WF_vars(TrackerStep(p))

Spec == Init /\ [][Next]_vars
FairSpec == Spec /\ Fairness

-----------------------------------------------------------------------------
(***************************************************************************)
(* Properties of every interleaving of any number of requests.             *)
(***************************************************************************)

\* The store, the process table, the trackers and the calls hold values of
\* their types.
TypeOK ==
  /\ containers \in [Cid -> Container \cup {Nil}]
  /\ sandboxes \in [Pod -> Sandbox \cup {Nil}]
  /\ procs \in [Pid -> Process]
  /\ trackers \in [Pid -> Tracker]
  /\ calls \in [Rpc -> Call]
  /\ used \subseteq Cid

\* A container is never reported EXITED while its process lives: whatever
\* races with the tracker, an EXITED record names a process that has been
\* waited for and whose output pipes are closed.
ExitedIsReaped ==
  \A c \in Cid :
    containers[c] # Nil /\ containers[c].state = "EXITED"
      => /\ containers[c].pid \in Pid
         /\ procs[containers[c].pid].main = "reaped"
         /\ ~procs[containers[c].pid].helper

\* A container reported RUNNING has a process, and a tracker that has not
\* finished with it: no order of starts, stops, removals and exits leaves a
\* RUNNING record that nobody is going to update.  The one exception is a
\* process whose tracker was lost in a crash.
RunningIsWatched ==
  \A c \in Cid :
    containers[c] # Nil /\ containers[c].state = "RUNNING"
      => /\ containers[c].pid \in Pid
         /\ trackers[containers[c].pid].pc \in {"wait", "read", "write", "lost"}

\* A sandbox that is NOTREADY lists no container: CreateContainer refuses it
\* and no read-modify-write of a sandbox record can add one to it.
NotReadyIsEmpty ==
  \A p \in Pod :
    sandboxes[p] # Nil /\ sandboxes[p].state = "NOTREADY"
      => sandboxes[p].containers = <<>>

-----------------------------------------------------------------------------
(***************************************************************************)
(* What the handlers promise a client that has one request in flight at a  *)
(* time; Rpc is a singleton wherever these are checked.                    *)
(***************************************************************************)
Quiet == \A r \in Rpc : calls[r].pc = "idle"

Returned(r, op, pc) == calls[r].op = op /\ calls[r].pc = pc

\* Between requests no process is lost: a program that is alive belongs to a
\* container whose record is RUNNING with its pid, and which a stored sandbox
\* lists, so that StopPodSandbox and RemovePodSandbox will find it.
NoLeakedProcess ==
  Quiet => \A p \in Pid : procs[p].main = "alive" =>
    LET cnt == containers[procs[p].cid] IN
    /\ ownedBy(cnt, p)
    /\ cnt.state = "RUNNING"
    /\ listed(sandboxes[cnt.pod], procs[p].cid)

\* Once StopContainer has answered, with or without an error, the program it
\* found running is not alive, whatever it did with its SIGTERM.
StopKills ==
  \A r \in Rpc :
    /\ calls[r].op = "StopContainer" /\ calls[r].pc \in {"ok", "error"}
    /\ stillRunning(calls[r].cnt)
    => procs[calls[r].cnt.pid].main # "alive"

\* Between requests, and however often procri has crashed between any two steps,
\* a program that is alive is RUNNING in its container's record with its pid, so
\* that StopContainer of its id reaches it (StopKills).  Only one whose start
\* never came to its tracker can escape: its log file could not be opened, or
\* procri crashed before the record was written.
SurvivesCrash ==
  Quiet => \A p \in Pid :
    procs[p].main = "alive" /\ trackers[p].pc \notin {"none", "orphan"} =>
      LET cnt == containers[procs[p].cid] IN ownedBy(cnt, p) /\ cnt.state = "RUNNING"

-----------------------------------------------------------------------------
(***************************************************************************)
(* Liveness, under FairSpec.                                               *)
(***************************************************************************)

\* Every request is answered, by its deadline at the latest, even when the
\* container ignores SIGTERM and its sandbox has several such containers.
CallsReturn == \A r \in Rpc : calls[r].pc # "idle" ~> calls[r].pc = "idle"

\* Once a program has exited and its pipes are closed, a record that shows
\* it RUNNING is updated or removed.
ExitIsReported ==
  \A c \in Cid, p \in Pid :
    LET shown == ownedBy(containers[c], p) /\ containers[c].state = "RUNNING"
    IN shown /\ procs[p].main # "alive" /\ ~procs[p].helper ~> ~shown

-----------------------------------------------------------------------------
(***************************************************************************)
(* What the comments over the handlers say and the handlers do not do.     *)
(***************************************************************************)

\* podsandbox.go:231: RemovePodSandbox leaves no container of the sandbox.
RemovedPodHasNoContainer ==
  \A r \in Rpc : Returned(r, "RemovePodSandbox", "ok") =>
    \A c \in Cid : containers[c] # Nil => containers[c].pod # calls[r].pod

=============================================================================
