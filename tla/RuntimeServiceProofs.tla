----------------------- MODULE RuntimeServiceProofs -----------------------
(***************************************************************************)
(* RuntimeService for any number of requests, pods, containers, processes  *)
(* and any set of faults.                                                  *)
(***************************************************************************)
EXTENDS RuntimeService, SequenceTheorems, TLAPS

PodPcs == {"pod_next", "pod_delete", "pod_put", "pod_erase"}
CreatePcs == {"create_putc", "create_puts"}
RemovePcs == {"remove_read", "remove_put", "remove_delete"}

\* What the step that a call is about to take may rely on in its locals.
CallShape(call) ==
  /\ call.pc \in {"run_put"} \cup CreatePcs \cup PodPcs => call.pod \in Pod
  /\ call.pc \in CreatePcs \cup RemovePcs \cup {"start_spawn", "start_put", "kill", "wait"}
                 \cup {"pod_delete", "pod_put"}
       => call.cid \in Cid
  /\ call.pc \in RemovePcs \cup {"start_spawn", "start_put", "kill", "wait"}
       => call.cnt \in Container
  /\ call.pc \in {"start_put", "kill", "wait"} => call.cnt.pid \in Pid
  /\ call.pc = "start_put" => call.cnt.state = "RUNNING"
  /\ call.pc \in CreatePcs \cup PodPcs \cup {"remove_put"} => call.sb \in Sandbox
  /\ call.pc \in {"pod_delete", "pod_put"} => call.sb.containers # <<>>
  /\ call.pc \in PodPcs => call.op \in PodOps
  /\ call.pc \in RemovePcs => call.op = "RemoveContainer"
  /\ call.pc \in {"kill", "wait"} =>
       /\ call.op \in PodOps \cup {"StopContainer", "RemoveContainer"}
       /\ call.op \in PodOps => /\ call.pod \in Pod
                                /\ call.sb \in Sandbox
                                /\ call.sb.containers # <<>>

CallsShaped == \A r \in Rpc : CallShape(calls[r])

\* A process that was spawned, and so one that is tracked or that a handler
\* is about to record, belongs to a container.
ProcsOwned ==
  /\ \A p \in Pid : procs[p].main # "unborn" => procs[p].cid \in Cid
  /\ \A p \in Pid : trackers[p].pc # "none" => procs[p].main # "unborn"
  /\ \A p \in Pid : trackers[p].pc = "write" => trackers[p].cnt \in Container
  /\ \A r \in Rpc : calls[r].pc = "start_put"
       => /\ procs[calls[r].cnt.pid].main # "unborn"
          /\ procs[calls[r].cnt.pid].cid = calls[r].cid

TypeInv == TypeOK /\ CallsShaped /\ ProcsOwned

\* A tracker that is past its wait has reaped its process, and the record it
\* is about to write back is that process's own.
TrackersReaped ==
  \A p \in Pid :
    /\ trackers[p].pc \in {"read", "write"} => procs[p].main = "reaped" /\ ~procs[p].helper
    /\ trackers[p].pc = "write" => trackers[p].cnt.pid = p

\* No snapshot of a sandbox that a handler holds is NOTREADY and lists a
\* container.
SnapshotsEmpty ==
  \A r \in Rpc :
    calls[r].sb # Nil /\ calls[r].sb.state = "NOTREADY" => calls[r].sb.containers = <<>>

\* A record that names a process names one spawned for its own container.
RecordsOwn ==
  \A c \in Cid : containers[c] # Nil /\ containers[c].pid \in Pid
    => /\ procs[containers[c].pid].main # "unborn"
       /\ procs[containers[c].pid].cid = c

-----------------------------------------------------------------------------
\* Taking an element out of a sequence leaves a sequence of the same elements.
LEMMA RemoveAtType ==
  ASSUME NEW s \in Seq(Cid), NEW i \in DOMAIN s
  PROVE  RemoveAt(s, i) \in Seq(Cid)
<1>1. i \in 1..Len(s)  OBVIOUS
<1>2. SubSeq(s, 1, i - 1) \in Seq(Cid)
  BY <1>1
<1>3. SubSeq(s, i + 1, Len(s)) \in Seq(Cid)
  BY <1>1
<1> QED  BY <1>2, <1>3 DEF RemoveAt

\* A service that starts with an empty store has calls, trackers and records
\* that fit together.
THEOREM TypeInit == Init => TypeInv
<1> SUFFICES ASSUME Init PROVE TypeInv  OBVIOUS
<1>1. TypeOK
  BY PidAssumption DEF Init, TypeOK, Process, Tracker, Call, NoCall, Unborn, Untracked, Ops, Pcs
<1>2. CallsShaped
  BY DEF Init, CallsShaped, CallShape, NoCall, PodPcs, CreatePcs, RemovePcs
<1>3. ProcsOwned
  BY DEF Init, ProcsOwned, NoCall, Unborn, Untracked
<1> QED  BY <1>1, <1>2, <1>3 DEF TypeInv

\* A step that only moves request r on keeps the shape of the calls.
LEMMA CallsStep ==
  ASSUME TypeInv, NEW r \in Rpc, NEW call \in Call, CallShape(call),
         calls' = [calls EXCEPT ![r] = call]
  PROVE  calls' \in [Rpc -> Call] /\ CallsShaped'
<1>1. calls' \in [Rpc -> Call]
  BY DEF TypeInv, TypeOK
<1>2. ASSUME NEW s \in Rpc PROVE CallShape(calls'[s])
  <2>1. CASE s = r
    <3>1. calls'[s] = call  BY <2>1 DEF TypeInv, TypeOK
    <3> QED  BY <3>1
  <2>2. CASE s # r
    <3>1. calls'[s] = calls[s]  BY <2>2 DEF TypeInv, TypeOK
    <3> QED  BY <3>1 DEF TypeInv, CallsShaped
  <2> QED  BY <2>1, <2>2
<1> QED  BY <1>1, <1>2 DEF CallsShaped, CallShape

\* A write leaves the store well typed.
LEMMA ContainersStep ==
  ASSUME TypeOK, NEW c, NEW cnt \in Container, putContainer(c, cnt)
  PROVE  containers' \in [Cid -> Container \cup {Nil}]
  BY DEF TypeOK, putContainer

\* The same of a write of a sandbox record.
LEMMA SandboxesStep ==
  ASSUME TypeOK, NEW p, NEW sb \in Sandbox, putSandbox(p, sb)
  PROVE  sandboxes' \in [Pod -> Sandbox \cup {Nil}]
  BY DEF TypeOK, putSandbox

\* A step that moves request r on and leaves the host alone keeps TypeInv when
\* it leaves the store well typed.
LEMMA HandlerMoves ==
  ASSUME TypeInv, NEW r \in Rpc, NEW call \in Call, CallShape(call),
         calls' = [calls EXCEPT ![r] = call], call.pc # "start_put",
         UNCHANGED host,
         containers' \in [Cid -> Container \cup {Nil}],
         sandboxes' \in [Pod -> Sandbox \cup {Nil}],
         used' \subseteq Cid
  PROVE  TypeInv'
<1>1. calls' \in [Rpc -> Call] /\ CallsShaped'
  BY CallsStep
<1>2. ASSUME NEW s \in Rpc, calls'[s].pc = "start_put" PROVE calls'[s] = calls[s]
  BY <1>2 DEF TypeInv, TypeOK
<1>3. ProcsOwned'
  BY <1>2 DEF ProcsOwned, TypeInv, host
<1> QED  BY <1>1, <1>3 DEF TypeInv, TypeOK, host

\* Where terminateContainer goes, and what the call can rely on there.
TerminateOps == PodOps \cup {"StopContainer", "RemoveContainer"}

\* Where terminateContainer goes first.
LEMMA TerminatePc ==
  ASSUME NEW op \in TerminateOps, NEW cnt \in Container
  PROVE  /\ afterTerminate(op) = CASE op = "StopContainer" -> "ok"
                                   [] op = "RemoveContainer" -> "remove_delete"
                                   [] op \in PodOps -> "pod_delete"
         /\ terminateContainer(op, cnt) \in {afterTerminate(op), "error", "kill"}
         /\ terminateContainer(op, cnt) = "kill" => cnt.pid \in Pid
<1>1. afterTerminate(op) = CASE op = "StopContainer" -> "ok"
                             [] op = "RemoveContainer" -> "remove_delete"
                             [] op \in PodOps -> "pod_delete"
  BY DEF afterTerminate, TerminateOps, PodOps
<1>2. cnt.pid \in Pid \/ cnt.pid = 0
  BY DEF Container
<1> QED  BY <1>1, <1>2 DEF terminateContainer, TerminateOps, PodOps

\* A call that enters terminateContainer has what the rest of it works on.
LEMMA TerminateShape ==
  ASSUME NEW call \in Call, call.op \in TerminateOps, call.cid \in Cid, call.cnt \in Container,
         call.op \in PodOps => /\ call.pod \in Pod
                               /\ call.sb \in Sandbox /\ call.sb.containers # <<>>,
         call.pc \in {afterTerminate(call.op), "error", terminateContainer(call.op, call.cnt)}
  PROVE  CallShape(call) /\ call.pc # "start_put"
<1>1. call.pc \in {afterTerminate(call.op), "error", "kill"}
  BY TerminatePc
<1>2. call.pc = "kill" => call.cnt.pid \in Pid
  BY TerminatePc DEF TerminateOps, PodOps
<1>3. afterTerminate(call.op) \in {"ok", "remove_delete", "pod_delete"}
  BY TerminatePc DEF TerminateOps, PodOps
<1>4. CASE call.pc \in {"ok", "error"}
  BY <1>4 DEF CallShape, PodPcs, CreatePcs, RemovePcs
<1>5. CASE call.pc = "kill"
  BY <1>2, <1>5 DEF CallShape, PodPcs, CreatePcs, RemovePcs, TerminateOps
<1>6. CASE call.pc = "remove_delete"
  <2>1. call.op = "RemoveContainer"
    BY <1>1, <1>6, TerminatePc DEF TerminateOps, PodOps
  <2> QED  BY <1>6, <2>1 DEF CallShape, PodPcs, CreatePcs, RemovePcs
<1>7. CASE call.pc = "pod_delete"
  <2>1. call.op \in PodOps
    BY <1>1, <1>7, TerminatePc DEF TerminateOps, PodOps
  <2> QED  BY <1>7, <2>1 DEF CallShape, PodPcs, CreatePcs, RemovePcs
<1> QED  BY <1>1, <1>3, <1>4, <1>5, <1>6, <1>7

\* A call that is over has no locals to speak of.
LEMMA DoneShape ==
  ASSUME NEW call \in Call, call.pc \in {"idle", "ok", "error"}
  PROVE  CallShape(call) /\ call.pc # "start_put"
  BY DEF CallShape, PodPcs, CreatePcs, RemovePcs

\* Every step of a handler, a tracker or a process keeps the types, and gives
\* the next step of the same handler the locals that it needs.
THEOREM TypeStep == TypeInv /\ [Next]_vars => TypeInv'
<1> SUFFICES ASSUME TypeInv, [Next]_vars PROVE TypeInv'  OBVIOUS
<1> USE NilAssumption, PidAssumption
<1> USE DEF TypeInv, PodPcs, CreatePcs, RemovePcs
<1>1. ASSUME NEW r \in Rpc, NEW p \in Pod, RunPodSandbox(r, p) PROVE TypeInv'
  <2> DEFINE call == [NoCall EXCEPT !.op = "RunPodSandbox", !.pod = p,
                              !.pc = IF sandboxes[p] = Nil THEN "run_put" ELSE "error"]
  <2>1. call \in Call /\ CallShape(call) /\ call.pc # "start_put"
    BY DEF NoCall, Call, CallShape, Ops, Pcs
  <2>2. calls' = [calls EXCEPT ![r] = call] /\ UNCHANGED <<store, host, used>>
    BY <1>1 DEF RunPodSandbox, Arrive
  <2> QED  BY <2>1, <2>2, HandlerMoves DEF TypeOK, store
<1>2. ASSUME NEW r \in Rpc, RunPut(r) PROVE TypeInv'
  <2> DEFINE call == [calls[r] EXCEPT !.pc = "ok"]
  <2>1. call \in Call /\ CallShape(call) /\ call.pc # "start_put"
    BY DoneShape DEF TypeOK, Call, Pcs
  <2>2. calls' = [calls EXCEPT ![r] = call] /\ UNCHANGED <<containers, host, used>>
    BY <1>2 DEF RunPut, Goto
  <2>3. [state |-> "READY", containers |-> <<>>] \in Sandbox
    BY DEF Sandbox
  <2>4. sandboxes' \in [Pod -> Sandbox \cup {Nil}]
    BY <1>2, <2>3, SandboxesStep DEF RunPut
  <2> QED  BY <2>1, <2>2, <2>4, HandlerMoves DEF TypeOK
<1>3. ASSUME NEW r \in Rpc, NEW p \in Pod, CreateContainer(r, p) PROVE TypeInv'
  <2>1. CASE ~isReady(sandboxes[p])
    <3> DEFINE call == [NoCall EXCEPT !.op = "CreateContainer", !.pod = p, !.pc = "error"]
    <3>1. call \in Call /\ CallShape(call) /\ call.pc # "start_put"
      BY DoneShape DEF NoCall, Call, Ops, Pcs
    <3>2. calls' = [calls EXCEPT ![r] = call] /\ UNCHANGED <<store, host, used>>
      BY <1>3, <2>1 DEF CreateContainer, Arrive
    <3> QED  BY <3>1, <3>2, HandlerMoves DEF TypeOK, store
  <2>2. CASE isReady(sandboxes[p])
    <3>1. PICK c \in Cid \ used :
            /\ used' = used \cup {c}
            /\ calls' = [calls EXCEPT ![r] =
                 [NoCall EXCEPT !.op = "CreateContainer", !.pod = p, !.cid = c, !.pc = "create_putc",
                                !.sb = [sandboxes[p] EXCEPT !.containers = Append(@, c)]]]
      BY <1>3, <2>2 DEF CreateContainer, Arrive
    <3> DEFINE sb == [sandboxes[p] EXCEPT !.containers = Append(@, c)]
               call == [NoCall EXCEPT !.op = "CreateContainer", !.pod = p, !.cid = c,
                                      !.pc = "create_putc", !.sb = sb]
    <3>2. sb \in Sandbox
      <4>1. sandboxes[p] \in Sandbox
        BY <2>2 DEF isReady, TypeOK
      <4>2. Append(sandboxes[p].containers, c) \in Seq(Cid)
        BY <4>1 DEF Sandbox
      <4> QED  BY <4>1, <4>2 DEF Sandbox
    <3> HIDE DEF sb
    <3>3. call \in Call /\ CallShape(call) /\ call.pc # "start_put"
      BY <3>2 DEF NoCall, Call, CallShape, Ops, Pcs
    <3>4. calls' = [calls EXCEPT ![r] = call]
      BY <3>1 DEF sb
    <3>5. UNCHANGED <<store, host>>
      BY <1>3 DEF CreateContainer
    <3> QED  BY <3>1, <3>3, <3>4, <3>5, HandlerMoves DEF TypeOK, store
  <2> QED  BY <2>1, <2>2
<1>4. ASSUME NEW r \in Rpc, CreatePutContainer(r) PROVE TypeInv'
  <2> DEFINE call == [calls[r] EXCEPT !.pc = "create_puts"]
  <2>1. calls[r] \in Call /\ calls[r].pod \in Pod /\ calls[r].cid \in Cid /\ calls[r].sb \in Sandbox
    BY <1>4 DEF CreatePutContainer, At, TypeOK, CallsShaped, CallShape
  <2>2. call \in Call /\ CallShape(call) /\ call.pc # "start_put"
    BY <2>1 DEF Call, CallShape, Pcs
  <2>3. calls' = [calls EXCEPT ![r] = call] /\ UNCHANGED <<sandboxes, host, used>>
    BY <1>4 DEF CreatePutContainer, Goto
  <2>4. [pod |-> calls[r].pod, state |-> "CREATED", pid |-> 0] \in Container
    BY <2>1 DEF Container
  <2>5. containers' \in [Cid -> Container \cup {Nil}]
    BY <1>4, <2>4, ContainersStep DEF CreatePutContainer
  <2> QED  BY <2>2, <2>3, <2>5, HandlerMoves DEF TypeOK
<1>5. ASSUME NEW r \in Rpc, CreatePutSandbox(r) PROVE TypeInv'
  <2> DEFINE call == [calls[r] EXCEPT !.pc = "ok"]
  <2>1. call \in Call /\ CallShape(call) /\ call.pc # "start_put"
    BY DoneShape DEF TypeOK, Call, Pcs
  <2>2. calls' = [calls EXCEPT ![r] = call] /\ UNCHANGED <<containers, host, used>>
    BY <1>5 DEF CreatePutSandbox, Goto
  <2>3. calls[r].sb \in Sandbox
    BY <1>5 DEF CreatePutSandbox, At, CallsShaped, CallShape
  <2>4. sandboxes' \in [Pod -> Sandbox \cup {Nil}]
    BY <1>5, <2>3, SandboxesStep DEF CreatePutSandbox
  <2> QED  BY <2>1, <2>2, <2>4, HandlerMoves DEF TypeOK
<1>6. ASSUME NEW r \in Rpc, NEW c \in used, StartContainer(r, c) PROVE TypeInv'
  <2> DEFINE call == [NoCall EXCEPT !.op = "StartContainer", !.cid = c, !.cnt = containers[c],
                              !.pc = IF containers[c] = Nil THEN "error" ELSE "start_spawn"]
  <2>1. call \in Call /\ CallShape(call) /\ call.pc # "start_put"
    BY DEF TypeOK, NoCall, Call, CallShape, Ops, Pcs
  <2>2. calls' = [calls EXCEPT ![r] = call] /\ UNCHANGED <<store, host, used>>
    BY <1>6 DEF StartContainer, Arrive
  <2> QED  BY <2>1, <2>2, HandlerMoves DEF TypeOK, store
<1>7. ASSUME NEW r \in Rpc, StartFails(r) PROVE TypeInv'
  <2> DEFINE call == [calls[r] EXCEPT !.pc = "error"]
  <2>1. call \in Call /\ CallShape(call) /\ call.pc # "start_put"
    BY DoneShape DEF TypeOK, Call, Pcs
  <2>2. calls' = [calls EXCEPT ![r] = call] /\ UNCHANGED <<store, host, used>>
    BY <1>7 DEF StartFails, Goto
  <2> QED  BY <2>1, <2>2, HandlerMoves DEF TypeOK, store
<1>8. ASSUME NEW r \in Rpc, StartSpawn(r) PROVE TypeInv'
  <2>1. PICK p \in Pid, h \in BOOLEAN :
       /\ procs[p].main = "unborn"
       /\ procs' = [procs EXCEPT ![p] = [main |-> "alive", helper |-> h, cid |-> calls[r].cid]]
       /\ \/ calls' = [calls EXCEPT ![r] = [@ EXCEPT !.pc = "start_put", !.cnt.pid = p,
                                                     !.cnt.state = "RUNNING"]]
          \/ calls' = [calls EXCEPT ![r].pc = "error"]
    BY <1>8 DEF StartSpawn, Goto
  <2>2. calls[r] \in Call /\ calls[r].cnt \in Container /\ calls[r].cid \in Cid
    BY <1>8 DEF StartSpawn, At, TypeOK, CallsShaped, CallShape
  <2>3. PICK call \in Call : /\ CallShape(call)
                             /\ calls' = [calls EXCEPT ![r] = call]
                             /\ call.pc = "start_put" => call.cnt.pid = p /\ call.cid = calls[r].cid
    <3>1. CASE calls' = [calls EXCEPT ![r].pc = "error"]
      <4> DEFINE call == [calls[r] EXCEPT !.pc = "error"]
      <4>1. call \in Call /\ CallShape(call) /\ call.pc # "start_put"
        BY <2>2, DoneShape DEF Call, Pcs
      <4> QED  BY <3>1, <4>1
    <3>2. CASE calls' = [calls EXCEPT ![r] = [@ EXCEPT !.pc = "start_put", !.cnt.pid = p,
                                                       !.cnt.state = "RUNNING"]]
      <4> DEFINE call == [calls[r] EXCEPT !.pc = "start_put", !.cnt.pid = p,
                                          !.cnt.state = "RUNNING"]
      <4>1. call \in Call /\ CallShape(call) /\ call.cnt.pid = p /\ call.cid = calls[r].cid
        BY <2>2 DEF Call, CallShape, Pcs, Container
      <4>2. calls' = [calls EXCEPT ![r] = call]
        BY <3>2
      <4> QED  BY <4>1, <4>2
    <3> QED  BY <2>1, <3>1, <3>2
  <2>4. calls' \in [Rpc -> Call] /\ CallsShaped'
    BY <2>3, CallsStep
  <2>5. procs' \in [Pid -> Process]
    BY <2>1, <2>2 DEF TypeOK, Process
  <2>6. UNCHANGED <<store, trackers, used>>
    BY <1>8 DEF StartSpawn
  <2>7. ProcsOwned'
    BY <2>1, <2>2, <2>3, <2>6 DEF TypeOK, ProcsOwned, CallsShaped, CallShape
  <2> QED  BY <2>4, <2>5, <2>6, <2>7 DEF TypeOK, store
<1>9. ASSUME NEW r \in Rpc, StartPut(r) PROVE TypeInv'
  <2> DEFINE call == [calls[r] EXCEPT !.pc = "ok"]
             p == calls[r].cnt.pid
  <2>1. call \in Call /\ CallShape(call) /\ call.pc # "start_put"
    BY DoneShape DEF TypeOK, Call, Pcs
  <2>2. /\ calls' = [calls EXCEPT ![r] = call] /\ UNCHANGED <<sandboxes, procs, used>>
        /\ trackers' = [trackers EXCEPT ![p].pc = "wait"]
    BY <1>9 DEF StartPut, Goto
  <2>3. calls[r].cnt \in Container /\ procs[p].main # "unborn"
    BY <1>9 DEF StartPut, At, CallsShaped, CallShape, ProcsOwned
  <2>4. containers' \in [Cid -> Container \cup {Nil}]
    BY <1>9, <2>3, ContainersStep DEF StartPut
  <2>5. calls' \in [Rpc -> Call] /\ CallsShaped'
    BY <2>1, <2>2, CallsStep
  <2>6. trackers' \in [Pid -> Tracker]
    BY <2>2 DEF TypeOK, Tracker
  <2>7. ProcsOwned'
    BY <2>1, <2>2, <2>3 DEF TypeOK, ProcsOwned
  <2> QED  BY <2>2, <2>4, <2>5, <2>6, <2>7 DEF TypeOK
<1>10. ASSUME NEW r \in Rpc, Kill(r) PROVE TypeInv'
  <2> DEFINE call == [calls[r] EXCEPT !.pc = "wait"]
  <2>1. calls[r] \in Call /\ CallShape(calls[r]) /\ calls[r].pc = "kill"
    BY <1>10 DEF Kill, At, TypeOK, CallsShaped
  <2>2. call \in Call /\ CallShape(call) /\ call.pc # "start_put"
    BY <2>1 DEF Call, CallShape, Pcs
  <2>3. calls' = [calls EXCEPT ![r] = call] /\ UNCHANGED <<store, host, used>>
    BY <1>10 DEF Kill, Goto
  <2> QED  BY <2>2, <2>3, HandlerMoves DEF TypeOK, store
<1>11. ASSUME NEW r \in Rpc, calls[r].pc \in {"kill", "wait"}
       PROVE  LET call == [calls[r] EXCEPT !.pc = afterTerminate(calls[r].op)]
              IN  call \in Call /\ CallShape(call) /\ call.pc # "start_put"
  <2> DEFINE call == [calls[r] EXCEPT !.pc = afterTerminate(calls[r].op)]
  <2>1. calls[r] \in Call /\ CallShape(calls[r])
    BY DEF TypeOK, CallsShaped
  <2>2. /\ calls[r].op \in TerminateOps /\ calls[r].cid \in Cid /\ calls[r].cnt \in Container
        /\ calls[r].op \in PodOps => /\ calls[r].pod \in Pod
                                     /\ calls[r].sb \in Sandbox /\ calls[r].sb.containers # <<>>
    BY <1>11, <2>1 DEF CallShape, TerminateOps
  <2>3. afterTerminate(calls[r].op) \in Pcs
    BY <2>2, TerminatePc DEF Pcs, TerminateOps, PodOps
  <2>4. call \in Call
    BY <2>1, <2>3 DEF Call
  <2>5. /\ call.op = calls[r].op /\ call.cid = calls[r].cid /\ call.cnt = calls[r].cnt
        /\ call.pod = calls[r].pod /\ call.sb = calls[r].sb /\ call.pc = afterTerminate(call.op)
    BY <2>1 DEF Call
  <2> QED  BY <2>2, <2>4, <2>5, TerminateShape
<1>12. ASSUME NEW r \in Rpc, KillFails(r) \/ WaitTick(r) PROVE TypeInv'
  <2> DEFINE call == [calls[r] EXCEPT !.pc = afterTerminate(calls[r].op)]
  <2>1. calls[r].pc \in {"kill", "wait"}
    BY <1>12 DEF KillFails, WaitTick, At
  <2>2. calls' = [calls EXCEPT ![r] = call] /\ UNCHANGED <<store, host, used>>
    BY <1>12 DEF KillFails, WaitTick, Goto
  <2> QED  BY <2>1, <2>2, <1>11, HandlerMoves DEF TypeOK, store
<1>13. ASSUME NEW r \in Rpc, WaitTimeout(r) \/ WaitCancelled(r) PROVE TypeInv'
  <2>1. calls[r].pc = "wait" /\ calls[r] \in Call
    BY <1>13 DEF WaitTimeout, WaitCancelled, At, TypeOK
  <2>2. PICK call \in Call : /\ CallShape(call) /\ call.pc # "start_put"
                             /\ calls' = [calls EXCEPT ![r] = call]
    <3>1. CASE WaitTimeout(r)
      <4>1. calls' = [calls EXCEPT ![r] = [calls[r] EXCEPT !.pc = afterTerminate(calls[r].op)]]
        BY <3>1 DEF WaitTimeout, Goto
      <4> QED  BY <2>1, <4>1, <1>11
    <3>2. CASE WaitCancelled(r)
      <4> DEFINE call == [calls[r] EXCEPT !.pc = "error"]
      <4>1. call \in Call /\ CallShape(call) /\ call.pc # "start_put"
        BY <2>1, DoneShape DEF Call, Pcs
      <4>2. calls' = [calls EXCEPT ![r] = call]
        BY <3>2 DEF WaitCancelled, Goto
      <4> QED  BY <4>1, <4>2
    <3> QED  BY <1>13, <3>1, <3>2
  <2>3. calls' \in [Rpc -> Call] /\ CallsShaped'
    BY <2>2, CallsStep
  <2>4. SigKill(calls[r].cnt.pid) /\ UNCHANGED <<store, trackers, used>>
    BY <1>13 DEF WaitTimeout, WaitCancelled
  <2>5. /\ procs' \in [Pid -> Process]
        /\ \A p \in Pid : /\ procs'[p].cid = procs[p].cid
                          /\ procs[p].main # "unborn" => procs'[p].main # "unborn"
                          /\ procs'[p].main # "unborn" => procs[p].main # "unborn"
    <3> DEFINE q == calls[r].cnt.pid
               m == IF procs[q].main = "alive" THEN dead(q) ELSE procs[q].main
    <3>1. q \in Pid /\ procs \in [Pid -> Process]
      BY <2>1 DEF TypeOK, CallsShaped, CallShape
    <3>2. procs' = [procs EXCEPT ![q].main = m]
      BY <2>4 DEF SigKill
    <3>3. /\ m \in {"unborn", "alive", "zombie", "reaped"}
          /\ m = "unborn" <=> procs[q].main = "unborn"
      BY <3>1 DEF Process, dead
    <3> HIDE DEF q, m
    <3>4. procs' \in [Pid -> Process]
      BY <3>1, <3>2, <3>3 DEF Process
    <3>5. ASSUME NEW p \in Pid
          PROVE  /\ procs'[p].cid = procs[p].cid
                 /\ procs[p].main # "unborn" <=> procs'[p].main # "unborn"
      BY <3>1, <3>2, <3>3 DEF Process
    <3> QED  BY <3>4, <3>5
  <2>6. \A s \in Rpc : calls'[s].pc = "start_put"
         => calls'[s] = calls[s] /\ calls[s].cnt.pid \in Pid
    BY <2>2 DEF TypeOK, CallsShaped, CallShape
  <2>7. ProcsOwned'
    <3>1. \A p \in Pid : procs'[p].main # "unborn" => procs'[p].cid \in Cid
      BY <2>5 DEF ProcsOwned
    <3>2. \A p \in Pid : trackers'[p].pc # "none" => procs'[p].main # "unborn"
      BY <2>4, <2>5 DEF ProcsOwned
    <3>3. ASSUME NEW s \in Rpc, calls'[s].pc = "start_put"
          PROVE  /\ procs'[calls'[s].cnt.pid].main # "unborn"
                 /\ procs'[calls'[s].cnt.pid].cid = calls'[s].cid
      <4>1. calls'[s] = calls[s] /\ calls[s].cnt.pid \in Pid /\ calls[s].pc = "start_put"
        BY <2>6, <3>3
      <4> QED  BY <4>1, <2>5 DEF ProcsOwned
    <3> QED  BY <2>4, <3>1, <3>2, <3>3 DEF ProcsOwned
  <2> QED  BY <2>3, <2>4, <2>5, <2>7 DEF TypeOK, store
<1>14. ASSUME NEW r \in Rpc, NEW c \in used, NEW grace \in BOOLEAN, StopContainer(r, c, grace)
       PROVE  TypeInv'
  <2> DEFINE call == [NoCall EXCEPT !.op = "StopContainer", !.cid = c, !.cnt = containers[c],
                              !.grace = grace,
                              !.pc = IF containers[c] = Nil THEN "error"
                                     ELSE terminateContainer("StopContainer", containers[c])]
  <2>1. containers[c] \in Container \cup {Nil} /\ c \in Cid
    BY DEF TypeOK
  <2>2. CASE containers[c] = Nil
    <3>1. call \in Call /\ call.pc = "error"
      BY <2>1, <2>2 DEF NoCall, Call, Ops, Pcs
    <3> QED
      BY <1>14, <3>1, DoneShape, HandlerMoves DEF StopContainer, Arrive, TypeOK, store
  <2>3. CASE containers[c] # Nil
    <3> DEFINE pc == terminateContainer("StopContainer", containers[c])
    <3>1. pc \in {"ok", "error", "kill"}
      BY <2>1, <2>3, TerminatePc DEF TerminateOps, PodOps
    <3> HIDE DEF pc
    <3>2. /\ call = [NoCall EXCEPT !.op = "StopContainer", !.cid = c, !.cnt = containers[c],
                                   !.grace = grace, !.pc = pc]
          /\ call \in Call
      BY <2>1, <2>3, <3>1 DEF pc, NoCall, Call, Ops, Pcs
    <3>3. call.op = "StopContainer" /\ call.cid = c /\ call.cnt = containers[c]
          /\ call.pc = terminateContainer(call.op, call.cnt)
      BY <2>3 DEF NoCall
    <3>4. calls' = [calls EXCEPT ![r] = call] /\ UNCHANGED <<store, host, used>>
      BY <1>14 DEF StopContainer, Arrive
    <3> HIDE DEF call
    <3>5. CallShape(call) /\ call.pc # "start_put"
      BY <2>1, <2>3, <3>2, <3>3, TerminateShape DEF TerminateOps, PodOps
    <3> QED  BY <3>2, <3>4, <3>5, HandlerMoves DEF TypeOK, store
  <2> QED  BY <2>2, <2>3
<1>15. ASSUME NEW r \in Rpc, NEW c \in used, RemoveContainer(r, c) PROVE TypeInv'
  <2> DEFINE call == [NoCall EXCEPT !.op = "RemoveContainer", !.cid = c, !.cnt = containers[c],
                              !.pc = IF containers[c] = Nil THEN "ok" ELSE "remove_read"]
  <2>1. call \in Call /\ CallShape(call) /\ call.pc # "start_put"
    BY DEF TypeOK, NoCall, Call, CallShape, Ops, Pcs
  <2>2. calls' = [calls EXCEPT ![r] = call] /\ UNCHANGED <<store, host, used>>
    BY <1>15 DEF RemoveContainer, Arrive
  <2> QED  BY <2>1, <2>2, HandlerMoves DEF TypeOK, store
\* Both ways on from the sandbox record lead to terminateContainer.
<1>16. ASSUME NEW r \in Rpc, calls[r].pc \in {"remove_read", "remove_put"}
       PROVE  LET call == [calls[r] EXCEPT !.pc = terminateContainer("RemoveContainer", calls[r].cnt)]
              IN  call \in Call /\ CallShape(call) /\ call.pc # "start_put"
  <2> DEFINE call == [calls[r] EXCEPT !.pc = terminateContainer("RemoveContainer", calls[r].cnt)]
  <2>1. /\ calls[r] \in Call /\ calls[r].op = "RemoveContainer"
        /\ calls[r].cid \in Cid /\ calls[r].cnt \in Container
    BY <1>16 DEF TypeOK, CallsShaped, CallShape
  <2>2. terminateContainer("RemoveContainer", calls[r].cnt) \in Pcs
    BY <2>1, TerminatePc DEF Pcs, TerminateOps, PodOps
  <2>3. call \in Call
    BY <2>1, <2>2 DEF Call
  <2>4. /\ call.op = "RemoveContainer" /\ call.cid \in Cid /\ call.cnt \in Container
        /\ call.pc = terminateContainer(call.op, call.cnt)
    BY <2>1 DEF Call
  <2> HIDE DEF call
  <2>5. CallShape(call) /\ call.pc # "start_put"
    BY <2>3, <2>4, TerminateShape, SMTT(30) DEF TerminateOps, PodOps
  <2> QED  BY <2>3, <2>5 DEF call
<1>17. ASSUME NEW r \in Rpc, RemoveReadSandbox(r) PROVE TypeInv'
  <2> DEFINE sb == sandboxes[calls[r].cnt.pod]
  <2>1. UNCHANGED <<store, host, used>> /\ calls[r].pc = "remove_read"
    BY <1>17 DEF RemoveReadSandbox, At
  <2>2. CASE calls' = [calls EXCEPT ![r].pc = terminateContainer("RemoveContainer", calls[r].cnt)]
    BY <2>1, <2>2, <1>16, HandlerMoves DEF TypeOK, store
  <2>3. CASE \E i \in DOMAIN sb.containers :
               /\ sb # Nil
               /\ calls' = [calls EXCEPT ![r] = [@ EXCEPT !.pc = "remove_put",
                               !.sb = [sb EXCEPT !.containers = RemoveAt(@, i)]]]
    <3>1. PICK i \in DOMAIN sb.containers :
               /\ sb # Nil
               /\ calls' = [calls EXCEPT ![r] = [@ EXCEPT !.pc = "remove_put",
                               !.sb = [sb EXCEPT !.containers = RemoveAt(@, i)]]]
      BY <2>3
    <3> DEFINE new == [sb EXCEPT !.containers = RemoveAt(@, i)]
               call == [calls[r] EXCEPT !.pc = "remove_put", !.sb = new]
    <3>2. calls[r] \in Call /\ CallShape(calls[r])
      BY DEF TypeOK, CallsShaped
    <3>3. sb \in Sandbox
      BY <2>1, <3>1, <3>2 DEF TypeOK, CallShape, Container
    <3>4. new \in Sandbox
      BY <3>3, RemoveAtType DEF Sandbox
    <3>5. calls' = [calls EXCEPT ![r] = call]
      BY <3>1
    <3> HIDE DEF new
    <3>6. call \in Call /\ CallShape(call) /\ call.pc # "start_put"
      BY <2>1, <3>2, <3>4 DEF Call, CallShape, Pcs
    <3> QED  BY <2>1, <3>5, <3>6, HandlerMoves DEF TypeOK, store
  <2> QED  BY <1>17, <2>2, <2>3, ZenonT(60) DEF RemoveReadSandbox, listed, Goto
<1>18. ASSUME NEW r \in Rpc, RemovePutSandbox(r) PROVE TypeInv'
  <2>1. calls[r].pc = "remove_put" /\ UNCHANGED <<containers, host, used>>
    BY <1>18 DEF RemovePutSandbox, At
  <2>2. calls' = [calls EXCEPT ![r] =
                    [calls[r] EXCEPT !.pc = terminateContainer("RemoveContainer", calls[r].cnt)]]
    BY <1>18 DEF RemovePutSandbox, Goto
  <2>3. calls[r].sb \in Sandbox
    BY <2>1 DEF CallsShaped, CallShape
  <2>4. sandboxes' \in [Pod -> Sandbox \cup {Nil}]
    BY <1>18, <2>3, SandboxesStep DEF RemovePutSandbox
  <2> QED  BY <2>1, <2>2, <2>4, <1>16, HandlerMoves DEF TypeOK
<1>19. ASSUME NEW r \in Rpc, RemoveDelete(r) PROVE TypeInv'
  <2> DEFINE call == [calls[r] EXCEPT !.pc = "ok"]
  <2>1. call \in Call /\ CallShape(call) /\ call.pc # "start_put"
    BY DoneShape DEF TypeOK, Call, Pcs
  <2>2. calls' = [calls EXCEPT ![r] = call] /\ UNCHANGED <<sandboxes, host, used>>
    BY <1>19 DEF RemoveDelete, Goto
  <2>3. containers' \in [Cid -> Container \cup {Nil}]
    BY <1>19 DEF RemoveDelete, deleteContainer, TypeOK
  <2> QED  BY <2>1, <2>2, <2>3, HandlerMoves DEF TypeOK
<1>20. ASSUME NEW r \in Rpc, NEW p \in Pod, NEW op \in PodOps, EndPodSandbox(r, p, op)
       PROVE  TypeInv'
  <2> DEFINE call == [NoCall EXCEPT !.op = op, !.pod = p, !.sb = sandboxes[p],
                              !.grace = (op = "StopPodSandbox"),
                              !.pc = IF sandboxes[p] = Nil THEN "ok" ELSE "pod_next"]
  <2>1. call \in Call /\ CallShape(call) /\ call.pc # "start_put"
    BY DEF TypeOK, NoCall, Call, CallShape, Ops, PodOps, Pcs
  <2>2. calls' = [calls EXCEPT ![r] = call] /\ UNCHANGED <<store, host, used>>
    BY <1>20 DEF EndPodSandbox, Arrive
  <2> QED  BY <2>1, <2>2, HandlerMoves DEF TypeOK, store
<1>21. ASSUME NEW r \in Rpc, PodNext(r) PROVE TypeInv'
  <2> DEFINE c == Head(calls[r].sb.containers)
             pc == IF containers[c] = Nil THEN "pod_put"
                   ELSE terminateContainer(calls[r].op, containers[c])
             call == [calls[r] EXCEPT !.cid = c, !.cnt = containers[c], !.pc = pc]
  <2>1. calls[r].pc = "pod_next" /\ calls[r].sb.containers # <<>> /\ UNCHANGED <<store, host, used>>
    BY <1>21 DEF PodNext, At
  <2>2. calls' = [calls EXCEPT ![r] = call]
    BY <1>21 DEF PodNext
  <2>3. /\ calls[r] \in Call /\ calls[r].op \in PodOps
        /\ calls[r].pod \in Pod /\ calls[r].sb \in Sandbox
    BY <2>1 DEF TypeOK, CallsShaped, CallShape
  <2>4. c \in Cid
    BY <2>1, <2>3 DEF Sandbox
  <2>5. containers[c] \in Container \cup {Nil}
    BY <2>4 DEF TypeOK
  <2> HIDE DEF c
  <2>6. containers[c] # Nil => pc \in {"pod_delete", "error", "kill"}
    BY <2>3, <2>5, TerminatePc DEF TerminateOps, PodOps
  <2>7. pc \in Pcs
    BY <2>6 DEF Pcs
  <2>8. /\ call.op = calls[r].op /\ call.cid = c /\ call.cnt = containers[c] /\ call.pc = pc
        /\ call.pod = calls[r].pod /\ call.sb = calls[r].sb /\ call \in Call
    BY <2>3, <2>4, <2>5, <2>7 DEF Call
  <2>9. CallShape(call) /\ call.pc # "start_put"
    <3>1. CASE containers[c] = Nil
      <4> HIDE DEF call
      <4> QED  BY <2>1, <2>3, <2>4, <2>8, <3>1 DEF CallShape
    <3>2. CASE containers[c] # Nil
      <4>1. call.pc = terminateContainer(call.op, call.cnt)
        BY <2>8, <3>2
      <4> HIDE DEF call
      <4> QED  BY <2>1, <2>3, <2>4, <2>5, <2>8, <3>2, <4>1, TerminateShape DEF TerminateOps
    <3> QED  BY <3>1, <3>2
  <2> HIDE DEF call
  <2> QED  BY <2>1, <2>2, <2>8, <2>9, HandlerMoves DEF TypeOK, store
<1>22. ASSUME NEW r \in Rpc, PodDelete(r) PROVE TypeInv'
  <2> DEFINE call == [calls[r] EXCEPT !.pc = "pod_put"]
  <2>1. calls[r] \in Call /\ CallShape(calls[r]) /\ calls[r].pc = "pod_delete"
    BY <1>22 DEF PodDelete, At, TypeOK, CallsShaped
  <2>2. call \in Call /\ CallShape(call) /\ call.pc # "start_put"
    BY <2>1 DEF Call, CallShape, Pcs
  <2>3. calls' = [calls EXCEPT ![r] = call] /\ UNCHANGED <<sandboxes, host, used>>
    BY <1>22 DEF PodDelete, Goto
  <2>4. containers' \in [Cid -> Container \cup {Nil}]
    BY <1>22 DEF PodDelete, deleteContainer, TypeOK
  <2> QED  BY <2>2, <2>3, <2>4, HandlerMoves DEF TypeOK
<1>23. ASSUME NEW r \in Rpc, PodPut(r) PROVE TypeInv'
  <2> DEFINE sb == [calls[r].sb EXCEPT !.containers = Tail(@)]
             call == [calls[r] EXCEPT !.sb = sb, !.pc = "pod_next"]
  <2>1. calls[r] \in Call /\ CallShape(calls[r]) /\ calls[r].pc = "pod_put"
    BY <1>23 DEF PodPut, At, TypeOK, CallsShaped
  <2>2. calls' = [calls EXCEPT ![r] = call] /\ putSandbox(calls[r].pod, sb)
        /\ UNCHANGED <<containers, host, used>>
    BY <1>23 DEF PodPut
  <2>3. sb \in Sandbox
    BY <2>1 DEF CallShape, Sandbox
  <2> HIDE DEF sb
  <2>4. call \in Call /\ CallShape(call) /\ call.pc # "start_put"
    BY <2>1, <2>3 DEF Call, CallShape, Pcs
  <2>5. sandboxes' \in [Pod -> Sandbox \cup {Nil}]
    BY <2>2, <2>3, SandboxesStep
  <2> QED  BY <2>2, <2>4, <2>5, HandlerMoves DEF TypeOK
<1>24. ASSUME NEW r \in Rpc, PodFinish(r) PROVE TypeInv'
  <2> DEFINE call == [calls[r] EXCEPT !.pc = IF calls[r].op = "StopPodSandbox" THEN "ok" ELSE "pod_erase"]
             sb == [calls[r].sb EXCEPT !.state = "NOTREADY"]
  <2>1. calls[r] \in Call /\ CallShape(calls[r]) /\ calls[r].pc = "pod_next"
    BY <1>24 DEF PodFinish, At, TypeOK, CallsShaped
  <2>2. calls' = [calls EXCEPT ![r] = call] /\ putSandbox(calls[r].pod, sb)
        /\ UNCHANGED <<containers, host, used>>
    BY <1>24 DEF PodFinish, Goto
  <2>3. sb \in Sandbox
    BY <2>1 DEF CallShape, Sandbox
  <2>4. call \in Call /\ CallShape(call) /\ call.pc # "start_put"
    BY <2>1 DEF Call, CallShape, Pcs
  <2>5. sandboxes' \in [Pod -> Sandbox \cup {Nil}]
    BY <2>2, <2>3, SandboxesStep
  <2> QED  BY <2>2, <2>4, <2>5, HandlerMoves DEF TypeOK
<1>25. ASSUME NEW r \in Rpc, PodErase(r) PROVE TypeInv'
  <2> DEFINE call == [calls[r] EXCEPT !.pc = "ok"]
  <2>1. call \in Call /\ CallShape(call) /\ call.pc # "start_put"
    BY DoneShape DEF TypeOK, Call, Pcs
  <2>2. calls' = [calls EXCEPT ![r] = call] /\ UNCHANGED <<containers, host, used>>
    BY <1>25 DEF PodErase, Goto
  <2>3. sandboxes' \in [Pod -> Sandbox \cup {Nil}]
    BY <1>25 DEF PodErase, deleteSandbox, TypeOK
  <2> QED  BY <2>1, <2>2, <2>3, HandlerMoves DEF TypeOK
<1>26. ASSUME NEW r \in Rpc, Reply(r) PROVE TypeInv'
  <2>1. NoCall \in Call /\ CallShape(NoCall) /\ NoCall.pc # "start_put"
    BY DEF NoCall, Call, CallShape, Ops, Pcs
  <2>2. calls' = [calls EXCEPT ![r] = NoCall] /\ UNCHANGED <<store, host, used>>
    BY <1>26 DEF Reply
  <2> QED  BY <2>1, <2>2, HandlerMoves DEF TypeOK, store
\* No step of the host or of a tracker unmakes a process or a call.
<1>27. ASSUME UNCHANGED <<sandboxes, calls, used>>,
              containers' \in [Cid -> Container \cup {Nil}],
              procs' \in [Pid -> Process], trackers' \in [Pid -> Tracker],
              \A p \in Pid : /\ procs'[p].cid = procs[p].cid
                             /\ procs'[p].main = "unborn" <=> procs[p].main = "unborn"
                             /\ trackers'[p].pc = "none" <=> trackers[p].pc = "none"
                             /\ trackers'[p].pc = "write" => trackers'[p].cnt \in Container
       PROVE  TypeInv'
  <2>1. CallsShaped'
    BY <1>27 DEF CallsShaped, CallShape
  <2>2. \A r \in Rpc : calls[r].pc = "start_put" => calls[r].cnt.pid \in Pid
    BY DEF CallsShaped, CallShape
  <2>3. ProcsOwned'
    BY <1>27, <2>2 DEF ProcsOwned
  <2> QED  BY <1>27, <2>1, <2>3 DEF TypeOK
<1>28. ASSUME NEW p \in Pid, TrackerWait(p) PROVE TypeInv'
  <2>1. /\ procs' \in [Pid -> Process] /\ trackers' \in [Pid -> Tracker]
        /\ \A q \in Pid : /\ procs'[q].cid = procs[q].cid
                          /\ procs'[q].main = "unborn" <=> procs[q].main = "unborn"
                          /\ trackers'[q].pc = "none" <=> trackers[q].pc = "none"
                          /\ trackers'[q].pc = "write" => trackers'[q].cnt \in Container
    BY <1>28 DEF TrackerWait, TypeOK, ProcsOwned, Process, Tracker
  <2> QED  BY <1>27, <1>28, <2>1 DEF TrackerWait, TypeOK, store
<1>29. ASSUME NEW p \in Pid, TrackerRead(p) PROVE TypeInv'
  <2> DEFINE cnt == containers[procs[p].cid]
             t == IF ownedBy(cnt, p) THEN [pc |-> "write", cnt |-> cnt]
                                     ELSE [pc |-> "done", cnt |-> Nil]
  <2>1. /\ trackers[p].pc = "read" /\ UNCHANGED <<store, procs, calls, used>>
        /\ trackers' = [trackers EXCEPT ![p] = t]
    BY <1>29 DEF TrackerRead
  <2>2. cnt \in Container \cup {Nil}
    BY <2>1 DEF TypeOK, ProcsOwned
  <2> HIDE DEF cnt
  <2>3. t \in Tracker /\ t.pc # "none" /\ (t.pc = "write" => t.cnt \in Container)
    BY <2>2 DEF Tracker, ownedBy
  <2> HIDE DEF t
  <2>4. /\ trackers' \in [Pid -> Tracker]
        /\ \A q \in Pid : /\ trackers'[q].pc = "none" <=> trackers[q].pc = "none"
                          /\ trackers'[q].pc = "write" => trackers'[q].cnt \in Container
    BY <2>1, <2>3 DEF TypeOK, ProcsOwned
  <2> QED  BY <1>27, <2>1, <2>4 DEF TypeOK, store
<1>30. ASSUME NEW p \in Pid, TrackerWrite(p) PROVE TypeInv'
  <2>1. /\ trackers[p].pc = "write" /\ UNCHANGED <<sandboxes, procs, calls, used>>
        /\ trackers' = [trackers EXCEPT ![p] = [pc |-> "done", cnt |-> Nil]]
        /\ putContainer(procs[p].cid, exited(trackers[p].cnt))
    BY <1>30 DEF TrackerWrite
  <2>2. exited(trackers[p].cnt) \in Container
    BY <2>1 DEF ProcsOwned, exited, Container
  <2>3. containers' \in [Cid -> Container \cup {Nil}]
    BY <2>1, <2>2, ContainersStep
  <2>4. /\ trackers' \in [Pid -> Tracker]
        /\ \A q \in Pid : /\ trackers'[q].pc = "none" <=> trackers[q].pc = "none"
                          /\ trackers'[q].pc = "write" => trackers'[q].cnt \in Container
    BY <2>1 DEF TypeOK, ProcsOwned, Tracker
  <2> QED  BY <1>27, <2>1, <2>3, <2>4 DEF TypeOK
<1>31. ASSUME NEW p \in Pid, MainExits(p) \/ HelperExits(p) PROVE TypeInv'
  <2>1. UNCHANGED <<store, trackers, calls, used>>
    BY <1>31 DEF MainExits, HelperExits
  <2>2. PICK q \in Process :
          /\ q.cid = procs[p].cid
          /\ q.main = "unborn" <=> procs[p].main = "unborn"
          /\ procs' = [procs EXCEPT ![p] = q]
    <3>1. CASE MainExits(p)
      <4> DEFINE q == [procs[p] EXCEPT !.main = dead(p)]
      <4>1. q \in Process /\ q.cid = procs[p].cid /\ q.main # "unborn"
        BY DEF TypeOK, Process, dead
      <4> QED  BY <3>1, <4>1 DEF MainExits
    <3>2. CASE HelperExits(p)
      <4> DEFINE q == [procs[p] EXCEPT !.helper = FALSE]
      <4>1. q \in Process /\ q.cid = procs[p].cid /\ q.main = procs[p].main
        BY DEF TypeOK, Process
      <4> QED  BY <3>2, <4>1 DEF HelperExits
    <3> QED  BY <1>31, <3>1, <3>2
  <2>3. /\ procs' \in [Pid -> Process]
        /\ \A s \in Pid : /\ procs'[s].cid = procs[s].cid
                          /\ procs'[s].main = "unborn" <=> procs[s].main = "unborn"
    BY <2>2 DEF TypeOK
  <2> QED  BY <1>27, <2>1, <2>3 DEF TypeOK, ProcsOwned, store
<1>32. ASSUME Crash PROVE TypeInv'
  <2>1. /\ \A c \in Cid : containers'[c] \in {Nil, containers[c]}
        /\ containers' \in [Cid -> Container \cup {Nil}]
    BY <1>32 DEF Crash, TypeOK
  <2>2. sandboxes' \in [Pod -> Sandbox \cup {Nil}]
    BY <1>32 DEF Crash, TypeOK
  <2>3. /\ procs' \in [Pid -> Process]
        /\ \A p \in Pid : /\ procs'[p].cid = procs[p].cid
                          /\ procs'[p].main = "unborn" <=> procs[p].main = "unborn"
    BY <1>32 DEF Crash, TypeOK, Process
  <2>4. ASSUME NEW p \in Pid
        PROVE  /\ trackers'[p] \in Tracker
               /\ trackers'[p].pc # "none" => procs[p].main # "unborn"
               /\ trackers'[p].pc # "write"
    <3>1. trackers'[p] = adopted(p) /\ trackers[p] \in Tracker
      BY <1>32 DEF Crash, TypeOK
    <3>2. CASE procs[p].main = "unborn"
      BY <3>1, <3>2 DEF adopted, ProcsOwned
    <3>3. CASE procs[p].main # "unborn"
      BY <3>1, <3>3 DEF adopted, Tracker, Adopted
    <3> QED  BY <3>2, <3>3
  <2>5. trackers' \in [Pid -> Tracker]
    BY <1>32, <2>4 DEF Crash
  <2>6. /\ NoCall \in Call /\ CallShape(NoCall) /\ NoCall.pc = "idle"
        /\ calls' = [r \in Rpc |-> NoCall] /\ UNCHANGED used
    BY <1>32 DEF Crash, NoCall, Call, CallShape, Ops, Pcs
  <2>7. calls' \in [Rpc -> Call] /\ \A r \in Rpc : calls'[r] = NoCall
    BY <2>6
  <2>8. CallsShaped'
    BY <2>6, <2>7 DEF CallsShaped, CallShape
  <2>9. ProcsOwned'
    BY <2>3, <2>4, <2>6, <2>7 DEF ProcsOwned
  <2> QED  BY <2>1, <2>2, <2>3, <2>5, <2>6, <2>7, <2>8, <2>9 DEF TypeOK
<1>33. CASE UNCHANGED vars
  BY <1>27, <1>33 DEF vars, TypeOK, ProcsOwned
<1> QED
  BY <1>1, <1>2, <1>3, <1>4, <1>5, <1>6, <1>7, <1>8, <1>9, <1>10, <1>12, <1>13, <1>14, <1>15,
     <1>17, <1>18, <1>19, <1>20, <1>21, <1>22, <1>23, <1>24, <1>25, <1>26, <1>28, <1>29, <1>30,
     <1>31, <1>32, <1>33 DEF Next, Request, HandlerStep, TrackerStep

\* The type invariant holds: whatever the requests, their order and the
\* faults, no handler works on a record or a process it does not have.
THEOREM TypeCorrect == Spec => []TypeOK
<1>1. TypeInv => TypeOK
  BY DEF TypeInv
<1> QED  BY TypeInit, TypeStep, <1>1, PTL DEF Spec

-----------------------------------------------------------------------------
(***************************************************************************)
(* EXITED records.                                                         *)
(***************************************************************************)

\* The one value a step can write into a container record.
LEMMA RecordStep ==
  ASSUME TypeInv, [Next]_vars, NEW c \in Cid
  PROVE  \/ containers'[c] = containers[c]
         \/ containers'[c] = Nil
         \/ \E r \in Rpc : containers'[c] = [pod |-> calls[r].pod, state |-> "CREATED", pid |-> 0]
         \/ \E r \in Rpc : StartPut(r) /\ calls[r].cid = c /\ containers'[c] = calls[r].cnt
         \/ \E p \in Pid : TrackerWrite(p) /\ procs[p].cid = c
                          /\ containers'[c] = exited(trackers[p].cnt)
<1> USE DEF TypeInv, TypeOK
<1>1. ASSUME NEW r \in Rpc, CreatePutContainer(r)
      PROVE  \/ containers'[c] = containers[c]
             \/ containers'[c] = [pod |-> calls[r].pod, state |-> "CREATED", pid |-> 0]
  BY <1>1 DEF CreatePutContainer, putContainer
<1>2. ASSUME NEW r \in Rpc, StartPut(r)
      PROVE  containers'[c] = containers[c] \/ (calls[r].cid = c /\ containers'[c] = calls[r].cnt)
  BY <1>2 DEF StartPut, putContainer
<1>3. ASSUME NEW p \in Pid, TrackerWrite(p)
      PROVE  \/ containers'[c] = containers[c]
             \/ procs[p].cid = c /\ containers'[c] = exited(trackers[p].cnt)
  BY <1>3 DEF TrackerWrite, putContainer
<1>4. ASSUME NEW r \in Rpc, RemoveDelete(r) \/ PodDelete(r)
      PROVE  containers'[c] = containers[c] \/ containers'[c] = Nil
  BY <1>4 DEF RemoveDelete, PodDelete, deleteContainer
<1>5. Crash => containers'[c] \in {Nil, containers[c]}
  BY SMTT(30) DEF Crash
<1>6. \/ containers' = containers
      \/ Crash
      \/ \E r \in Rpc : CreatePutContainer(r) \/ StartPut(r) \/ RemoveDelete(r) \/ PodDelete(r)
      \/ \E p \in Pid : TrackerWrite(p)
  BY ZenonT(60) DEF Next, Request, HandlerStep, TrackerStep, vars, store, RunPodSandbox, RunPut,
         CreateContainer, CreatePutSandbox, StartContainer, StartFails, StartSpawn,
         Kill, KillFails, WaitTick, WaitTimeout, WaitCancelled, StopContainer, RemoveContainer,
         RemoveReadSandbox, RemovePutSandbox, EndPodSandbox, PodNext, PodPut, PodFinish,
         PodErase, Reply, TrackerWait, TrackerRead, MainExits, HelperExits
<1> QED  BY <1>1, <1>2, <1>3, <1>4, <1>5, <1>6

\* The steps that touch the process table.
LEMMA ProcsMoves ==
  ASSUME [Next]_vars
  PROVE  \/ procs' = procs
         \/ \E r \in Rpc : StartSpawn(r) \/ WaitTimeout(r) \/ WaitCancelled(r)
         \/ \E q \in Pid : TrackerWait(q) \/ MainExits(q) \/ HelperExits(q)
         \/ Crash
  BY ZenonT(60) DEF Next, Request, HandlerStep, TrackerStep, vars, host, RunPodSandbox, RunPut,
         CreateContainer, CreatePutContainer, CreatePutSandbox, StartContainer, StartFails, StartPut,
         Kill, KillFails, WaitTick, StopContainer, RemoveContainer, RemoveReadSandbox,
         RemovePutSandbox, RemoveDelete, EndPodSandbox, PodNext, PodDelete, PodPut, PodFinish,
         PodErase, Reply, TrackerRead, TrackerWrite

Gone(p) == procs[p].main = "reaped" /\ ~procs[p].helper

\* A process that has been waited for stays so: nothing starts, signals or
\* reaps it again.
LEMMA GoneStays ==
  ASSUME TypeInv, [Next]_vars, NEW p \in Pid, Gone(p)
  PROVE  procs'[p] = procs[p]
<1> USE DEF TypeInv, TypeOK, Gone
<1>1. CASE procs' = procs
  BY <1>1
<1>2. ASSUME NEW r \in Rpc, StartSpawn(r) PROVE procs'[p] = procs[p]
  BY <1>2 DEF StartSpawn
<1>3. ASSUME NEW r \in Rpc, WaitTimeout(r) \/ WaitCancelled(r) PROVE procs'[p] = procs[p]
  BY <1>3 DEF WaitTimeout, WaitCancelled, SigKill, dead, Process
<1>4. ASSUME NEW q \in Pid, TrackerWait(q) \/ MainExits(q) \/ HelperExits(q) PROVE procs'[p] = procs[p]
  BY <1>4 DEF TrackerWait, MainExits, HelperExits, Process
<1>5. Crash => procs'[p] = procs[p]
  BY DEF Crash, Process
<1> QED  BY <1>1, <1>2, <1>3, <1>4, <1>5, ProcsMoves

\* A process that was spawned stays the process of its container.
LEMMA BornStays ==
  ASSUME TypeInv, [Next]_vars, NEW p \in Pid, procs[p].main # "unborn"
  PROVE  procs'[p].main # "unborn" /\ procs'[p].cid = procs[p].cid
<1> USE DEF TypeInv, TypeOK
<1>1. CASE procs' = procs
  BY <1>1
<1>2. ASSUME NEW r \in Rpc, StartSpawn(r) PROVE procs'[p] = procs[p]
  BY <1>2 DEF StartSpawn
<1>3. ASSUME NEW r \in Rpc, WaitTimeout(r) \/ WaitCancelled(r)
      PROVE  procs'[p].main # "unborn" /\ procs'[p].cid = procs[p].cid
  BY <1>3 DEF WaitTimeout, WaitCancelled, SigKill, dead, Process
<1>4. ASSUME NEW q \in Pid, TrackerWait(q) \/ MainExits(q) \/ HelperExits(q)
      PROVE  procs'[p].main # "unborn" /\ procs'[p].cid = procs[p].cid
  BY <1>4 DEF TrackerWait, MainExits, HelperExits, Process, dead
<1>5. Crash => procs'[p].main # "unborn" /\ procs'[p].cid = procs[p].cid
  BY DEF Crash, Process
<1> QED  BY <1>1, <1>2, <1>3, <1>4, <1>5, ProcsMoves

\* What can happen to a tracker.
LEMMA TrackerMoves ==
  ASSUME TypeInv, [Next]_vars, NEW p \in Pid
  PROVE  \/ trackers'[p] = trackers[p]
         \/ trackers'[p].pc = "wait"
         \/ TrackerWait(p) /\ trackers'[p].pc = "read"
         \/ TrackerRead(p)
         \/ TrackerWrite(p) /\ trackers'[p].pc = "done"
         \/ Crash /\ trackers'[p] = adopted(p)
<1> USE DEF TypeInv, TypeOK
<1>1. ASSUME NEW r \in Rpc, StartPut(r)
      PROVE  trackers'[p] = trackers[p] \/ trackers'[p].pc = "wait"
  BY <1>1 DEF StartPut, Tracker
<1>2. TrackerWait(p) => trackers'[p].pc = "read"
  BY DEF TrackerWait, Tracker
<1>3. TrackerWrite(p) => trackers'[p].pc = "done"
  BY DEF TrackerWrite
<1>4. ASSUME NEW q \in Pid, q # p, TrackerStep(q) PROVE trackers'[p] = trackers[p]
  BY <1>4 DEF TrackerStep, TrackerWait, TrackerRead, TrackerWrite
<1>5. \/ trackers' = trackers
      \/ \E r \in Rpc : StartPut(r)
      \/ \E q \in Pid : TrackerStep(q)
      \/ Crash
  BY DEF Next, Request, HandlerStep, vars, host, RunPodSandbox, RunPut,
         CreateContainer, CreatePutContainer, CreatePutSandbox, StartContainer, StartFails, StartSpawn,
         Kill, KillFails, WaitTick, WaitTimeout, WaitCancelled, StopContainer, RemoveContainer,
         RemoveReadSandbox, RemovePutSandbox, RemoveDelete, EndPodSandbox, PodNext, PodDelete,
         PodPut, PodFinish, PodErase, Reply, MainExits, HelperExits
<1>6. Crash => trackers'[p] = adopted(p)
  BY DEF Crash
<1> QED  BY <1>1, <1>2, <1>3, <1>4, <1>5, <1>6 DEF TrackerStep

\* A crash leaves no tracker between its waits and its write.
LEMMA AdoptedIdle ==
  ASSUME TypeInv, NEW p \in Pid
  PROVE  adopted(p).pc \in Adopted \cup {"none"}
<1>1. procs[p].main = "unborn" => trackers[p].pc = "none"
  BY DEF TypeInv, ProcsOwned
<1> QED  BY <1>1 DEF adopted, Adopted

\* A tracker that has got past its waits keeps looking at a reaped process.
LEMMA TrackersStep == TypeInv /\ TrackersReaped /\ [Next]_vars => TrackersReaped'
<1> SUFFICES ASSUME TypeInv, TrackersReaped, [Next]_vars, NEW p \in Pid
             PROVE  /\ trackers'[p].pc \in {"read", "write"}
                         => procs'[p].main = "reaped" /\ ~procs'[p].helper
                    /\ trackers'[p].pc = "write" => trackers'[p].cnt.pid = p
  BY DEF TrackersReaped
<1> USE DEF TypeInv, TypeOK
<1>1. CASE trackers'[p] = trackers[p]
  BY <1>1, GoneStays DEF TrackersReaped, Gone
<1>2. ASSUME TrackerWait(p)
      PROVE  procs'[p].main = "reaped" /\ ~procs'[p].helper
  BY <1>2 DEF TrackerWait, Process
<1>3. ASSUME TrackerRead(p)
      PROVE  /\ procs'[p].main = "reaped" /\ ~procs'[p].helper
             /\ trackers'[p].pc = "write" => trackers'[p].cnt.pid = p
  BY <1>3 DEF TrackerRead, TrackersReaped, ownedBy
<1>4. trackers'[p] = adopted(p) => trackers'[p].pc \notin {"read", "write"}
  BY AdoptedIdle DEF Adopted
<1> QED  BY <1>1, <1>2, <1>3, <1>4, TrackerMoves

ExitedInv == TypeInv /\ TrackersReaped /\ ExitedIsReaped

\* However many requests race with each other, with the trackers and with a
\* failing store, an EXITED record is the truth about its process.
THEOREM ExitedCorrect == Spec => []ExitedIsReaped
<1>1. Init => ExitedInv
  BY TypeInit DEF Init, ExitedInv, TrackersReaped, ExitedIsReaped, Untracked
<1>2. ExitedInv /\ [Next]_vars => ExitedInv'
  <2> SUFFICES ASSUME ExitedInv, [Next]_vars PROVE ExitedInv'  OBVIOUS
  <2>1. TypeInv' /\ TrackersReaped'
    BY TypeStep, TrackersStep DEF ExitedInv
  <2>2. ASSUME NEW c \in Cid, containers'[c] # Nil, containers'[c].state = "EXITED"
        PROVE  /\ containers'[c].pid \in Pid
               /\ procs'[containers'[c].pid].main = "reaped"
               /\ ~procs'[containers'[c].pid].helper
    <3>1. CASE containers'[c] = containers[c]
      BY <2>2, <3>1, GoneStays DEF ExitedInv, ExitedIsReaped, Gone
    <3>2. ASSUME NEW r \in Rpc, StartPut(r), containers'[c] = calls[r].cnt
          PROVE  FALSE
      BY <2>2, <3>2 DEF StartPut, At, ExitedInv, TypeInv, CallsShaped, CallShape
    <3>3. ASSUME NEW p \in Pid, TrackerWrite(p), containers'[c] = exited(trackers[p].cnt)
          PROVE  containers'[c].pid = p /\ procs'[p].main = "reaped" /\ ~procs'[p].helper
      <4>1. trackers[p].cnt \in Container /\ trackers[p].cnt.pid = p /\ Gone(p)
        BY <3>3 DEF TrackerWrite, ExitedInv, TypeInv, ProcsOwned, TrackersReaped, Gone
      <4> QED  BY <3>3, <4>1, GoneStays DEF exited, Container, ExitedInv, Gone
    <3>4. ASSUME NEW r \in Rpc,
                 containers'[c] = [pod |-> calls[r].pod, state |-> "CREATED", pid |-> 0]
          PROVE  FALSE
      BY <2>2, <3>4
    <3>5. \/ containers'[c] = containers[c]
          \/ \E r \in Rpc : containers'[c] = [pod |-> calls[r].pod, state |-> "CREATED", pid |-> 0]
          \/ \E r \in Rpc : StartPut(r) /\ containers'[c] = calls[r].cnt
          \/ \E p \in Pid : TrackerWrite(p) /\ containers'[c] = exited(trackers[p].cnt)
      BY <2>2, RecordStep DEF ExitedInv
    <3> QED  BY <3>1, <3>2, <3>3, <3>4, <3>5
  <2> QED  BY <2>1, <2>2 DEF ExitedInv, ExitedIsReaped
<1>3. ExitedInv => ExitedIsReaped
  BY DEF ExitedInv
<1> QED  BY <1>1, <1>2, <1>3, PTL DEF Spec

-----------------------------------------------------------------------------
(***************************************************************************)
(* RUNNING records.                                                        *)
(***************************************************************************)

RunningInv == TypeInv /\ TrackersReaped /\ RecordsOwn /\ RunningIsWatched

\* A record, stored or held by a handler, keeps naming its own process.
LEMMA RecordsOwnStep == TypeInv /\ TrackersReaped /\ RecordsOwn /\ [Next]_vars => RecordsOwn'
<1> SUFFICES ASSUME TypeInv, TrackersReaped, RecordsOwn, [Next]_vars,
                    NEW c \in Cid, containers'[c] # Nil, containers'[c].pid \in Pid
             PROVE  /\ procs'[containers'[c].pid].main # "unborn"
                    /\ procs'[containers'[c].pid].cid = c
  BY DEF RecordsOwn
<1> USE DEF TypeInv
<1> DEFINE spawnedFor(p) == procs[p].main # "unborn" /\ procs[p].cid = c
<1>1. ASSUME NEW p \in Pid, spawnedFor(p)
      PROVE  procs'[p].main # "unborn" /\ procs'[p].cid = c
  BY <1>1, BornStays
<1>2. CASE containers'[c] = containers[c]
  BY <1>1, <1>2 DEF RecordsOwn
<1>3. ASSUME NEW r \in Rpc, StartPut(r), calls[r].cid = c, containers'[c] = calls[r].cnt
      PROVE  spawnedFor(containers'[c].pid)
  BY <1>3 DEF StartPut, At, ProcsOwned
<1>4. ASSUME NEW p \in Pid, TrackerWrite(p), procs[p].cid = c, containers'[c] = exited(trackers[p].cnt)
      PROVE  spawnedFor(containers'[c].pid)
  <2>1. trackers[p].cnt \in Container /\ trackers[p].cnt.pid = p /\ procs[p].main # "unborn"
    BY <1>4 DEF TrackerWrite, ProcsOwned, TrackersReaped
  <2> QED  BY <1>4, <2>1 DEF exited, Container
<1>5. ASSUME NEW r \in Rpc,
             containers'[c] = [pod |-> calls[r].pod, state |-> "CREATED", pid |-> 0]
      PROVE  FALSE
  BY <1>5, PidAssumption
<1> HIDE DEF spawnedFor
<1>6. \/ containers'[c] = containers[c]
      \/ spawnedFor(containers'[c].pid)
  BY <1>3, <1>4, <1>5, RecordStep
<1> QED  BY <1>1, <1>2, <1>6

\* Unless a write of the store fails, a RUNNING record has a tracker that will
\* still get to it, however starts, stops, removals and exits interleave.
THEOREM RunningCorrect ==
  ASSUME "store" \notin Faults
  PROVE  Spec => []RunningIsWatched
<1>1. Init => RunningInv
  BY TypeInit DEF Init, RunningInv, TrackersReaped, RecordsOwn, RunningIsWatched, Untracked
<1>2. RunningInv /\ [Next]_vars => RunningInv'
  <2> SUFFICES ASSUME RunningInv, [Next]_vars PROVE RunningInv'  OBVIOUS
  <2>1. TypeInv' /\ TrackersReaped' /\ RecordsOwn'
    BY TypeStep, TrackersStep, RecordsOwnStep DEF RunningInv
  <2>2. ASSUME NEW c \in Cid, containers'[c] # Nil, containers'[c].state = "RUNNING"
        PROVE  /\ containers'[c].pid \in Pid
               /\ trackers'[containers'[c].pid].pc \in {"wait", "read", "write", "lost"}
    <3>1. CASE containers'[c] = containers[c]
      <4> DEFINE p == containers[c].pid
      <4>1. /\ p \in Pid /\ trackers[p].pc \in {"wait", "read", "write", "lost"}
            /\ procs[p].cid = c /\ procs[p].main # "unborn"
        BY <2>2, <3>1 DEF RunningInv, RunningIsWatched, RecordsOwn
      <4>2. ~TrackerWrite(p)
        <5> SUFFICES ASSUME TrackerWrite(p) PROVE FALSE  OBVIOUS
        <5>1. containers' = [containers EXCEPT ![c] = exited(trackers[p].cnt)]
          BY <4>1 DEF TrackerWrite, putContainer
        <5>2. containers'[c] = exited(trackers[p].cnt) /\ trackers[p].cnt \in Container
          BY <4>1, <5>1 DEF RunningInv, TypeInv, TypeOK, ProcsOwned, TrackerWrite
        <5> QED  BY <2>2, <5>2 DEF exited, Container
      <4>3. TrackerRead(p) => trackers'[p].pc = "write"
        BY <2>2, <3>1, <4>1 DEF TrackerRead, ownedBy, RunningInv, TypeInv, TypeOK
      <4> HIDE DEF p
      <4>4. adopted(p).pc = "lost"
        BY <4>1 DEF adopted
      <4>5. trackers'[p].pc \in {"wait", "read", "write", "lost"}
        BY <4>1, <4>2, <4>3, <4>4, TrackerMoves DEF RunningInv
      <4> QED  BY <3>1, <4>1, <4>5 DEF p
    <3>2. ASSUME NEW r \in Rpc, StartPut(r), containers'[c] = calls[r].cnt
          PROVE  calls[r].cnt.pid \in Pid /\ trackers'[calls[r].cnt.pid].pc = "wait"
      BY <3>2 DEF StartPut, At, RunningInv, TypeInv, TypeOK, CallsShaped, CallShape, Tracker
    <3>3. ASSUME NEW p \in Pid, TrackerWrite(p), containers'[c] = exited(trackers[p].cnt)
          PROVE  FALSE
      <4>1. trackers[p].cnt \in Container
        BY <3>3 DEF TrackerWrite, RunningInv, TypeInv, ProcsOwned
      <4> QED  BY <2>2, <3>3, <4>1 DEF exited, Container
    <3>4. ASSUME NEW r \in Rpc,
                 containers'[c] = [pod |-> calls[r].pod, state |-> "CREATED", pid |-> 0]
          PROVE  FALSE
      BY <2>2, <3>4
    <3>5. \/ containers'[c] = containers[c]
          \/ \E r \in Rpc : containers'[c] = [pod |-> calls[r].pod, state |-> "CREATED", pid |-> 0]
          \/ \E r \in Rpc : StartPut(r) /\ containers'[c] = calls[r].cnt
          \/ \E p \in Pid : TrackerWrite(p) /\ containers'[c] = exited(trackers[p].cnt)
      BY <2>2, RecordStep DEF RunningInv
    <3> QED  BY <3>1, <3>2, <3>3, <3>4, <3>5
  <2> QED  BY <2>1, <2>2 DEF RunningInv, RunningIsWatched
<1>3. RunningInv => RunningIsWatched
  BY DEF RunningInv
<1> QED  BY <1>1, <1>2, <1>3, PTL DEF Spec

-----------------------------------------------------------------------------
(***************************************************************************)
(* NOTREADY sandboxes.                                                     *)
(***************************************************************************)

EmptyWhenNotReady(sb) == sb # Nil /\ sb.state = "NOTREADY" => sb.containers = <<>>

\* A handler's snapshot after a step: the one it had, none, or one that a
\* record or its own snapshot was edited into.
LEMMA SnapshotsStep ==
  ASSUME TypeInv, SnapshotsEmpty, NotReadyIsEmpty, [Next]_vars
  PROVE  SnapshotsEmpty'
<1> SUFFICES ASSUME NEW s \in Rpc PROVE EmptyWhenNotReady(calls'[s].sb)
  BY DEF SnapshotsEmpty, EmptyWhenNotReady
<1> USE DEF TypeInv, TypeOK
<1>1. CASE calls'[s].sb = calls[s].sb
  BY <1>1 DEF SnapshotsEmpty, EmptyWhenNotReady
<1>2. CASE calls'[s].sb = Nil
  BY <1>2 DEF EmptyWhenNotReady
<1>3. ASSUME NEW p \in Pod, CreateContainer(s, p) PROVE EmptyWhenNotReady(calls'[s].sb)
  <2>1. CASE ~isReady(sandboxes[p])
    BY <1>3, <2>1 DEF CreateContainer, Arrive, NoCall, EmptyWhenNotReady
  <2>2. CASE isReady(sandboxes[p])
    <3>1. sandboxes[p] \in Sandbox
      BY <2>2 DEF isReady
    <3>2. PICK c \in Cid : calls'[s].sb = [sandboxes[p] EXCEPT !.containers = Append(@, c)]
      BY <1>3, <2>2, ZenonT(60) DEF CreateContainer, Arrive, NoCall
    <3>3. calls'[s].sb.state = "READY"
      BY <2>2, <3>1, <3>2 DEF isReady, Sandbox
    <3> QED  BY <3>3 DEF EmptyWhenNotReady
  <2> QED  BY <2>1, <2>2
<1>4. ASSUME NEW p \in Pod, NEW op \in PodOps, EndPodSandbox(s, p, op)
      PROVE  EmptyWhenNotReady(calls'[s].sb)
  BY <1>4 DEF EndPodSandbox, Arrive, NoCall, EmptyWhenNotReady, NotReadyIsEmpty
<1>5. ASSUME RemoveReadSandbox(s), calls'[s].sb # calls[s].sb
      PROVE  EmptyWhenNotReady(calls'[s].sb)
  <2> DEFINE sb == sandboxes[calls[s].cnt.pod]
  <2>1. calls[s].cnt \in Container
    BY <1>5, ZenonT(60) DEF RemoveReadSandbox, At, CallsShaped, CallShape, RemovePcs
  <2>2. /\ sb # Nil /\ Contains(sb.containers, calls[s].cid)
        /\ \E i \in DOMAIN sb.containers :
             calls'[s].sb = [sb EXCEPT !.containers = RemoveAt(@, i)]
    BY <1>5 DEF RemoveReadSandbox, Goto, listed, Call
  <2>3. sb \in Sandbox
    BY <2>1, <2>2 DEF Container
  <2>4. sb.containers # <<>>
    BY <2>2, <2>3 DEF Contains, Sandbox
  <2>5. sb.state = "READY"
    BY <2>1, <2>2, <2>3, <2>4 DEF NotReadyIsEmpty, Sandbox, Container
  <2> QED  BY <2>2, <2>3, <2>5 DEF EmptyWhenNotReady, Sandbox
<1>6. ASSUME PodPut(s) PROVE EmptyWhenNotReady(calls'[s].sb)
  <2>1. calls[s].sb \in Sandbox /\ calls[s].sb.containers # <<>>
    BY <1>6 DEF PodPut, At, CallsShaped, CallShape, PodPcs
  <2>2. calls[s].sb.state = "READY"
    BY <2>1, NilAssumption DEF SnapshotsEmpty, Sandbox
  <2>3. calls'[s].sb.state = "READY"
    BY <1>6, <2>1, <2>2 DEF PodPut, Sandbox, Call
  <2> QED  BY <2>3 DEF EmptyWhenNotReady
<1>7. \/ calls'[s].sb = calls[s].sb
      \/ calls'[s].sb = Nil
      \/ \E p \in Pod : CreateContainer(s, p) \/ \E op \in PodOps : EndPodSandbox(s, p, op)
      \/ RemoveReadSandbox(s) \/ PodPut(s)
  <2>1. ASSUME NEW r \in Rpc, r # s, Request(r) \/ HandlerStep(r) \/ WaitTimeout(r) \/ WaitCancelled(r)
        PROVE  calls'[s] = calls[s]
    BY <2>1 DEF Request, HandlerStep, RunPodSandbox, RunPut, CreateContainer,
         CreatePutContainer, CreatePutSandbox, StartContainer, StartFails, StartSpawn, StartPut,
         Kill, KillFails, WaitTick, WaitTimeout, WaitCancelled, StopContainer, RemoveContainer,
         RemoveReadSandbox, RemovePutSandbox, RemoveDelete, EndPodSandbox, PodNext, PodDelete,
         PodPut, PodFinish, PodErase, Reply, Arrive, Goto
  <2>2. ASSUME Request(s)
        PROVE  \/ calls'[s].sb = Nil
               \/ \E p \in Pod : CreateContainer(s, p) \/ \E op \in PodOps : EndPodSandbox(s, p, op)
    <3>1. ASSUME NEW p \in Pod, RunPodSandbox(s, p) PROVE calls'[s].sb = Nil
      BY <3>1 DEF RunPodSandbox, Arrive, NoCall
    <3>2. ASSUME NEW c \in used, StartContainer(s, c) \/ RemoveContainer(s, c)
          PROVE  calls'[s].sb = Nil
      BY <3>2 DEF StartContainer, RemoveContainer, Arrive, NoCall
    <3>3. ASSUME NEW c \in used, NEW grace \in BOOLEAN, StopContainer(s, c, grace)
          PROVE  calls'[s].sb = Nil
      BY <3>3 DEF StopContainer, Arrive, NoCall
    <3> QED  BY <2>2, <3>1, <3>2, <3>3 DEF Request
  <2>3. ASSUME HandlerStep(s) \/ WaitTimeout(s) \/ WaitCancelled(s)
        PROVE  \/ calls'[s].sb = calls[s].sb
               \/ calls'[s].sb = Nil
               \/ RemoveReadSandbox(s) \/ PodPut(s)
    <3> USE DEF Call
    <3>1. ASSUME NEW pc, Goto(s, pc) PROVE calls'[s].sb = calls[s].sb
      BY <3>1 DEF Goto
    <3>2. ASSUME StartSpawn(s) PROVE calls'[s].sb = calls[s].sb
      <4>1. PICK p \in Pid :
              \/ calls' = [calls EXCEPT ![s] = [@ EXCEPT !.pc = "start_put", !.cnt.pid = p,
                                                         !.cnt.state = "RUNNING"]]
              \/ Goto(s, "error")
        BY <3>2 DEF StartSpawn
      <4> QED  BY <3>1, <4>1
    <3>3. PodNext(s) => calls'[s].sb = calls[s].sb
      BY DEF PodNext
    <3>4. Reply(s) => calls'[s].sb = Nil
      BY DEF Reply, NoCall
    <3> QED
      BY <2>3, <3>1, <3>2, <3>3, <3>4
         DEF HandlerStep, RunPut, CreatePutContainer, CreatePutSandbox, StartFails, StartPut,
             Kill, KillFails, WaitTick, WaitTimeout, WaitCancelled, RemovePutSandbox,
             RemoveDelete, PodDelete, PodFinish, PodErase
  <2>4. ASSUME NEW p \in Pid, TrackerStep(p) \/ MainExits(p) \/ HelperExits(p) PROVE calls' = calls
    BY <2>4 DEF TrackerStep, TrackerWait, TrackerRead, TrackerWrite, MainExits, HelperExits
  <2>5. CASE UNCHANGED vars
    BY <2>5 DEF vars
  <2>6. Crash => calls'[s].sb = Nil
    BY DEF Crash, NoCall
  <2> QED  BY <2>1, <2>2, <2>3, <2>4, <2>5, <2>6, SMTT(30) DEF Next
<1> QED  BY <1>1, <1>2, <1>3, <1>4, <1>5, <1>6, <1>7

\* The one value a step can write into a sandbox record.
LEMMA SandboxStep ==
  ASSUME TypeInv, [Next]_vars, NEW p \in Pod
  PROVE  \/ sandboxes'[p] = sandboxes[p]
         \/ sandboxes'[p] = Nil
         \/ sandboxes'[p] = [state |-> "READY", containers |-> <<>>]
         \/ \E r \in Rpc : /\ CreatePutSandbox(r) \/ RemovePutSandbox(r)
                          /\ sandboxes'[p] = calls[r].sb
         \/ \E r \in Rpc : PodPut(r) /\ sandboxes'[p] = calls'[r].sb
         \/ \E r \in Rpc : /\ PodFinish(r)
                          /\ sandboxes'[p] = [calls[r].sb EXCEPT !.state = "NOTREADY"]
<1> USE DEF TypeInv, TypeOK
<1>1. ASSUME NEW r \in Rpc, RunPut(r)
      PROVE  \/ sandboxes'[p] = sandboxes[p]
             \/ sandboxes'[p] = [state |-> "READY", containers |-> <<>>]
  BY <1>1 DEF RunPut, putSandbox
<1>2. ASSUME NEW r \in Rpc, CreatePutSandbox(r) \/ RemovePutSandbox(r)
      PROVE  sandboxes'[p] = sandboxes[p] \/ sandboxes'[p] = calls[r].sb
  BY <1>2 DEF CreatePutSandbox, RemovePutSandbox, putSandbox
<1>3. ASSUME NEW r \in Rpc, PodPut(r)
      PROVE  sandboxes'[p] = sandboxes[p] \/ sandboxes'[p] = calls'[r].sb
  BY <1>3 DEF PodPut, putSandbox, Call
<1>4. ASSUME NEW r \in Rpc, PodFinish(r)
      PROVE  \/ sandboxes'[p] = sandboxes[p]
             \/ sandboxes'[p] = [calls[r].sb EXCEPT !.state = "NOTREADY"]
  BY <1>4 DEF PodFinish, putSandbox
<1>5. ASSUME NEW r \in Rpc, PodErase(r)
      PROVE  sandboxes'[p] = sandboxes[p] \/ sandboxes'[p] = Nil
  BY <1>5 DEF PodErase, deleteSandbox
<1>6. Crash => sandboxes'[p] \in {Nil, sandboxes[p]}
  BY SMTT(30) DEF Crash
<1>7. \/ sandboxes' = sandboxes
      \/ Crash
      \/ \E r \in Rpc : \/ RunPut(r) \/ CreatePutSandbox(r) \/ RemovePutSandbox(r)
                       \/ PodPut(r) \/ PodFinish(r) \/ PodErase(r)
  BY DEF Next, Request, HandlerStep, TrackerStep, vars, store, RunPodSandbox,
         CreateContainer, CreatePutContainer, StartContainer, StartFails, StartSpawn, StartPut,
         Kill, KillFails, WaitTick, WaitTimeout, WaitCancelled, StopContainer, RemoveContainer,
         RemoveReadSandbox, RemoveDelete, EndPodSandbox, PodNext, PodDelete, Reply, TrackerWait,
         TrackerRead, TrackerWrite, MainExits, HelperExits
<1> QED  BY <1>1, <1>2, <1>3, <1>4, <1>5, <1>6, <1>7

NotReadyInv == TypeInv /\ SnapshotsEmpty /\ NotReadyIsEmpty

\* However the read-modify-writes of sandbox records overlap, none of them
\* leaves a NOTREADY sandbox that lists a container.
THEOREM NotReadyCorrect == Spec => []NotReadyIsEmpty
<1>1. Init => NotReadyInv
  BY TypeInit DEF Init, NotReadyInv, SnapshotsEmpty, NotReadyIsEmpty, NoCall
<1>2. NotReadyInv /\ [Next]_vars => NotReadyInv'
  <2> SUFFICES ASSUME NotReadyInv, [Next]_vars PROVE NotReadyInv'  OBVIOUS
  <2>1. TypeInv' /\ SnapshotsEmpty'
    BY TypeStep, SnapshotsStep DEF NotReadyInv
  <2>2. ASSUME NEW p \in Pod PROVE EmptyWhenNotReady(sandboxes'[p])
    <3>1. CASE sandboxes'[p] = sandboxes[p]
      BY <3>1 DEF NotReadyInv, NotReadyIsEmpty, EmptyWhenNotReady
    <3>2. CASE sandboxes'[p] = Nil \/ sandboxes'[p] = [state |-> "READY", containers |-> <<>>]
      BY <3>2 DEF EmptyWhenNotReady
    <3>3. ASSUME NEW r \in Rpc, sandboxes'[p] = calls[r].sb PROVE EmptyWhenNotReady(sandboxes'[p])
      BY <3>3 DEF NotReadyInv, SnapshotsEmpty, EmptyWhenNotReady
    <3>4. ASSUME NEW r \in Rpc, sandboxes'[p] = calls'[r].sb PROVE EmptyWhenNotReady(sandboxes'[p])
      BY <2>1, <3>4 DEF SnapshotsEmpty, EmptyWhenNotReady
    <3>5. ASSUME NEW r \in Rpc, PodFinish(r),
                 sandboxes'[p] = [calls[r].sb EXCEPT !.state = "NOTREADY"]
          PROVE  EmptyWhenNotReady(sandboxes'[p])
      <4>1. calls[r].sb \in Sandbox /\ calls[r].sb.containers = <<>>
        BY <3>5 DEF PodFinish, At, NotReadyInv, TypeInv, CallsShaped, CallShape, PodPcs
      <4> QED  BY <3>5, <4>1 DEF Sandbox, EmptyWhenNotReady
    <3> QED  BY <3>1, <3>2, <3>3, <3>4, <3>5, SandboxStep DEF NotReadyInv
  <2> QED  BY <2>1, <2>2 DEF NotReadyInv, NotReadyIsEmpty, EmptyWhenNotReady
<1>3. NotReadyInv => NotReadyIsEmpty
  BY DEF NotReadyInv
<1> QED  BY <1>1, <1>2, <1>3, PTL DEF Spec

-----------------------------------------------------------------------------
(***************************************************************************)
(* One process per container, when a client does not start one again.      *)
(***************************************************************************)
Starting(r, c) == calls[r].op = "StartContainer" /\ calls[r].cid = c

\* One start of a container is in flight at most, and only before it has a
\* process; then it has that one for good.
FirstStart ==
  \A r \in Rpc : calls[r].pc = "start_spawn" =>
    /\ calls[r].op = "StartContainer"
    /\ \A p \in Pid : procs[p].main # "unborn" => procs[p].cid # calls[r].cid

OneStart == \A r, s \in Rpc, c \in Cid : Starting(r, c) /\ Starting(s, c) => r = s

UnbornIsNobodys == \A p \in Pid : procs[p].main = "unborn" => procs[p].cid = Nil

OneSpawn ==
  \A p, q \in Pid :
    procs[p].main # "unborn" /\ procs[q].main # "unborn" /\ procs[p].cid = procs[q].cid => p = q

SpawnedOnce == FirstStart /\ OneStart /\ UnbornIsNobodys /\ OneSpawn

\* Where a request goes in a step, as far as starts are concerned.
LEMMA StartMoves ==
  ASSUME TypeInv, [Next]_vars, NEW r \in Rpc
  PROVE  \/ calls'[r] = calls[r]
         \/ calls'[r].op # "StartContainer" /\ calls'[r].pc # "start_spawn"
         \/ /\ calls'[r].op = calls[r].op /\ calls'[r].cid = calls[r].cid
            /\ calls'[r].pc # "start_spawn"
         \/ \E c \in used : StartContainer(r, c)
<1> USE DEF TypeInv, TypeOK
<1> DEFINE Moved(s) == \/ calls'[s] = calls[s]
                       \/ calls'[s].op # "StartContainer" /\ calls'[s].pc # "start_spawn"
                       \/ /\ calls'[s].op = calls[s].op /\ calls'[s].cid = calls[s].cid
                          /\ calls'[s].pc # "start_spawn"
                       \/ \E c \in used : StartContainer(s, c)
<1>1. ASSUME NEW s \in Rpc, NEW call, calls' = [calls EXCEPT ![s] = call],
             \/ call.op # "StartContainer" /\ call.pc # "start_spawn"
             \/ call.op = calls[s].op /\ call.cid = calls[s].cid /\ call.pc # "start_spawn"
             \/ \E c \in used : StartContainer(s, c)
      PROVE  Moved(r)
  <2>1. CASE s = r
    <3>1. calls'[r] = call
      BY <1>1, <2>1
    <3> QED  BY <1>1, <2>1, <3>1
  <2>2. CASE s # r
    BY <1>1, <2>2
  <2> QED  BY <2>1, <2>2
<1>2. ASSUME NEW s \in Rpc, NEW pc, pc # "start_spawn", Goto(s, pc) PROVE Moved(r)
  <2>1. PICK call : call = [calls[s] EXCEPT !.pc = pc]
    OBVIOUS
  <2>2. calls' = [calls EXCEPT ![s] = call]
    BY <1>2, <2>1 DEF Goto
  <2>3. call.op = calls[s].op /\ call.cid = calls[s].cid /\ call.pc = pc
    BY <2>1 DEF Call
  <2> HIDE DEF Moved
  <2> QED  BY <1>1, <1>2, <2>2, <2>3
<1> HIDE DEF Moved
<1>3. ASSUME NEW s \in Rpc, Request(s) PROVE Moved(r)
  <2>1. ASSUME NEW call, Arrive(s, call), call.op # "StartContainer", call.pc # "start_spawn"
        PROVE  Moved(r)
    BY <1>1, <2>1 DEF Arrive
  <2>2. ASSUME NEW p \in Pod, RunPodSandbox(s, p) PROVE Moved(r)
    BY <2>1, <2>2 DEF RunPodSandbox, NoCall
  <2>3. ASSUME NEW p \in Pod, CreateContainer(s, p) PROVE Moved(r)
    BY <2>1, <2>3 DEF CreateContainer, NoCall
  <2>4. ASSUME NEW p \in Pod, NEW op \in PodOps, EndPodSandbox(s, p, op) PROVE Moved(r)
    BY <2>1, <2>4 DEF EndPodSandbox, NoCall, PodOps
  <2>5. ASSUME NEW c \in used, StartContainer(s, c) PROVE Moved(r)
    BY <1>1, <2>5 DEF StartContainer, Arrive
  <2>6. ASSUME NEW c \in used, RemoveContainer(s, c) PROVE Moved(r)
    BY <2>1, <2>6 DEF RemoveContainer, NoCall
  <2>7. ASSUME NEW c \in used, NEW grace \in BOOLEAN, StopContainer(s, c, grace) PROVE Moved(r)
    <3>1. CASE containers[c] = Nil
      BY <2>1, <2>7, <3>1 DEF StopContainer, NoCall
    <3>2. CASE containers[c] # Nil
      <4>1. terminateContainer("StopContainer", containers[c]) # "start_spawn"
        BY DEF terminateContainer, afterTerminate
      <4> QED  BY <2>1, <2>7, <3>2, <4>1 DEF StopContainer, NoCall
    <3> QED  BY <3>1, <3>2
  <2> QED  BY <1>3, <2>2, <2>3, <2>4, <2>5, <2>6, <2>7 DEF Request
<1>4. ASSUME NEW s \in Rpc, HandlerStep(s) \/ WaitTimeout(s) \/ WaitCancelled(s) PROVE Moved(r)
  <2>1. \A op, cnt : /\ afterTerminate(op) # "start_spawn"
                     /\ terminateContainer(op, cnt) # "start_spawn"
    BY DEF terminateContainer, afterTerminate
  <2>2. ASSUME \/ RunPut(s) \/ CreatePutContainer(s) \/ CreatePutSandbox(s)
               \/ StartFails(s) \/ StartPut(s)
        PROVE  Moved(r)
    BY <1>2, <2>2 DEF RunPut, CreatePutContainer, CreatePutSandbox, StartFails, StartPut
  <2>3. ASSUME Kill(s) \/ KillFails(s) \/ WaitTick(s) \/ WaitTimeout(s) \/ WaitCancelled(s)
        PROVE  Moved(r)
    BY <1>2, <2>1, <2>3 DEF Kill, KillFails, WaitTick, WaitTimeout, WaitCancelled
  <2>4. ASSUME RemovePutSandbox(s) \/ RemoveDelete(s) \/ PodDelete(s) \/ PodFinish(s) \/ PodErase(s)
        PROVE  Moved(r)
    BY <1>2, <2>1, <2>4 DEF RemovePutSandbox, RemoveDelete, PodDelete, PodFinish, PodErase
  <2>5. ASSUME StartSpawn(s) PROVE Moved(r)
    <3>1. PICK p \in Pid :
            \/ calls' = [calls EXCEPT ![s] = [@ EXCEPT !.pc = "start_put", !.cnt.pid = p,
                                                       !.cnt.state = "RUNNING"]]
            \/ Goto(s, "error")
      BY <2>5 DEF StartSpawn
    <3>2. PICK call : call = [calls[s] EXCEPT !.pc = "start_put", !.cnt.pid = p,
                                              !.cnt.state = "RUNNING"]
      OBVIOUS
    <3>3. call.op = calls[s].op /\ call.cid = calls[s].cid /\ call.pc = "start_put"
      BY <3>2, SMTT(30) DEF Call
    <3> QED  BY <1>1, <1>2, <3>1, <3>2, <3>3
  <2>6. ASSUME RemoveReadSandbox(s) PROVE Moved(r)
    <3>1. ASSUME NEW sb, calls' = [calls EXCEPT ![s] = [@ EXCEPT !.pc = "remove_put", !.sb = sb]]
          PROVE  Moved(r)
      <4>1. PICK call : call = [calls[s] EXCEPT !.pc = "remove_put", !.sb = sb]
        OBVIOUS
      <4>2. call.op = calls[s].op /\ call.cid = calls[s].cid /\ call.pc = "remove_put"
        BY <4>1 DEF Call
      <4> QED  BY <1>1, <3>1, <4>1, <4>2
    <3> QED  BY <1>2, <2>1, <2>6, <3>1 DEF RemoveReadSandbox
  <2>7. ASSUME PodNext(s) \/ PodPut(s) PROVE Moved(r)
    <3>1. calls[s].op \in PodOps
      BY <2>7 DEF PodNext, PodPut, At, CallsShaped, CallShape, PodPcs
    <3>2. PICK call : calls' = [calls EXCEPT ![s] = call] /\ call.op = calls[s].op
                      /\ call.pc # "start_spawn"
      <4>1. CASE PodNext(s)
        <5>1. PICK c : c = Head(calls[s].sb.containers)
          OBVIOUS
        <5>2. PICK pc : pc = IF containers[c] = Nil THEN "pod_put"
                             ELSE terminateContainer(calls[s].op, containers[c])
          OBVIOUS
        <5>3. pc # "start_spawn"
          BY <2>1, <5>2
        <5>4. calls' = [calls EXCEPT ![s] = [@ EXCEPT !.cid = c, !.cnt = containers[c], !.pc = pc]]
          BY <4>1, <5>1, <5>2 DEF PodNext
        <5>5. PICK call : call = [calls[s] EXCEPT !.cid = c, !.cnt = containers[c], !.pc = pc]
          OBVIOUS
        <5>6. calls' = [calls EXCEPT ![s] = call]
          BY <5>4, <5>5
        <5>7. call.op = calls[s].op /\ call.pc = pc
          BY <5>5 DEF Call
        <5> QED  BY <5>3, <5>6, <5>7
      <4>2. CASE PodPut(s)
        <5>1. PICK sb : calls' = [calls EXCEPT ![s] = [@ EXCEPT !.sb = sb, !.pc = "pod_next"]]
          BY <4>2 DEF PodPut
        <5>2. PICK call : call = [calls[s] EXCEPT !.sb = sb, !.pc = "pod_next"]
          OBVIOUS
        <5>3. calls' = [calls EXCEPT ![s] = call]
          BY <5>1, <5>2
        <5>4. call.op = calls[s].op /\ call.pc = "pod_next"
          BY <5>2 DEF Call
        <5> QED  BY <5>3, <5>4
      <4> QED  BY <2>7, <4>1, <4>2
    <3> QED  BY <1>1, <3>1, <3>2 DEF PodOps
  <2>8. ASSUME Reply(s) PROVE Moved(r)
    BY <1>1, <2>8 DEF Reply, NoCall
  <2> QED  BY <1>4, <2>2, <2>3, <2>4, <2>5, <2>6, <2>7, <2>8 DEF HandlerStep
<1>5. ASSUME UNCHANGED calls PROVE Moved(r)
  BY <1>5 DEF Moved
<1>6. ASSUME Crash PROVE Moved(r)
  BY <1>6 DEF Crash, NoCall, Moved
<1>7. \/ UNCHANGED calls
      \/ \E s \in Rpc : Request(s) \/ HandlerStep(s) \/ WaitTimeout(s) \/ WaitCancelled(s)
      \/ Crash
  BY DEF Next, TrackerStep, TrackerWait, TrackerRead, TrackerWrite, MainExits, HelperExits, vars
<1>8. Moved(r)
  BY ONLY <1>3, <1>4, <1>5, <1>6, <1>7, Zenon
<1> QED  BY <1>8 DEF Moved

\* A process is born by a StartContainer, one at a time.
LEMMA BirthIs ==
  ASSUME TypeInv, [Next]_vars, NEW p \in Pid, procs[p].main = "unborn"
  PROVE  \/ procs'[p].main = "unborn" /\ procs'[p].cid = procs[p].cid
         \/ \E r \in Rpc :
              /\ StartSpawn(r) /\ procs'[p].cid = calls[r].cid
              /\ procs'[p].main # "unborn"
              /\ \A q \in Pid : q # p => procs'[q] = procs[q]
<1> USE DEF TypeInv, TypeOK
<1>1. ASSUME NEW r \in Rpc, StartSpawn(r), procs'[p] # procs[p]
      PROVE  /\ procs'[p].cid = calls[r].cid /\ procs'[p].main # "unborn"
             /\ \A q \in Pid : q # p => procs'[q] = procs[q]
  BY <1>1 DEF StartSpawn
<1>2. ASSUME NEW r \in Rpc, WaitTimeout(r) \/ WaitCancelled(r) PROVE procs'[p] = procs[p]
  BY <1>2 DEF WaitTimeout, WaitCancelled, SigKill, Process
<1>3. ASSUME NEW q \in Pid, TrackerWait(q) \/ MainExits(q) PROVE procs'[p] = procs[p]
  BY <1>3 DEF TrackerWait, MainExits, Process
<1>4. ASSUME NEW q \in Pid, HelperExits(q)
      PROVE  procs'[p].main = "unborn" /\ procs'[p].cid = procs[p].cid
  BY <1>4 DEF HelperExits, Process
<1>5. Crash => procs'[p] = procs[p]
  BY DEF Crash, Process
<1> QED  BY <1>1, <1>2, <1>3, <1>4, <1>5, ProcsMoves

\* A start that goes wrong may be tried again, and other requests may race with
\* it; still a container has one process at most.
LEMMA SpawnedOnceStep ==
  ASSUME "again" \notin Faults
  PROVE  TypeInv /\ SpawnedOnce /\ [Next]_vars => SpawnedOnce'
<1> SUFFICES ASSUME TypeInv, SpawnedOnce, [Next]_vars PROVE SpawnedOnce'  OBVIOUS
<1>0. used \subseteq Cid /\ Nil \notin Cid
  BY NilAssumption DEF TypeInv, TypeOK
<1>1. ASSUME NEW r \in Rpc, NEW c \in used, StartContainer(r, c)
      PROVE  /\ firstStart(c) /\ calls'[r].cid = c /\ calls'[r].op = "StartContainer"
             /\ \A s \in Rpc : s # r => calls'[s] = calls[s]
             /\ procs' = procs /\ calls[r].pc = "idle"
  BY <1>1 DEF StartContainer, Arrive, NoCall, host, TypeInv, TypeOK
<1>2. ASSUME NEW r \in Rpc, NEW s \in Rpc, NEW c \in Cid, Starting(r, c)', Starting(s, c)'
      PROVE  r = s
  <2>1. ASSUME NEW t \in Rpc, Starting(t, c)',
               ~\E d \in used : StartContainer(t, d)
        PROVE  Starting(t, c)
    BY <2>1, StartMoves DEF Starting
  <2>2. ASSUME NEW t \in Rpc, NEW d \in used, StartContainer(t, d), Starting(t, c)',
               NEW o \in Rpc, Starting(o, c)'
        PROVE  o = t
    <3>1. d = c /\ firstStart(c) /\ \A v \in Rpc : v # t => calls'[v] = calls[v]
      BY <1>1, <2>2 DEF Starting
    <3>2. ~Starting(o, c)
      BY <3>1 DEF firstStart, Starting
    <3> QED  BY <2>2, <3>1, <3>2 DEF Starting
  <2> QED  BY <1>2, <2>1, <2>2 DEF SpawnedOnce, OneStart
<1>3. ASSUME NEW p \in Pid, procs'[p].main = "unborn" PROVE procs'[p].cid = Nil
  <2>1. procs[p].main = "unborn"
    BY <1>3, BornStays
  <2> QED  BY <1>3, <2>1, BirthIs DEF SpawnedOnce, UnbornIsNobodys
<1>4. ASSUME NEW p \in Pid, procs[p].main = "unborn", procs'[p].main # "unborn"
      PROVE  \E r \in Rpc :
               /\ StartSpawn(r) /\ procs'[p].cid = calls[r].cid
               /\ \A q \in Pid : q # p => procs'[q] = procs[q]
               /\ \A q \in Pid : procs[q].main # "unborn" => procs[q].cid # calls[r].cid
  <2>1. PICK r \in Rpc : /\ StartSpawn(r) /\ procs'[p].cid = calls[r].cid
                         /\ \A q \in Pid : q # p => procs'[q] = procs[q]
    BY <1>4, BirthIs
  <2> QED  BY <2>1 DEF StartSpawn, At, SpawnedOnce, FirstStart
<1>5. ASSUME NEW p \in Pid, NEW q \in Pid, procs'[p].main # "unborn", procs'[q].main # "unborn",
             procs'[p].cid = procs'[q].cid
      PROVE  p = q
  <2>1. CASE procs[p].main # "unborn" /\ procs[q].main # "unborn"
    BY <1>5, <2>1, BornStays DEF SpawnedOnce, OneSpawn
  <2>2. CASE procs[p].main = "unborn"
    BY <1>4, <1>5, <2>2
  <2>3. CASE procs[q].main = "unborn"
    BY <1>4, <1>5, <2>3
  <2> QED  BY <2>1, <2>2, <2>3
<1>6. ASSUME NEW r \in Rpc, calls'[r].pc = "start_spawn"
      PROVE  /\ calls'[r].op = "StartContainer"
             /\ \A p \in Pid : procs'[p].main # "unborn" => procs'[p].cid # calls'[r].cid
  <2>1. CASE \E c \in used : StartContainer(r, c)
    <3>1. PICK c \in used : StartContainer(r, c)
      BY <2>1
    <3> QED  BY <1>1, <3>1 DEF firstStart
  <2>2. CASE ~\E c \in used : StartContainer(r, c)
    <3>1. calls'[r] = calls[r]
      BY <1>6, <2>2, StartMoves
    <3>2. calls[r].op = "StartContainer" /\ calls[r].pc = "start_spawn" /\ calls[r].cid \in Cid
      BY <1>6, <3>1 DEF SpawnedOnce, FirstStart, TypeInv, CallsShaped, CallShape
    <3>3. ASSUME NEW p \in Pid, procs'[p].main # "unborn" PROVE procs'[p].cid # calls[r].cid
      <4>1. CASE procs[p].main # "unborn"
        BY <3>2, <4>1, BornStays DEF SpawnedOnce, FirstStart
      <4>2. CASE procs[p].main = "unborn"
        <5>1. PICK s \in Rpc : StartSpawn(s) /\ procs'[p].cid = calls[s].cid
          BY <1>4, <3>3, <4>2
        <5>2. calls'[s].pc # "start_spawn" /\ calls[s].op = "StartContainer"
          <6>1. calls'[s].pc # "start_spawn"
            <7>1. PICK pid \in Pid :
                    \/ calls' = [calls EXCEPT ![s] = [@ EXCEPT !.pc = "start_put", !.cnt.pid = pid,
                                                               !.cnt.state = "RUNNING"]]
                    \/ Goto(s, "error")
              BY <5>1 DEF StartSpawn
            <7>2. PICK call : call = [calls[s] EXCEPT !.pc = "start_put", !.cnt.pid = pid,
                                                      !.cnt.state = "RUNNING"]
              OBVIOUS
            <7>3. call.pc = "start_put"
              BY <7>2 DEF TypeInv, TypeOK, Call
            <7>4. CASE calls' = [calls EXCEPT ![s] = call]
              BY <7>3, <7>4 DEF TypeInv, TypeOK
            <7>5. CASE Goto(s, "error")
              BY <7>5 DEF Goto, TypeInv, TypeOK, Call
            <7> QED  BY <7>1, <7>2, <7>4, <7>5
          <6> QED  BY <5>1, <6>1 DEF StartSpawn, At, SpawnedOnce, FirstStart
        <5>3. s # r
          BY <1>6, <5>2
        <5> QED  BY <3>2, <5>1, <5>2, <5>3 DEF SpawnedOnce, OneStart, Starting
      <4> QED  BY <4>1, <4>2
    <3> QED  BY <3>1, <3>2, <3>3
  <2> QED  BY <2>1, <2>2
<1>7. FirstStart'
  BY <1>6 DEF FirstStart
<1>8. OneStart'
  BY <1>2 DEF OneStart
<1>9. UnbornIsNobodys'
  BY <1>3 DEF UnbornIsNobodys
<1>10. OneSpawn'
  <2> SUFFICES ASSUME NEW p \in Pid, NEW q \in Pid, procs'[p].main # "unborn",
                      procs'[q].main # "unborn", procs'[p].cid = procs'[q].cid
               PROVE  p = q
    BY DEF OneSpawn
  <2> QED  BY <1>5
<1> QED  BY <1>7, <1>8, <1>9, <1>10 DEF SpawnedOnce

\* At first there is no process and no call.
LEMMA SpawnedOnceInit == Init => SpawnedOnce
<1> SUFFICES ASSUME Init PROVE SpawnedOnce  OBVIOUS
<1>1. /\ \A r \in Rpc : calls[r].pc = "idle" /\ calls[r].op = "none"
      /\ \A p \in Pid : procs[p].main = "unborn" /\ procs[p].cid = Nil
  BY DEF Init, NoCall, Unborn
<1>2. FirstStart /\ OneStart /\ UnbornIsNobodys
  BY <1>1 DEF FirstStart, OneStart, UnbornIsNobodys, Starting
<1>3. OneSpawn
  BY <1>1 DEF OneSpawn
<1> QED  BY <1>2, <1>3 DEF SpawnedOnce

\* A container has one process at most, however many clients race, as long as
\* none of them starts a container again: nothing else can start it twice.
THEOREM OneSpawnCorrect ==
  ASSUME "again" \notin Faults
  PROVE  Spec => []OneSpawn
<1>1. TypeInv /\ SpawnedOnce /\ [Next]_vars => (TypeInv /\ SpawnedOnce)'
  BY TypeStep, SpawnedOnceStep
<1>2. SpawnedOnce => OneSpawn
  BY DEF SpawnedOnce
<1> QED  BY <1>1, <1>2, SpawnedOnceInit, TypeInit, PTL DEF Spec
=============================================================================
