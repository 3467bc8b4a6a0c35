------------------------ MODULE RuntimeClientProofs ------------------------
(***************************************************************************)
(* What RuntimeService promises a client with one request in flight that   *)
(* starts each container once, for any pods, containers, processes and     *)
(* faults but a failing store.                                             *)
(***************************************************************************)
EXTENDS RuntimeLifecycle, RuntimeServiceProofs

OneClient ==
  /\ \A r, s \in Rpc : r = s
  /\ "again" \notin Faults /\ "store" \notin Faults

Born(p) == procs[p].main # "unborn"
Alive(p) == procs[p].main = "alive"

\* A process without a tracker, because its start failed or was cut short by a
\* crash, is out of the service's sight.
Escaped(p) == trackers[p].pc \in {"none", "orphan"}

\* A container has one process at most.
OneProcess ==
  /\ \A p, q \in Pid : Born(p) /\ Born(q) /\ procs[p].cid = procs[q].cid => p = q
  /\ \A p \in Pid : Born(p) => procs[p].cid \in used

\* A record without a pid is one of a container that was never started.
RecordShape ==
  \A c \in Cid : containers[c] # Nil =>
    c \in used /\ (containers[c].state = "CREATED" <=> containers[c].pid = 0)

\* A tracker writes back the record as it still is, or one that was erased.
TrackerKept ==
  \A p \in Pid : trackers[p].pc = "write" => containers[procs[p].cid] \in {Nil, trackers[p].cnt}

\* A program that is alive and in sight is RUNNING in its container's record.
AliveIsRunning ==
  \A p \in Pid : Alive(p) /\ ~Escaped(p) =>
    /\ ownedBy(containers[procs[p].cid], p)
    /\ containers[procs[p].cid].state = "RUNNING"

Dead(c) == \A p \in Pid : Alive(p) /\ procs[p].cid = c => Escaped(p)

\* What the one call finds where it goes on: the record that it read, which at
\* most the tracker has changed, and no live program once it has terminated it.
Fits(call) ==
  LET rec == containers[call.cid] IN
  /\ call.pc = "create_putc" => rec = Nil
  /\ call.pc \in {"create_putc", "start_spawn"} => \A p \in Pid : Born(p) => procs[p].cid # call.cid
  /\ call.pc = "start_spawn" => rec = call.cnt /\ rec.state = "CREATED"
  /\ call.pc = "start_put" => /\ rec # Nil /\ rec.state = "CREATED" /\ rec.pod = call.cnt.pod
                              /\ trackers[call.cnt.pid].pc = "none"
  /\ call.pc \in {"remove_read", "remove_put", "kill", "wait"} => rec \in {call.cnt, exited(call.cnt)}
  /\ call.pc \in {"kill", "wait"} => call.cnt.state = "RUNNING"
  /\ call.pc \in {"remove_delete", "pod_delete", "pod_put"} => Dead(call.cid)
  /\ call.op = "StopContainer" => call.pc \in {"kill", "wait", "ok", "error"}
  /\ call.op = "StopContainer" /\ call.pc \in {"ok", "error"} /\ stillRunning(call.cnt)
       => call.cnt.pid \in Pid /\ ~Alive(call.cnt.pid)

Claimed(call) == call.pc = "create_putc" => call.cid \in used

HostInv == OneProcess /\ RecordShape /\ TrackerKept /\ AliveIsRunning
CallsFit == \A r \in Rpc : Fits(calls[r]) /\ Claimed(calls[r])
ClientInv == HostInv /\ CallsFit

\* What holds of any number of clients.
Base == TypeInv /\ TrackersReaped /\ RecordsOwn /\ ExitedIsReaped

-----------------------------------------------------------------------------
\* The invariants of any number of clients, together.
LEMMA BaseCorrect == Spec => []Base
<1>1. Init => TypeInv /\ TrackersReaped /\ RecordsOwn
  BY TypeInit DEF Init, TrackersReaped, RecordsOwn, Untracked
<1>2. TypeInv /\ TrackersReaped /\ RecordsOwn /\ [Next]_vars
        => (TypeInv /\ TrackersReaped /\ RecordsOwn)'
  BY TypeStep, TrackersStep, RecordsOwnStep
<1> QED  BY <1>1, <1>2, ExitedCorrect, PTL DEF Spec, Base

\* A handler's step along its own path leaves the rest of its call alone.
LEMMA GotoIs ==
  ASSUME TypeInv, NEW r \in Rpc, NEW pc, Goto(r, pc)
  PROVE  /\ calls'[r].pc = pc /\ calls'[r].op = calls[r].op
         /\ calls'[r].cid = calls[r].cid /\ calls'[r].cnt = calls[r].cnt
         /\ calls'[r].pod = calls[r].pod /\ calls'[r].sb = calls[r].sb
  BY DEF Goto, TypeInv, TypeOK, Call

\* Most places need nothing.
LEMMA FitsAnyway ==
  ASSUME NEW call, call.op # "StopContainer",
         call.pc \in {"idle", "ok", "error", "run_put", "create_puts", "pod_next", "pod_erase"}
  PROVE  Fits(call)
  BY DEF Fits

\* A record that is not RUNNING has no live program in sight.
LEMMA NotRunningIsDead ==
  ASSUME AliveIsRunning, NEW c, containers[c] = Nil \/ containers[c].state # "RUNNING"
  PROVE  Dead(c)
  BY DEF AliveIsRunning, Dead, ownedBy

\* A call enters terminateContainer with the record it read.
LEMMA Entered ==
  ASSUME Base, ClientInv, NEW call, call.op \in TerminateOps, call.cid \in Cid,
         call.cnt \in Container, call.pc = terminateContainer(call.op, call.cnt),
         containers[call.cid] \in {call.cnt, exited(call.cnt)}
  PROVE  Fits(call)
<1> DEFINE rec == containers[call.cid]
<1>1. exited(call.cnt) \in Container /\ exited(call.cnt).state = "EXITED"
      /\ exited(call.cnt).pid = call.cnt.pid
  BY DEF exited, Container
<1>2. rec # Nil
  BY <1>1, NilAssumption
<1>3. call.cnt.state = "RUNNING" => call.cnt.pid # 0
  BY <1>1, <1>2 DEF ClientInv, HostInv, RecordShape
<1>4. CASE call.cnt.state = "RUNNING"
  <2>1. call.pc = "kill"
    BY <1>3, <1>4 DEF terminateContainer
  <2> QED  BY <1>4, <2>1 DEF Fits
<1>5. CASE call.cnt.state # "RUNNING"
  <2>1. call.pc = afterTerminate(call.op)
    BY <1>5 DEF terminateContainer
  <2>2. /\ call.pc \in {"ok", "remove_delete", "pod_delete"}
        /\ call.op = "StopContainer" => call.pc = "ok"
    BY <2>1 DEF afterTerminate, TerminateOps, PodOps
  <2>3. Dead(call.cid)
    BY <1>1, <1>5, NotRunningIsDead DEF ClientInv, HostInv
  <2> QED  BY <1>5, <2>2, <2>3 DEF Fits, stillRunning
<1> QED  BY <1>4, <1>5

-----------------------------------------------------------------------------
(***************************************************************************)
(* Steps of the handler that leave the containers' records and the host    *)
(* alone.                                                                  *)
(***************************************************************************)

\* Such a step has to fit the call to where it goes, and no more.
LEMMA QuietStep ==
  ASSUME OneClient, ClientInv, UNCHANGED <<containers, host>>, used \subseteq used',
         NEW r \in Rpc, Fits(calls'[r]), calls'[r].pc = "create_putc" => calls'[r].cid \in used'
  PROVE  ClientInv'
<1>1. UNCHANGED <<containers, procs, trackers>>
  BY DEF host
<1>2. OneProcess' /\ RecordShape'
  BY <1>1 DEF ClientInv, HostInv, OneProcess, RecordShape, Born
<1>3. TrackerKept' /\ AliveIsRunning'
  BY <1>1 DEF ClientInv, HostInv, TrackerKept, AliveIsRunning, Alive, Escaped
<1>4. CallsFit'
  BY <1>1 DEF OneClient, CallsFit, Claimed, Fits, Born, Dead, Alive, Escaped
<1> QED  BY <1>2, <1>3, <1>4 DEF ClientInv, HostInv

\* A request has arrived.
LEMMA RequestFits ==
  ASSUME OneClient, Base, ClientInv, NEW r \in Rpc, Request(r)
  PROVE  ClientInv'
<1> DEFINE call == calls'[r]
<1>0. TypeInv /\ \A s \in Rpc : s = r
  BY DEF OneClient, Base
<1>1. ASSUME NEW p \in Pod, RunPodSandbox(r, p) PROVE ClientInv'
  <2>1. call.op = "RunPodSandbox" /\ call.pc \in {"run_put", "error"}
    BY <1>0, <1>1 DEF Arrive, TypeInv, TypeOK, RunPodSandbox, NoCall
  <2> HIDE DEF call
  <2>2. Fits(call)
    BY <2>1, FitsAnyway
  <2> QED  BY <1>0, <1>1, <2>1, <2>2, QuietStep DEF RunPodSandbox, store, call
<1>2. ASSUME NEW p \in Pod, CreateContainer(r, p) PROVE ClientInv'
  <2>1. CASE ~isReady(sandboxes[p])
    <3>1. call.op = "CreateContainer" /\ call.pc = "error" /\ UNCHANGED used
      BY ZenonT(60), <1>0, <1>2, <2>1 DEF Arrive, TypeInv, TypeOK, CreateContainer, NoCall
    <3> HIDE DEF call
    <3>2. Fits(call)
      BY <3>1, FitsAnyway
    <3> QED  BY <1>0, <1>2, <3>1, <3>2, QuietStep DEF CreateContainer, store, call
  <2>2. CASE isReady(sandboxes[p])
    <3>1. PICK c \in Cid \ used :
            /\ used' = used \cup {c}
            /\ Arrive(r, [NoCall EXCEPT !.op = "CreateContainer", !.pod = p,
                                         !.cid = c, !.pc = "create_putc",
                                         !.sb = [sandboxes[p] EXCEPT !.containers = Append(@, c)]])
      BY <1>2, <2>2 DEF CreateContainer
    <3>2. call.op = "CreateContainer" /\ call.pc = "create_putc" /\ call.cid = c
      BY <1>0, <3>1 DEF Arrive, TypeInv, TypeOK, NoCall
    <3>3. containers[c] = Nil /\ \A q \in Pid : Born(q) => procs[q].cid # c
      BY <3>1 DEF ClientInv, HostInv, RecordShape, OneProcess
    <3> HIDE DEF call
    <3>4. Fits(call)
      BY <3>2, <3>3 DEF Fits
    <3> QED  BY <1>0, <1>2, <3>1, <3>2, <3>4, QuietStep DEF CreateContainer, store, call
  <2> QED  BY <2>1, <2>2
<1>3. ASSUME NEW p \in Pod, NEW op \in PodOps, EndPodSandbox(r, p, op) PROVE ClientInv'
  <2>1. call.op \in PodOps /\ call.pc \in {"ok", "pod_next"}
    BY <1>0, <1>3 DEF Arrive, TypeInv, TypeOK, EndPodSandbox, NoCall
  <2> HIDE DEF call
  <2>2. Fits(call)
    BY <2>1, FitsAnyway DEF PodOps
  <2> QED  BY <1>0, <1>3, <2>1, <2>2, QuietStep DEF EndPodSandbox, store, call
<1>4. ASSUME NEW c \in used, StartContainer(r, c) PROVE ClientInv'
  <2>1. /\ call.op = "StartContainer" /\ call.cid = c /\ call.cnt = containers[c]
        /\ call.pc = IF containers[c] = Nil THEN "error" ELSE "start_spawn"
    BY <1>0, <1>4 DEF Arrive, TypeInv, TypeOK, StartContainer, NoCall
  <2>2. firstStart(c) /\ c \in Cid
    BY <1>4 DEF StartContainer, OneClient, Base, TypeInv, TypeOK
  <2>3. ASSUME containers[c] # Nil PROVE containers[c].state = "CREATED"
    <3>1. containers[c] \in Container
      BY <2>2, <2>3 DEF Base, TypeInv, TypeOK
    <3>2. containers[c].pid \notin Pid
      BY <2>2, <2>3 DEF firstStart, Base, RecordsOwn
    <3> QED  BY <2>2, <2>3, <3>1, <3>2 DEF Container, ClientInv, HostInv, RecordShape
  <2> HIDE DEF call
  <2>4. Fits(call)
    BY <2>1, <2>2, <2>3 DEF Fits, firstStart
  <2> QED  BY <1>0, <1>4, <2>1, <2>4, QuietStep DEF StartContainer, store, call
<1>5. ASSUME NEW c \in used, RemoveContainer(r, c) PROVE ClientInv'
  <2>1. /\ call.op = "RemoveContainer" /\ call.cid = c /\ call.cnt = containers[c]
        /\ call.pc \in {"ok", "remove_read"}
    BY <1>0, <1>5 DEF Arrive, TypeInv, TypeOK, RemoveContainer, NoCall
  <2> HIDE DEF call
  <2>2. Fits(call)
    BY <2>1 DEF Fits
  <2> QED  BY <1>0, <1>5, <2>1, <2>2, QuietStep DEF RemoveContainer, store, call
<1>6. ASSUME NEW c \in used, NEW grace \in BOOLEAN, StopContainer(r, c, grace) PROVE ClientInv'
  <2>1. /\ call.op = "StopContainer" /\ call.cid = c /\ call.cnt = containers[c]
        /\ call.pc = IF containers[c] = Nil THEN "error"
                     ELSE terminateContainer("StopContainer", containers[c])
    BY <1>0, <1>6 DEF Arrive, TypeInv, TypeOK, StopContainer, NoCall
  <2>2. c \in Cid /\ containers[c] \in Container \cup {Nil}
    BY DEF Base, TypeInv, TypeOK
  <2> HIDE DEF call
  <2>3. CASE containers[c] = Nil
    <3>1. Fits(call) /\ call.pc # "create_putc"
      BY <2>1, <2>3 DEF Fits, stillRunning
    <3> QED  BY <1>0, <1>6, <3>1, QuietStep DEF StopContainer, store, call
  <2>4. CASE containers[c] # Nil
    <3>1. Fits(call)
      BY <2>1, <2>2, <2>4, Entered DEF TerminateOps
    <3>2. call.pc # "create_putc"
      BY <2>1, <2>2, <2>4, TerminatePc DEF TerminateOps, PodOps
    <3> QED  BY <1>0, <1>6, <3>1, <3>2, QuietStep DEF StopContainer, store, call
  <2> QED  BY <2>3, <2>4
<1> QED  BY <1>1, <1>2, <1>3, <1>4, <1>5, <1>6 DEF Request

\* A call that has found its program dead goes on from terminateContainer.
LEMMA LeavesTerminate ==
  ASSUME NEW call, call.op \in TerminateOps, call.pc = afterTerminate(call.op),
         Dead(call.cid), call.cnt.pid \in Pid, ~Alive(call.cnt.pid)
  PROVE  Fits(call) /\ call.pc # "create_putc"
<1>1. /\ call.pc \in {"ok", "remove_delete", "pod_delete"}
      /\ call.op = "StopContainer" => call.pc = "ok"
  BY DEF afterTerminate, TerminateOps, PodOps
<1> QED  BY <1>1 DEF Fits

\* The record of a call in terminateContainer names the container's process.
LEMMA TerminatedProcess ==
  ASSUME Base, ClientInv, NEW r \in Rpc, calls[r].pc \in {"kill", "wait"}
  PROVE  LET call == calls[r] rec == containers[call.cid] IN
         /\ call \in Call /\ call.op \in TerminateOps /\ call.cid \in Cid /\ call.cnt.pid \in Pid
         /\ rec \in Container /\ rec.pid = call.cnt.pid
         /\ rec.state = "RUNNING" \/ rec.state = "EXITED"
         /\ \A p \in Pid : Born(p) /\ procs[p].cid = call.cid => p = call.cnt.pid
         /\ Born(call.cnt.pid) /\ procs[call.cnt.pid].cid = call.cid
<1> DEFINE call == calls[r]
           rec == containers[call.cid]
<1>1. /\ call \in Call /\ call.op \in TerminateOps /\ call.cid \in Cid
      /\ call.cnt \in Container /\ call.cnt.pid \in Pid
  BY DEF Base, TypeInv, TypeOK, CallsShaped, CallShape, TerminateOps
<1>2. rec \in {call.cnt, exited(call.cnt)} /\ call.cnt.state = "RUNNING"
  BY DEF ClientInv, CallsFit, Fits
<1>3. exited(call.cnt) \in Container /\ exited(call.cnt).state = "EXITED"
      /\ exited(call.cnt).pid = call.cnt.pid
  BY <1>1 DEF exited, Container
<1>4. rec \in Container /\ rec.pid = call.cnt.pid /\ (rec.state = "RUNNING" \/ rec.state = "EXITED")
  BY <1>1, <1>2, <1>3
<1>5. Born(rec.pid) /\ procs[rec.pid].cid = call.cid
  BY <1>1, <1>4, NilAssumption DEF Base, RecordsOwn, Born
<1> QED  BY <1>1, <1>4, <1>5 DEF ClientInv, HostInv, OneProcess

\* The handler goes on without a write.
LEMMA MovesFit ==
  ASSUME OneClient, Base, ClientInv, NEW r \in Rpc,
         \/ StartFails(r) \/ Kill(r) \/ KillFails(r) \/ WaitTick(r)
         \/ RemoveReadSandbox(r) \/ PodNext(r) \/ Reply(r)
  PROVE  ClientInv'
<1> DEFINE call == calls'[r]
<1>0. TypeInv /\ Fits(calls[r]) /\ calls[r] \in Call
  BY DEF Base, ClientInv, CallsFit, TypeInv, TypeOK
<1>1. CASE StartFails(r)
  <2>1. calls[r].pc = "start_spawn" /\ call.op = calls[r].op /\ call.pc = "error"
    BY <1>0, <1>1, GotoIs DEF StartFails, At
  <2>2. call.op # "StopContainer"
    BY <1>0, <2>1 DEF Fits
  <2> HIDE DEF call
  <2>3. Fits(call)
    BY <2>1, <2>2, FitsAnyway
  <2> QED  BY <1>1, <2>1, <2>3, QuietStep DEF StartFails, store, call
<1>2. CASE Kill(r)
  <2>1. /\ calls[r].pc = "kill" /\ call.op = calls[r].op /\ call.pc = "wait"
        /\ call.cid = calls[r].cid /\ call.cnt = calls[r].cnt
    BY <1>0, <1>2, GotoIs DEF Kill, At
  <2> HIDE DEF call
  <2>2. Fits(call)
    BY <1>0, <2>1 DEF Fits
  <2> QED  BY <1>2, <2>1, <2>2, QuietStep DEF Kill, store, call
<1>3. CASE KillFails(r) \/ WaitTick(r)
  <2>1. /\ calls[r].pc \in {"kill", "wait"} /\ call.op = calls[r].op
        /\ call.pc = afterTerminate(calls[r].op)
        /\ call.cid = calls[r].cid /\ call.cnt = calls[r].cnt
    BY <1>0, <1>3, GotoIs DEF KillFails, WaitTick, At
  <2>2. call.cnt.pid \in Pid /\ ~Alive(call.cnt.pid)
    <3>0. call.cnt.pid \in Pid
      BY <2>1, TerminatedProcess
    <3>1. CASE KillFails(r)
      BY <2>1, <3>0, <3>1 DEF KillFails, Alive
    <3>2. CASE WaitTick(r)
      <4>1. containers[call.cid].state = "EXITED" /\ containers[call.cid] # Nil
            /\ containers[call.cid].pid = call.cnt.pid /\ call.cid \in Cid
        BY <2>1, <3>2, TerminatedProcess, NilAssumption DEF WaitTick, stillRunning
      <4> QED  BY <3>0, <4>1 DEF Base, ExitedIsReaped, Alive
    <3> QED  BY <1>3, <3>1, <3>2
  <2>3. Dead(call.cid)
    BY <2>1, <2>2, TerminatedProcess DEF Dead, Alive, Born
  <2>4. call.op \in TerminateOps
    BY <2>1, TerminatedProcess
  <2> HIDE DEF call
  <2>5. Fits(call) /\ call.pc # "create_putc"
    BY <2>1, <2>2, <2>3, <2>4, LeavesTerminate
  <2> QED  BY <1>3, <2>5, QuietStep DEF KillFails, WaitTick, store, call
<1>4. CASE RemoveReadSandbox(r)
  <2>1. /\ calls[r].pc = "remove_read" /\ calls[r].op = "RemoveContainer"
        /\ calls[r].cid \in Cid /\ calls[r].cnt \in Container
        /\ containers[calls[r].cid] \in {calls[r].cnt, exited(calls[r].cnt)}
    BY <1>0, <1>4 DEF RemoveReadSandbox, At, TypeInv, CallsShaped, CallShape, RemovePcs, Fits
  <2>2. /\ call.op = calls[r].op /\ call.cid = calls[r].cid /\ call.cnt = calls[r].cnt
        /\ \/ call.pc = "remove_put"
           \/ call.pc = terminateContainer("RemoveContainer", calls[r].cnt)
    <3>1. CASE Goto(r, terminateContainer("RemoveContainer", calls[r].cnt))
      BY <1>0, <3>1 DEF Goto, TypeInv, TypeOK, Call
    <3>2. ASSUME NEW sb, calls' = [calls EXCEPT ![r] = [@ EXCEPT !.pc = "remove_put", !.sb = sb]]
          PROVE  /\ call.op = calls[r].op /\ call.cid = calls[r].cid /\ call.cnt = calls[r].cnt
                 /\ call.pc = "remove_put"
      BY SMTT(30), <1>0, <3>2 DEF TypeInv, TypeOK, Call
    <3> QED  BY <1>4, <3>1, <3>2 DEF RemoveReadSandbox
  <2> HIDE DEF call
  <2>3. CASE call.pc = "remove_put"
    <3>1. Fits(call)
      BY SMTT(30), <2>1, <2>2, <2>3 DEF Fits
    <3> QED  BY <1>4, <2>3, <3>1, QuietStep DEF RemoveReadSandbox, store, call
  <2>4. CASE call.pc = terminateContainer("RemoveContainer", calls[r].cnt)
    <3>1. Fits(call)
      BY <2>1, <2>2, <2>4, Entered DEF TerminateOps
    <3>2. call.pc # "create_putc"
      BY <2>1, <2>4, TerminatePc DEF TerminateOps, PodOps
    <3> QED  BY <1>4, <3>1, <3>2, QuietStep DEF RemoveReadSandbox, store, call
  <2> QED  BY <2>2, <2>3, <2>4
<1>5. CASE PodNext(r)
  <2> DEFINE c == Head(calls[r].sb.containers)
  <2>1. /\ calls[r].pc = "pod_next" /\ calls[r].op \in PodOps
        /\ calls[r].sb \in Sandbox /\ calls[r].sb.containers # <<>>
    BY <1>0, <1>5 DEF PodNext, At, TypeInv, CallsShaped, CallShape, PodPcs
  <2>2. c \in Cid
    BY <2>1 DEF Sandbox
  <2>3. /\ call.op = calls[r].op /\ call.cid = c /\ call.cnt = containers[c]
        /\ call.pc = IF containers[c] = Nil THEN "pod_put"
                     ELSE terminateContainer(calls[r].op, containers[c])
    BY <1>0, <1>5 DEF PodNext, TypeInv, TypeOK, Call
  <2>4. containers[c] \in Container \cup {Nil}
    BY <2>2 DEF Base, TypeInv, TypeOK
  <2> HIDE DEF call, c
  <2>5. Fits(call) /\ call.pc # "create_putc"
    <3>1. CASE containers[c] = Nil
      <4>1. Dead(c)
        BY <3>1, NotRunningIsDead DEF ClientInv, HostInv
      <4> QED  BY <2>1, <2>3, <3>1, <4>1 DEF Fits, PodOps
    <3>2. CASE containers[c] # Nil
      <4>1. Fits(call)
        BY <2>1, <2>2, <2>3, <2>4, <3>2, Entered DEF TerminateOps
      <4> QED  BY <2>1, <2>3, <2>4, <3>2, <4>1, TerminatePc DEF TerminateOps, PodOps
    <3> QED  BY <3>1, <3>2
  <2> QED  BY <1>5, <2>5, QuietStep DEF PodNext, store, call
<1>6. CASE Reply(r)
  <2>1. call.op = "none" /\ call.pc = "idle"
    BY <1>0, <1>6 DEF Reply, NoCall, TypeInv, TypeOK
  <2> HIDE DEF call
  <2>2. Fits(call)
    BY <2>1, FitsAnyway
  <2> QED  BY <1>6, <2>1, <2>2, QuietStep DEF Reply, store, call
<1> QED  BY <1>1, <1>2, <1>3, <1>4, <1>5, <1>6

\* The handler writes a sandbox record.
LEMMA SandboxWriteFits ==
  ASSUME OneClient, Base, ClientInv, NEW r \in Rpc,
         \/ RunPut(r) \/ CreatePutSandbox(r) \/ RemovePutSandbox(r)
         \/ PodPut(r) \/ PodFinish(r) \/ PodErase(r)
  PROVE  ClientInv'
<1> DEFINE call == calls'[r]
<1>0. TypeInv /\ Fits(calls[r]) /\ calls[r] \in Call /\ CallShape(calls[r])
  BY DEF Base, ClientInv, CallsFit, TypeInv, TypeOK, CallsShaped
<1>1. CASE RunPut(r) \/ CreatePutSandbox(r) \/ PodFinish(r) \/ PodErase(r)
  <2>1. /\ calls[r].pc \in {"run_put", "create_puts", "pod_next", "pod_erase"}
        /\ call.op = calls[r].op /\ call.pc \in {"ok", "pod_erase"}
    BY <1>0, <1>1, GotoIs DEF RunPut, CreatePutSandbox, PodFinish, PodErase, At
  <2>2. call.op # "StopContainer"
    BY <1>0, <2>1 DEF Fits
  <2> HIDE DEF call
  <2>3. Fits(call)
    BY <2>1, <2>2, FitsAnyway
  <2> QED
    BY <1>1, <2>1, <2>3, QuietStep DEF RunPut, CreatePutSandbox, PodFinish, PodErase, call
<1>2. CASE PodPut(r)
  <2>1. call.op \in PodOps /\ call.pc = "pod_next"
    BY <1>0, <1>2 DEF PodPut, At, CallShape, PodPcs, TypeInv, TypeOK, Call
  <2> HIDE DEF call
  <2>2. Fits(call)
    BY <2>1, FitsAnyway DEF PodOps
  <2> QED  BY <1>2, <2>1, <2>2, QuietStep DEF PodPut, call
<1>3. CASE RemovePutSandbox(r)
  <2>1. /\ calls[r].op = "RemoveContainer" /\ calls[r].cid \in Cid /\ calls[r].cnt \in Container
        /\ containers[calls[r].cid] \in {calls[r].cnt, exited(calls[r].cnt)}
    BY <1>0, <1>3 DEF RemovePutSandbox, At, CallShape, RemovePcs, Fits
  <2>2. /\ call.op = calls[r].op /\ call.cid = calls[r].cid /\ call.cnt = calls[r].cnt
        /\ call.pc = terminateContainer("RemoveContainer", calls[r].cnt)
    BY <1>0, <1>3, GotoIs DEF RemovePutSandbox
  <2> HIDE DEF call
  <2>3. Fits(call)
    BY <2>1, <2>2, Entered DEF TerminateOps
  <2>4. call.pc # "create_putc"
    BY <2>1, <2>2, TerminatePc DEF TerminateOps, PodOps
  <2> QED  BY <1>3, <2>3, <2>4, QuietStep DEF RemovePutSandbox, call
<1> QED  BY <1>1, <1>2, <1>3

-----------------------------------------------------------------------------
(***************************************************************************)
(* Steps of the handler that write a container's record or make or kill a  *)
(* process.                                                                *)
(***************************************************************************)

\* CreateContainer writes the first record of its container.
LEMMA CreateFits ==
  ASSUME OneClient, Base, ClientInv, NEW r \in Rpc, CreatePutContainer(r)
  PROVE  ClientInv'
<1> DEFINE call == calls'[r]
           c == calls[r].cid
           rec == [pod |-> calls[r].pod, state |-> "CREATED", pid |-> 0]
<1>1. /\ calls[r].pc = "create_putc" /\ c \in Cid /\ c \in used
      /\ \A p \in Pid : Born(p) => procs[p].cid # c
      /\ calls[r].op # "StopContainer"
  BY DEF CreatePutContainer, At, Base, TypeInv, CallsShaped, CallShape, CreatePcs, ClientInv,
         CallsFit, Claimed, Fits
<1>2. call.pc = "create_puts" /\ call.op = calls[r].op
  BY GotoIs DEF CreatePutContainer, Base
<1>3. /\ containers' = [containers EXCEPT ![c] = rec]
      /\ UNCHANGED <<procs, trackers, used>>
  BY DEF CreatePutContainer, putContainer, OneClient, host
<1>4. /\ containers'[c] = rec
      /\ \A d \in Cid : d # c => containers'[d] = containers[d]
  BY <1>1, <1>3 DEF Base, TypeInv, TypeOK
<1>5. \A p \in Pid : Born(p) => /\ procs[p].cid \in Cid
                                /\ containers'[procs[p].cid] = containers[procs[p].cid]
  BY <1>1, <1>4 DEF Base, TypeInv, ProcsOwned, Born
<1> HIDE DEF c
<1>6. OneProcess'
  BY <1>3 DEF ClientInv, HostInv, OneProcess, Born
<1>7. RecordShape'
  <2> SUFFICES ASSUME NEW d \in Cid, containers'[d] # Nil
               PROVE  d \in used /\ (containers'[d].state = "CREATED" <=> containers'[d].pid = 0)
    BY <1>3 DEF RecordShape
  <2>1. CASE d = c
    BY <1>1, <1>4, <2>1
  <2>2. CASE d # c
    BY <1>4, <2>2 DEF ClientInv, HostInv, RecordShape
  <2> QED  BY <2>1, <2>2
<1>8. TrackerKept'
  <2>1. \A p \in Pid : trackers[p].pc = "write" => Born(p)
    BY DEF Base, TypeInv, ProcsOwned, Born
  <2> QED  BY <1>3, <1>5, <2>1 DEF ClientInv, HostInv, TrackerKept
<1>9. AliveIsRunning'
  <2>1. \A p \in Pid : Alive(p) => Born(p)
    BY DEF Alive, Born
  <2> QED  BY <1>3, <1>5, <2>1 DEF ClientInv, HostInv, AliveIsRunning, Alive, Escaped
<1>10. CallsFit'
  BY <1>1, <1>2 DEF OneClient, CallsFit, Fits, Claimed
<1> QED  BY <1>6, <1>7, <1>8, <1>9, <1>10 DEF ClientInv, HostInv

\* A record is erased when its container's program is dead.
LEMMA EraseFits ==
  ASSUME OneClient, Base, ClientInv, NEW r \in Rpc, RemoveDelete(r) \/ PodDelete(r)
  PROVE  ClientInv'
<1> DEFINE call == calls'[r]
           c == calls[r].cid
<1>1. calls[r].pc \in {"remove_delete", "pod_delete"} /\ c \in Cid /\ Dead(c)
      /\ calls[r].op # "StopContainer"
  BY DEF RemoveDelete, PodDelete, At, Base, TypeInv, CallsShaped, CallShape, RemovePcs, ClientInv,
         CallsFit, Fits
<1>2. call.pc \in {"ok", "pod_put"} /\ call.op = calls[r].op /\ call.cid = c
  BY GotoIs DEF RemoveDelete, PodDelete, Base
<1>3. /\ containers' = [containers EXCEPT ![c] = Nil]
      /\ UNCHANGED <<procs, trackers, used>>
  BY DEF RemoveDelete, PodDelete, deleteContainer, OneClient, host
<1>4. \A d \in Cid : containers'[d] = IF d = c THEN Nil ELSE containers[d]
  BY <1>1, <1>3 DEF Base, TypeInv, TypeOK
<1>5. \A p \in Pid : Born(p) => procs[p].cid \in Cid
  BY DEF Base, TypeInv, ProcsOwned, Born
<1> HIDE DEF c
<1>6. OneProcess'
  BY <1>3 DEF ClientInv, HostInv, OneProcess, Born
<1>7. RecordShape'
  BY <1>3, <1>4 DEF ClientInv, HostInv, RecordShape
<1>8. TrackerKept'
  <2>1. \A p \in Pid : trackers[p].pc = "write" => Born(p)
    BY DEF Base, TypeInv, ProcsOwned, Born
  <2> QED  BY <1>3, <1>4, <1>5, <2>1 DEF ClientInv, HostInv, TrackerKept
<1>9. AliveIsRunning'
  <2>1. \A p \in Pid : Alive(p) => Born(p)
    BY DEF Alive, Born
  <2>2. \A p \in Pid : Alive(p) /\ ~Escaped(p) => procs[p].cid # c
    BY <1>1 DEF Dead
  <2>3. ASSUME NEW p \in Pid, Alive(p), ~Escaped(p)
        PROVE  ownedBy(containers'[procs[p].cid], p) /\ containers'[procs[p].cid].state = "RUNNING"
    <3>1. containers'[procs[p].cid] = containers[procs[p].cid]
      BY <1>4, <1>5, <2>1, <2>2, <2>3
    <3> QED  BY <2>3, <3>1 DEF ClientInv, HostInv, AliveIsRunning
  <2> QED  BY <1>3, <2>3 DEF AliveIsRunning, Alive, Escaped
<1>10. CallsFit'
  BY <1>1, <1>2, <1>3 DEF OneClient, CallsFit, Fits, Claimed, Dead, Alive, Escaped
<1> QED  BY <1>6, <1>7, <1>8, <1>9, <1>10 DEF ClientInv, HostInv

\* The first process of its container is spawned.
LEMMA SpawnFits ==
  ASSUME OneClient, Base, ClientInv, NEW r \in Rpc, StartSpawn(r)
  PROVE  ClientInv'
<1> DEFINE call == calls'[r]
           c == calls[r].cid
<1>1. /\ calls[r] \in Call /\ calls[r].pc = "start_spawn" /\ c \in Cid
      /\ containers[c] = calls[r].cnt /\ containers[c].state = "CREATED"
      /\ containers[c] \in Container
      /\ \A p \in Pid : Born(p) => procs[p].cid # c
      /\ calls[r].op # "StopContainer"
  BY DEF StartSpawn, At, Base, TypeInv, TypeOK, CallsShaped, CallShape, ClientInv, CallsFit, Fits
<1>2. PICK p \in Pid, h \in BOOLEAN :
        /\ procs[p].main = "unborn"
        /\ procs' = [procs EXCEPT ![p] = [main |-> "alive", helper |-> h, cid |-> c]]
        /\ \/ calls' = [calls EXCEPT ![r] = [@ EXCEPT !.pc = "start_put", !.cnt.pid = p,
                                                      !.cnt.state = "RUNNING"]]
           \/ Goto(r, "error")
  BY DEF StartSpawn
<1>3. UNCHANGED <<containers, trackers, used>>
  BY DEF StartSpawn, store
<1>4. /\ call.op = calls[r].op /\ call.cid = c
      /\ \/ call.pc = "error"
         \/ call.pc = "start_put" /\ call.cnt.pid = p /\ call.cnt.pod = containers[c].pod
  <2>1. CASE Goto(r, "error")
    BY <2>1, GotoIs DEF Base
  <2>2. CASE calls' = [calls EXCEPT ![r] = [@ EXCEPT !.pc = "start_put", !.cnt.pid = p,
                                                     !.cnt.state = "RUNNING"]]
    BY <1>1, <2>2 DEF Base, TypeInv, TypeOK, Call, Container
  <2> QED  BY <1>2, <2>1, <2>2
<1>5. trackers[p].pc = "none"
  BY <1>2 DEF Base, TypeInv, ProcsOwned
<1>6. /\ procs'[p].main = "alive" /\ procs'[p].cid = c
      /\ \A q \in Pid : q # p => procs'[q] = procs[q]
  BY <1>2 DEF Base, TypeInv, TypeOK
<1>7. c \in used
  BY <1>1, NilAssumption DEF ClientInv, HostInv, RecordShape
<1> HIDE DEF c
<1>8. OneProcess'
  <2>1. ASSUME NEW q \in Pid, NEW s \in Pid, q # s,
               procs'[q].main # "unborn", procs'[s].main # "unborn"
        PROVE  procs'[q].cid # procs'[s].cid
    <3>1. CASE q = p
      BY <1>1, <1>6, <2>1, <3>1 DEF Born
    <3>2. CASE s = p
      BY <1>1, <1>6, <2>1, <3>2 DEF Born
    <3>3. CASE q # p /\ s # p
      BY <1>6, <2>1, <3>3 DEF ClientInv, HostInv, OneProcess, Born
    <3> QED  BY <3>1, <3>2, <3>3
  <2>2. ASSUME NEW q \in Pid, procs'[q].main # "unborn" PROVE procs'[q].cid \in used
    BY <1>6, <1>7, <2>2 DEF ClientInv, HostInv, OneProcess, Born
  <2> QED  BY <1>3, <2>1, <2>2 DEF OneProcess, Born
<1>9. RecordShape'
  BY <1>3 DEF ClientInv, HostInv, RecordShape
<1>10. TrackerKept'
  BY <1>3, <1>5, <1>6 DEF ClientInv, HostInv, TrackerKept
<1>11. AliveIsRunning'
  BY <1>3, <1>5, <1>6 DEF ClientInv, HostInv, AliveIsRunning, Alive, Escaped
<1>12. Fits(calls[r])'
  <2>1. CASE call.pc = "error"
    BY <1>1, <1>4, <2>1 DEF Fits
  <2>2. CASE call.pc = "start_put" /\ call.cnt.pid = p /\ call.cnt.pod = containers[c].pod
    BY <1>1, <1>3, <1>4, <1>5, <2>2, NilAssumption DEF Fits
  <2> QED  BY <1>4, <2>1, <2>2
<1>13. CallsFit'
  BY <1>4, <1>12 DEF OneClient, CallsFit, Claimed
<1> QED  BY <1>8, <1>9, <1>10, <1>11, <1>13 DEF ClientInv, HostInv

\* The process and its tracker appear in the record.
LEMMA StartFits ==
  ASSUME OneClient, Base, ClientInv, NEW r \in Rpc, StartPut(r)
  PROVE  ClientInv'
<1> DEFINE call == calls'[r]
           c == calls[r].cid
           cnt == calls[r].cnt
           p == cnt.pid
<1>1. /\ calls[r].pc = "start_put" /\ c \in Cid /\ cnt \in Container /\ p \in Pid
      /\ cnt.state = "RUNNING"
      /\ containers[c] # Nil /\ trackers[p].pc = "none"
      /\ calls[r].op # "StopContainer"
      /\ Born(p) /\ procs[p].cid = c
  BY DEF StartPut, At, Base, TypeInv, CallsShaped, CallShape, ProcsOwned, ClientInv, CallsFit,
         Fits, Born
<1>2. call.op = calls[r].op /\ call.pc = "ok"
  BY GotoIs DEF StartPut, Base
<1>3. /\ containers' = [containers EXCEPT ![c] = cnt]
      /\ trackers' = [trackers EXCEPT ![p].pc = "wait"]
      /\ UNCHANGED <<procs, used>>
  BY DEF StartPut, putContainer, OneClient
<1>4. /\ containers'[c] = cnt
      /\ \A d \in Cid : d # c => containers'[d] = containers[d]
      /\ trackers'[p].pc = "wait"
      /\ \A q \in Pid : q # p => trackers'[q] = trackers[q]
  BY <1>1, <1>3 DEF Base, TypeInv, TypeOK, Tracker
<1>5. cnt # Nil /\ p # 0 /\ c \in used
  BY <1>1, NilAssumption, PidAssumption DEF ClientInv, HostInv, RecordShape
<1>6. \A q \in Pid : Born(q) /\ q # p => /\ procs[q].cid \in Cid /\ procs[q].cid # c
                                         /\ containers'[procs[q].cid] = containers[procs[q].cid]
  BY <1>1, <1>4 DEF ClientInv, HostInv, OneProcess, Base, TypeInv, ProcsOwned, Born
<1> HIDE DEF c, cnt, p
<1>7. OneProcess'
  BY <1>3 DEF ClientInv, HostInv, OneProcess, Born
<1>8. RecordShape'
  <2> SUFFICES ASSUME NEW d \in Cid, containers'[d] # Nil
               PROVE  d \in used /\ (containers'[d].state = "CREATED" <=> containers'[d].pid = 0)
    BY <1>3 DEF RecordShape
  <2>1. CASE d = c
    BY <1>1, <1>4, <1>5, <2>1 DEF p
  <2>2. CASE d # c
    BY <1>4, <2>2 DEF ClientInv, HostInv, RecordShape
  <2> QED  BY <2>1, <2>2
<1>9. TrackerKept'
  <2>1. \A q \in Pid : trackers[q].pc = "write" => Born(q)
    BY DEF Base, TypeInv, ProcsOwned, Born
  <2> QED  BY <1>3, <1>4, <1>6, <2>1 DEF ClientInv, HostInv, TrackerKept
<1>10. AliveIsRunning'
  <2>1. ASSUME NEW q \in Pid, Alive(q), trackers'[q].pc \notin {"none", "orphan"}
        PROVE  ownedBy(containers'[procs[q].cid], q) /\ containers'[procs[q].cid].state = "RUNNING"
    <3>1. CASE q = p
      BY <1>1, <1>4, <1>5, <3>1 DEF ownedBy, p
    <3>2. CASE q # p
      BY <1>4, <1>6, <2>1, <3>2 DEF ClientInv, HostInv, AliveIsRunning, Escaped, Alive, Born
    <3> QED  BY <3>1, <3>2
  <2> QED  BY <1>3, <2>1 DEF AliveIsRunning, Alive, Escaped
<1>11. CallsFit'
  BY <1>1, <1>2 DEF OneClient, CallsFit, Fits, Claimed
<1> QED  BY <1>7, <1>8, <1>9, <1>10, <1>11 DEF ClientInv, HostInv

-----------------------------------------------------------------------------
(***************************************************************************)
(* Steps that end programs, and the trackers' steps.                       *)
(***************************************************************************)

\* Programs end and trackers move on, none escapes, and no record is written.
Dying ==
  /\ UNCHANGED <<containers, used>>
  /\ \A p \in Pid :
       /\ procs'[p].cid = procs[p].cid
       /\ procs'[p].main = "unborn" <=> ~Born(p)
       /\ procs'[p].main = "alive" => Alive(p)
       /\ trackers'[p].pc = "none" <=> trackers[p].pc = "none"
       /\ trackers'[p].pc \in {"none", "orphan"} <=> Escaped(p)
       /\ trackers'[p].pc = "write" => \/ trackers[p].pc = "write" /\ trackers'[p] = trackers[p]
                                       \/ trackers'[p].cnt = containers[procs[p].cid]

\* The processes and the records stay in order when programs end.
LEMMA DyingHost ==
  ASSUME ClientInv, Dying
  PROVE  HostInv'
<1>1. OneProcess'
  BY DEF Dying, ClientInv, HostInv, OneProcess, Born
<1>2. RecordShape'
  BY DEF Dying, ClientInv, HostInv, RecordShape
<1>3. TrackerKept'
  BY DEF Dying, ClientInv, HostInv, TrackerKept
<1>4. AliveIsRunning'
  BY DEF Dying, ClientInv, HostInv, AliveIsRunning, Alive, Escaped
<1> QED  BY <1>1, <1>2, <1>3, <1>4 DEF HostInv

\* The program is killed when its grace period or the context ends.
LEMMA KillEndsProgram ==
  ASSUME Base, ClientInv, NEW r \in Rpc, WaitTimeout(r) \/ WaitCancelled(r)
  PROVE  Dying /\ procs'[calls[r].cnt.pid].main # "alive"
<1> DEFINE p == calls[r].cnt.pid
<1>1. p \in Pid
  BY TerminatedProcess DEF WaitTimeout, WaitCancelled, At
<1>2. SigKill(p) /\ UNCHANGED <<containers, trackers, used>>
  BY DEF WaitTimeout, WaitCancelled, store
<1>3. /\ procs'[p].main # "alive"
      /\ \A q \in Pid : /\ procs'[q].cid = procs[q].cid
                        /\ procs'[q].main = "unborn" <=> procs[q].main = "unborn"
                        /\ procs'[q].main = "alive" => procs[q].main = "alive"
  <2> DEFINE m == IF procs[p].main = "alive" THEN dead(p) ELSE procs[p].main
  <2>1. procs' = [procs EXCEPT ![p].main = m] /\ procs \in [Pid -> Process]
    BY <1>2 DEF SigKill, Base, TypeInv, TypeOK
  <2>2. m # "alive" /\ (m = "unborn" <=> procs[p].main = "unborn")
    BY DEF dead
  <2> HIDE DEF m
  <2> QED  BY <1>1, <2>1, <2>2 DEF Process
<1>4. Dying
  BY <1>2, <1>3 DEF Dying, Born, Alive, Escaped
<1> QED  BY <1>3, <1>4

\* The call leaves terminateContainer with the program dead.
LEMMA KilledFits ==
  ASSUME OneClient, Base, ClientInv, NEW r \in Rpc, WaitTimeout(r) \/ WaitCancelled(r)
  PROVE  ClientInv'
<1> DEFINE call == calls'[r]
           p == calls[r].cnt.pid
<1>1. /\ calls[r].pc = "wait" /\ calls[r].op \in TerminateOps /\ p \in Pid
      /\ \A q \in Pid : Born(q) /\ procs[q].cid = calls[r].cid => q = p
  <2>1. calls[r].pc = "wait"
    BY DEF WaitTimeout, WaitCancelled, At
  <2> QED  BY <2>1, TerminatedProcess
<1>2. /\ call.op = calls[r].op /\ call.cid = calls[r].cid /\ call.cnt = calls[r].cnt
      /\ call.pc = afterTerminate(calls[r].op) \/ call.pc = "error"
  BY GotoIs DEF WaitTimeout, WaitCancelled, Base
<1>3. Dying /\ procs'[p].main # "alive"
  BY KillEndsProgram
<1>4. Dead(calls[r].cid)'
  BY <1>1, <1>2, <1>3 DEF Dying, Dead, Alive, Born
<1>5. call.pc \in {"ok", "error", "remove_delete", "pod_delete"}
      /\ (call.op = "StopContainer" => call.pc \in {"ok", "error"})
  BY <1>1, <1>2 DEF afterTerminate, TerminateOps, PodOps
<1>6. Fits(calls[r])' /\ call.pc # "create_putc"
  <2>1. Dead(calls[r].cid)' /\ call.cnt.pid \in Pid /\ ~Alive(calls[r].cnt.pid)'
    BY <1>1, <1>2, <1>3, <1>4 DEF Alive
  <2> QED  BY <1>5, <2>1 DEF Fits
<1>7. CallsFit'
  BY <1>6 DEF OneClient, CallsFit, Claimed
<1> QED  BY <1>3, <1>7, DyingHost DEF ClientInv

\* A program or a helper ends by itself, or a tracker gets past its wait or
\* reads the record.
LEMMA HostDies ==
  ASSUME Base, NEW p \in Pid, TrackerWait(p) \/ TrackerRead(p) \/ MainExits(p) \/ HelperExits(p)
  PROVE  Dying /\ UNCHANGED <<containers, sandboxes, calls>>
<1> USE DEF Base, TypeInv, TypeOK
<1>1. UNCHANGED <<containers, sandboxes, calls, used>>
  BY DEF TrackerWait, TrackerRead, MainExits, HelperExits, store
<1>2. CASE TrackerWait(p) \/ MainExits(p) \/ HelperExits(p)
  <2>1. \A q \in Pid : /\ procs'[q].cid = procs[q].cid
                       /\ procs'[q].main = "unborn" <=> procs[q].main = "unborn"
                       /\ procs'[q].main = "alive" => procs[q].main = "alive"
    BY <1>2 DEF TrackerWait, MainExits, HelperExits, Process, dead
  <2>2. \A q \in Pid : \/ trackers'[q] = trackers[q]
                       \/ trackers[q].pc = "wait" /\ trackers'[q].pc = "read"
    BY <1>2 DEF TrackerWait, MainExits, HelperExits, Tracker
  <2> QED  BY <1>1, <2>1, <2>2 DEF Dying, Born, Alive, Escaped
<1>3. CASE TrackerRead(p)
  <2>1. /\ UNCHANGED procs /\ trackers[p].pc = "read"
        /\ trackers' = [trackers EXCEPT ![p] = IF ownedBy(containers[procs[p].cid], p)
                          THEN [pc |-> "write", cnt |-> containers[procs[p].cid]]
                          ELSE [pc |-> "done", cnt |-> Nil]]
    BY <1>3 DEF TrackerRead
  <2>2. /\ \A q \in Pid : q # p => trackers'[q] = trackers[q]
        /\ trackers'[p].pc \in {"write", "done"}
        /\ trackers'[p].pc = "write" => trackers'[p].cnt = containers[procs[p].cid]
    BY <2>1
  <2> QED  BY <1>1, <2>1, <2>2 DEF Dying, Born, Alive, Escaped
<1> QED  BY <1>1, <1>2, <1>3

\* None of that takes away what the call goes on with.
LEMMA HostFits ==
  ASSUME OneClient, Base, ClientInv, NEW p \in Pid,
         TrackerWait(p) \/ TrackerRead(p) \/ MainExits(p) \/ HelperExits(p)
  PROVE  ClientInv'
<1>1. Dying /\ UNCHANGED calls
  BY HostDies
<1>2. ASSUME NEW r \in Rpc PROVE Fits(calls[r])'
  <2>1. Fits(calls[r]) /\ CallShape(calls[r])
    BY DEF Base, TypeInv, ClientInv, CallsFit, CallsShaped
  <2>2. calls[r].pc = "start_put" => calls[r].cnt.pid \in Pid
    BY <2>1 DEF CallShape
  <2>3. Dead(calls[r].cid) => Dead(calls[r].cid)'
    BY <1>1 DEF Dying, Dead, Alive, Escaped
  <2>4. \A q \in Pid : Born(q)' <=> Born(q)
    BY <1>1 DEF Dying, Born
  <2>5. \A q \in Pid : ~Alive(q) => ~Alive(q)'
    BY <1>1 DEF Dying, Alive
  <2> QED  BY <1>1, <2>1, <2>2, <2>3, <2>4, <2>5 DEF Fits, Dying
<1> QED  BY <1>1, <1>2, DyingHost DEF ClientInv, CallsFit, Claimed, Dying

\* The tracker writes EXITED over the record as it is, or over none.
LEMMA ReportFits ==
  ASSUME OneClient, Base, ClientInv, NEW p \in Pid, TrackerWrite(p)
  PROVE  ClientInv'
<1> DEFINE c == procs[p].cid
           cnt == trackers[p].cnt
           rec == exited(cnt)
<1>1. /\ Born(p) /\ c \in Cid /\ cnt \in Container /\ cnt.pid = p
      /\ procs[p].main = "reaped" /\ containers[c] \in {Nil, cnt}
      /\ trackers[p].pc = "write"
  BY DEF TrackerWrite, Base, TypeInv, ProcsOwned, TrackersReaped, ClientInv, HostInv, TrackerKept,
         Born
<1>2. /\ containers' = [containers EXCEPT ![c] = rec]
      /\ trackers' = [trackers EXCEPT ![p] = [pc |-> "done", cnt |-> Nil]]
      /\ UNCHANGED <<procs, calls, used>>
  BY DEF TrackerWrite, putContainer, OneClient
<1>3. /\ containers'[c] = rec
      /\ \A d \in Cid : d # c => containers'[d] = containers[d]
      /\ trackers'[p].pc = "done"
      /\ \A q \in Pid : q # p => trackers'[q] = trackers[q]
  BY <1>1, <1>2 DEF Base, TypeInv, TypeOK
<1>4. rec.state = "EXITED" /\ rec.pid = p /\ rec \in Container /\ p # 0 /\ exited(rec) = rec
  BY <1>1, PidAssumption DEF exited, Container
<1>5. c \in used
  BY <1>1 DEF ClientInv, HostInv, OneProcess
<1>6. \A q \in Pid : Born(q) /\ q # p => /\ procs[q].cid \in Cid /\ procs[q].cid # c
                                         /\ containers'[procs[q].cid] = containers[procs[q].cid]
  BY <1>1, <1>3 DEF ClientInv, HostInv, OneProcess, Base, TypeInv, ProcsOwned, Born
<1> HIDE DEF c, cnt, rec
<1>7. OneProcess'
  BY <1>2 DEF ClientInv, HostInv, OneProcess, Born
<1>8. RecordShape'
  <2> SUFFICES ASSUME NEW d \in Cid, containers'[d] # Nil
               PROVE  d \in used /\ (containers'[d].state = "CREATED" <=> containers'[d].pid = 0)
    BY <1>2 DEF RecordShape
  <2>1. CASE d = c
    BY <1>3, <1>4, <1>5, <2>1
  <2>2. CASE d # c
    BY <1>3, <2>2 DEF ClientInv, HostInv, RecordShape
  <2> QED  BY <2>1, <2>2
<1>9. TrackerKept'
  <2>1. \A q \in Pid : trackers[q].pc = "write" => Born(q)
    BY DEF Base, TypeInv, ProcsOwned, Born
  <2> QED  BY <1>2, <1>3, <1>6, <2>1 DEF ClientInv, HostInv, TrackerKept
<1>10. AliveIsRunning'
  <2>1. ASSUME NEW q \in Pid, Alive(q), trackers'[q].pc \notin {"none", "orphan"}
        PROVE  ownedBy(containers'[procs[q].cid], q) /\ containers'[procs[q].cid].state = "RUNNING"
    <3>1. q # p
      BY <1>1, <2>1 DEF Alive
    <3> QED  BY <1>3, <1>6, <2>1, <3>1 DEF ClientInv, HostInv, AliveIsRunning, Escaped, Alive, Born
  <2> QED  BY <1>2, <2>1 DEF AliveIsRunning, Alive, Escaped
<1>11. ASSUME NEW r \in Rpc PROVE Fits(calls[r])'
  <2> DEFINE call == calls[r]
             d == call.cid
  <2>1. Fits(call) /\ CallShape(call)
    BY DEF Base, TypeInv, ClientInv, CallsFit, CallsShaped
  <2>2. CASE call.pc \in {"create_putc", "start_spawn"}
    <3>1. d # c /\ d \in Cid
      BY <1>1, <2>1, <2>2 DEF Fits, CallShape, CreatePcs, c
    <3>2. containers'[d] = containers[d]
      BY <1>3, <3>1
    <3> QED  BY <1>2, <2>1, <2>2, <3>2 DEF Fits, Born
  <2>3. CASE call.pc = "start_put"
    <3>1. /\ call.cnt.pid \in Pid /\ d \in Cid /\ procs[call.cnt.pid].cid = d
          /\ Born(call.cnt.pid) /\ trackers[call.cnt.pid].pc = "none"
      BY <2>1, <2>3 DEF Fits, CallShape, Base, TypeInv, ProcsOwned, Born
    <3>2. call.cnt.pid # p /\ d # c
      BY <1>1, <1>6, <3>1
    <3>3. containers'[d] = containers[d] /\ trackers'[call.cnt.pid] = trackers[call.cnt.pid]
      BY <1>3, <3>1, <3>2
    <3> QED  BY <1>2, <2>1, <2>3, <3>3 DEF Fits
  <2>4. CASE call.pc \in {"remove_read", "remove_put", "kill", "wait"}
    <3>1. /\ call.cnt \in Container /\ d \in Cid
          /\ containers[d] \in {call.cnt, exited(call.cnt)}
          /\ call.pc \in {"kill", "wait"} => call.cnt.state = "RUNNING"
          /\ call.op = "StopContainer" => call.pc \in {"kill", "wait"}
      BY <2>1, <2>4 DEF Fits, CallShape, RemovePcs
    <3>2. exited(call.cnt) \in Container /\ exited(exited(call.cnt)) = exited(call.cnt)
      BY <3>1 DEF exited, Container
    <3>3. containers'[d] \in {call.cnt, exited(call.cnt)}
      <4>1. CASE d = c
        <5>1. cnt \in {call.cnt, exited(call.cnt)}
          BY <1>1, <3>1, <3>2, <4>1, NilAssumption
        <5> QED  BY <1>3, <3>2, <4>1, <5>1 DEF rec
      <4>2. CASE d # c
        BY <1>3, <3>1, <4>2
      <4> QED  BY <4>1, <4>2
    <3> QED  BY <1>2, <2>4, <3>1, <3>3 DEF Fits
  <2>5. CASE call.pc \notin {"create_putc", "start_spawn", "start_put", "remove_read", "remove_put",
                             "kill", "wait"}
    <3>1. call.pc \in {"remove_delete", "pod_delete", "pod_put"} => Dead(d)'
      <4>1. ASSUME NEW q \in Pid, Alive(q), Escaped(q) PROVE trackers'[q] = trackers[q]
        BY <1>1, <1>3, <4>1 DEF Alive
      <4> QED  BY <1>2, <2>1, <4>1 DEF Fits, Dead, Alive, Escaped
    <3> QED  BY <1>2, <2>1, <2>5, <3>1 DEF Fits, Alive
  <2> QED  BY <2>2, <2>3, <2>4, <2>5
<1>12. CallsFit'
  BY <1>2, <1>11 DEF ClientInv, CallsFit, Claimed
<1> QED  BY <1>7, <1>8, <1>9, <1>10, <1>12 DEF ClientInv, HostInv

-----------------------------------------------------------------------------
(***************************************************************************)
(* Crashes, and the invariant.                                             *)
(***************************************************************************)

\* A crash ends the call, gives the programs to launchd, and tears no record
\* that a live program in sight depends on.
LEMMA CrashFits ==
  ASSUME OneClient, Base, ClientInv, Crash
  PROVE  ClientInv'
<1>1. /\ \A p \in Pid : procs'[p] = [procs[p] EXCEPT !.main = IF @ = "zombie" THEN "reaped" ELSE @]
      /\ \A p \in Pid : trackers'[p] = adopted(p)
      /\ \A r \in Rpc : calls'[r] = NoCall
      /\ UNCHANGED used
  BY DEF Crash
<1>2. PICK torn \in SUBSET containersBeingWritten :
        containers' = [c \in Cid |-> IF c \in torn THEN Nil ELSE containers[c]]
  BY DEF Crash
<1>3. \A p \in Pid : /\ procs'[p].cid = procs[p].cid
                     /\ procs'[p].main = "unborn" <=> procs[p].main = "unborn"
                     /\ procs'[p].main = "alive" <=> procs[p].main = "alive"
  <2>1. ASSUME NEW p \in Pid PROVE procs[p] \in Process
    BY DEF Base, TypeInv, TypeOK
  <2>2. ASSUME NEW p \in Pid
        PROVE  /\ procs'[p].cid = procs[p].cid
               /\ procs'[p].main = IF procs[p].main = "zombie" THEN "reaped" ELSE procs[p].main
    BY <1>1, <2>1 DEF Process
  <2> QED  BY <2>2
<1>4. \A p \in Pid : /\ trackers'[p].pc # "write"
                     /\ Born(p) /\ Escaped(p) => trackers'[p].pc = "orphan"
  <2> SUFFICES ASSUME NEW p \in Pid
               PROVE  /\ adopted(p).pc # "write"
                      /\ Born(p) /\ Escaped(p) => adopted(p).pc = "orphan"
    BY <1>1
  <2>1. procs[p].main = "unborn" => trackers[p].pc = "none"
    BY DEF Base, TypeInv, ProcsOwned
  <2> QED  BY <2>1 DEF adopted, Born, Escaped
<1>5. \A p \in Pid : Alive(p) /\ ~Escaped(p) =>
        /\ procs[p].cid \in Cid /\ Born(p)
        /\ procs[p].cid \notin containersBeingWritten
  <2> SUFFICES ASSUME NEW p \in Pid, Alive(p), ~Escaped(p)
               PROVE  /\ procs[p].cid \in Cid /\ Born(p)
                      /\ procs[p].cid \notin containersBeingWritten
    OBVIOUS
  <2>1. procs[p].cid \in Cid /\ Born(p)
    BY DEF Base, TypeInv, ProcsOwned, Alive, Born
  <2>2. containers[procs[p].cid].state = "RUNNING"
    BY DEF ClientInv, HostInv, AliveIsRunning
  <2>3. ASSUME NEW r \in Rpc, calls[r].pc \in {"create_putc", "start_put"}
        PROVE  calls[r].cid # procs[p].cid
    BY <2>1, <2>2, <2>3 DEF ClientInv, CallsFit, Fits
  <2>4. ASSUME NEW q \in Pid, trackers[q].pc = "write" PROVE procs[q].cid # procs[p].cid
    <3>1. procs[q].main = "reaped"
      BY <2>4 DEF Base, TrackersReaped
    <3> QED  BY <2>1, <3>1 DEF ClientInv, HostInv, OneProcess, Born, Alive
  <2> QED  BY <2>1, <2>3, <2>4 DEF containersBeingWritten
<1>6. OneProcess'
  BY <1>1, <1>3 DEF ClientInv, HostInv, OneProcess, Born
<1>7. RecordShape'
  BY <1>1, <1>2 DEF ClientInv, HostInv, RecordShape
<1>8. TrackerKept'
  BY <1>4 DEF TrackerKept
<1>9. AliveIsRunning'
  <2> SUFFICES ASSUME NEW p \in Pid, Alive(p)', ~Escaped(p)'
               PROVE  /\ ownedBy(containers'[procs[p].cid], p)
                      /\ containers'[procs[p].cid].state = "RUNNING"
    BY <1>3 DEF AliveIsRunning
  <2>1. Alive(p) /\ ~Escaped(p)
    BY <1>3, <1>4 DEF Alive, Born, Escaped
  <2>2. containers'[procs[p].cid] = containers[procs[p].cid]
    BY <1>2, <1>5, <2>1
  <2> QED  BY <2>1, <2>2 DEF ClientInv, HostInv, AliveIsRunning
<1>10. CallsFit'
  <2>1. \A r \in Rpc : calls'[r].pc = "idle" /\ calls'[r].op = "none"
    BY <1>1 DEF NoCall
  <2>2. ASSUME NEW r \in Rpc PROVE Fits(calls[r])'
    BY <2>1 DEF Fits
  <2> QED  BY <2>1, <2>2 DEF CallsFit, Claimed
<1> QED  BY <1>6, <1>7, <1>8, <1>9, <1>10 DEF ClientInv, HostInv

\* A service without containers has nothing to find.
LEMMA ClientInit ==
  ASSUME Init
  PROVE  ClientInv
<1>1. OneProcess /\ AliveIsRunning /\ TrackerKept
  BY DEF Init, OneProcess, AliveIsRunning, TrackerKept, Alive, Born, Unborn, Untracked
<1>2. RecordShape
  BY DEF Init, RecordShape
<1>3. CallsFit
  BY DEF Init, CallsFit, Fits, Claimed, NoCall
<1> QED  BY <1>1, <1>2, <1>3 DEF ClientInv, HostInv

\* Every step of the service keeps what the client relies on.
LEMMA ClientStep ==
  ASSUME OneClient, Base, ClientInv, [Next]_vars
  PROVE  ClientInv'
<1>1. ASSUME NEW r \in Rpc, Request(r) PROVE ClientInv'
  BY <1>1, RequestFits
<1>2. ASSUME NEW r \in Rpc, HandlerStep(r) PROVE ClientInv'
  <2>1. CASE \/ StartFails(r) \/ Kill(r) \/ KillFails(r) \/ WaitTick(r)
             \/ RemoveReadSandbox(r) \/ PodNext(r) \/ Reply(r)
    BY <2>1, MovesFit
  <2>2. CASE \/ RunPut(r) \/ CreatePutSandbox(r) \/ RemovePutSandbox(r)
             \/ PodPut(r) \/ PodFinish(r) \/ PodErase(r)
    BY <2>2, SandboxWriteFits
  <2>3. CASE CreatePutContainer(r)
    BY <2>3, CreateFits
  <2>4. CASE RemoveDelete(r) \/ PodDelete(r)
    BY <2>4, EraseFits
  <2>5. CASE StartSpawn(r)
    BY <2>5, SpawnFits
  <2>6. CASE StartPut(r)
    BY <2>6, StartFits
  <2> QED  BY <1>2, <2>1, <2>2, <2>3, <2>4, <2>5, <2>6 DEF HandlerStep
<1>3. ASSUME NEW r \in Rpc, WaitTimeout(r) \/ WaitCancelled(r) PROVE ClientInv'
  BY <1>3, KilledFits
<1>4. ASSUME NEW p \in Pid, TrackerStep(p) \/ MainExits(p) \/ HelperExits(p) PROVE ClientInv'
  BY <1>4, HostFits, ReportFits DEF TrackerStep
<1>5. CASE Crash
  BY <1>5, CrashFits
<1>6. CASE UNCHANGED vars
  <2>1. UNCHANGED <<containers, procs, trackers, calls, used>>
    BY <1>6 DEF vars
  <2> QED
    BY <2>1 DEF ClientInv, HostInv, OneProcess, RecordShape, TrackerKept, AliveIsRunning, CallsFit,
                Claimed, Fits, Born, Dead, Alive, Escaped
<1> QED  BY <1>1, <1>2, <1>3, <1>4, <1>5, <1>6 DEF Next

\* What the client relies on always holds.
LEMMA ClientCorrect == ASSUME OneClient PROVE Spec => []ClientInv
<1>1. Init => ClientInv
  BY ClientInit
<1>2. ASSUME Base, ClientInv, [Next]_vars PROVE ClientInv'
  BY <1>2, ClientStep
<1> QED  BY <1>1, <1>2, BaseCorrect, PTL DEF Spec

\* StopContainer answers when the program that it found running is dead, also
\* when the program ignores SIGTERM, its tracker is slow, the context ends
\* while it waits or procri has crashed before.
THEOREM StopKillsCorrect == ASSUME OneClient PROVE Spec => []StopKills
<1>1. ClientInv => StopKills
  BY DEF ClientInv, CallsFit, Fits, StopKills, Alive
<1> QED  BY <1>1, ClientCorrect, PTL

\* Wherever procri crashes, StopContainer will find the program of every
\* container whose start came to its tracker.
THEOREM SurvivesCrashCorrect == ASSUME OneClient PROVE Spec => []SurvivesCrash
<1>1. ClientInv => SurvivesCrash
  BY DEF ClientInv, HostInv, AliveIsRunning, SurvivesCrash, Alive, Escaped
<1> QED  BY <1>1, ClientCorrect, PTL

-----------------------------------------------------------------------------
(***************************************************************************)
(* No process is lost, as long as procri does not crash and log files can  *)
(* be opened: every container that may have a live program is listed in    *)
(* its sandbox, or the call is about to list or to remove it.              *)
(***************************************************************************)
NothingEscapes == OneClient /\ "logpipe" \notin Faults /\ "crash" \notin Faults

\* Between the spawn and the start of its tracker the call knows the process.
Tracked ==
  \A p \in Pid : Born(p) /\ Escaped(p) =>
    \E r \in Rpc : calls[r].pc = "start_put" /\ calls[r].cnt.pid = p

PodWork(call) ==
  \/ call.pc \in {"pod_next", "pod_delete", "pod_put"}
  \/ call.op \in PodOps /\ call.pc \in {"kill", "wait"}

\* The snapshot of the sandbox that the call will write back is up to date.
Placed(call) ==
  LET sb == sandboxes[call.pod] IN
  /\ call.pc = "run_put" => sb = Nil
  /\ call.pc \in CreatePcs
       => /\ sb # Nil
          /\ call.sb = [sb EXCEPT !.containers = Append(@, call.cid)]
  /\ call.pc = "create_puts"
       => containers[call.cid] = [pod |-> call.pod, state |-> "CREATED", pid |-> 0]
  /\ call.pc = "remove_put"
       => \A c \in Cid : c # call.cid /\ listed(sandboxes[call.cnt.pod], c) => listed(call.sb, c)
  /\ PodWork(call) => sb = call.sb
  /\ PodWork(call) /\ call.pc # "pod_next" => call.cid = Head(call.sb.containers)
  /\ call.pc = "pod_put" => containers[call.cid] = Nil \/ containers[call.cid].state = "EXITED"
  /\ call.pc = "pod_erase" => sb # Nil /\ sb.containers = <<>>

\* A container that may have a live program, now or later.
Live(c) ==
  /\ containers[c] # Nil
  /\ \/ containers[c].state = "CREATED"
     \/ containers[c].state = "RUNNING" /\ Alive(containers[c].pid)

Handling(call, c) ==
  /\ call.cid = c
  /\ \/ call.pc = "create_puts"
     \/ call.op = "RemoveContainer" /\ call.pc \in {"kill", "wait", "remove_delete"}

LiveListed ==
  \A c \in Cid : Live(c) =>
    listed(sandboxes[containers[c].pod], c) \/ \E r \in Rpc : Handling(calls[r], c)

AllPlaced == \A r \in Rpc : Placed(calls[r])
LeakInv == Tracked /\ AllPlaced /\ LiveListed

\* What is on a list stays on it when something is appended.
LEMMA AppendKeeps ==
  ASSUME NEW s \in Seq(Cid), NEW c \in Cid, NEW d, Contains(s, d) \/ d = c
  PROVE  Contains(Append(s, c), d)
<1>1. CASE Contains(s, d)
  <2>1. PICK i \in 1..Len(s) : s[i] = d
    BY <1>1 DEF Contains
  <2> QED  BY <2>1 DEF Contains
<1>2. CASE d = c
  <2>1. Append(s, c)[Len(s) + 1] = d /\ Len(s) + 1 \in 1..Len(Append(s, c))
    BY <1>2
  <2> QED  BY <2>1 DEF Contains
<1> QED  BY <1>1, <1>2

\* All but the first element of a list are in its tail.
LEMMA TailKeeps ==
  ASSUME NEW s \in Seq(Cid), s # <<>>, NEW d, d # Head(s), Contains(s, d)
  PROVE  Contains(Tail(s), d)
<1>1. PICK i \in 1..Len(s) : s[i] = d
  BY DEF Contains
<1>2. i # 1
  BY <1>1
<1>3. i - 1 \in 1..Len(Tail(s)) /\ Tail(s)[i - 1] = d
  BY <1>1, <1>2
<1> QED  BY <1>3 DEF Contains

\* Taking one element out leaves the others.
LEMMA RemoveAtKeeps ==
  ASSUME NEW s \in Seq(Cid), NEW i \in DOMAIN s, NEW d, d # s[i], Contains(s, d)
  PROVE  Contains(RemoveAt(s, i), d)
<1> DEFINE a == SubSeq(s, 1, i - 1)
           b == SubSeq(s, i + 1, Len(s))
<1>1. i \in 1..Len(s) /\ Len(s) \in Nat
  OBVIOUS
<1>2. PICK j \in 1..Len(s) : s[j] = d
  BY DEF Contains
<1>3. /\ a \in Seq(Cid) /\ Len(a) = i - 1
      /\ b \in Seq(Cid) /\ Len(b) = Len(s) - i
  BY <1>1
<1>4. CASE j < i
  <2>1. a[j] = d
    BY <1>1, <1>2, <1>4
  <2> HIDE DEF a, b
  <2>2. j \in 1..Len(a \o b) /\ (a \o b)[j] = d
    BY <1>1, <1>2, <1>3, <1>4, <2>1
  <2> QED  BY <2>2 DEF RemoveAt, Contains, a, b
<1>5. CASE j > i
  <2>1. b[j - i] = d
    <3>1. j - i \in 1..(Len(s) - (i + 1) + 1) /\ (i + 1) + (j - i) - 1 = j
      BY <1>1, <1>5
    <3>2. i + 1 \in Int /\ Len(s) \in Int /\ \A k \in (i + 1)..Len(s) : s[k] \in Cid
      BY <1>1
    <3>3. \A k \in 1..(Len(s) - (i + 1) + 1) : b[k] = s[(i + 1) + k - 1]
      BY ONLY <3>2, SubSeqProperties
    <3> QED  BY <1>2, <3>1, <3>3
  <2> HIDE DEF a, b
  <2>2. j - 1 \in 1..Len(a \o b) /\ (a \o b)[j - 1] = d
    BY <1>1, <1>2, <1>3, <1>5, <2>1
  <2> QED  BY <2>2 DEF RemoveAt, Contains, a, b
<1> QED  BY <1>2, <1>4, <1>5

\* A step of the handler that writes nothing keeps the container that it is
\* handling, if that one may be alive, and has to place the call where it goes.
LEMMA QuietLeak ==
  ASSUME NothingEscapes, LeakInv, UNCHANGED <<store, host>>, NEW r \in Rpc,
         calls[r].pc # "start_put", Placed(calls'[r]),
         \A c \in Cid : Live(c) /\ Handling(calls[r], c) => Handling(calls'[r], c)
  PROVE  LeakInv'
<1>1. UNCHANGED <<containers, sandboxes, procs, trackers>> /\ \A s \in Rpc : s = r
  BY DEF store, host, NothingEscapes, OneClient
<1>2. Tracked'
  BY <1>1 DEF LeakInv, Tracked, Born, Escaped
<1>3. AllPlaced'
  BY <1>1 DEF AllPlaced, Placed
<1>4. LiveListed'
  BY <1>1 DEF LeakInv, LiveListed, Live, Alive
<1> QED  BY <1>2, <1>3, <1>4 DEF LeakInv

\* A request that arrives reads the sandbox that it will write back.
LEMMA RequestLeak ==
  ASSUME NothingEscapes, Base, ClientInv, LeakInv, NEW r \in Rpc, Request(r)
  PROVE  LeakInv'
<1> DEFINE call == calls'[r]
<1>0. TypeInv /\ UNCHANGED <<store, host>> /\ calls[r].pc = "idle"
  BY DEF Base, Request, Arrive, RunPodSandbox, CreateContainer, EndPodSandbox, StartContainer,
         RemoveContainer, StopContainer
<1>1. UNCHANGED <<containers, sandboxes>>
  BY <1>0 DEF store
<1>2. \A c \in Cid : ~Handling(calls[r], c)
  BY <1>0 DEF Handling
<1>3. ASSUME call.op \notin PodOps,
             call.pc \in {"ok", "error", "start_spawn", "remove_read", "kill"}
      PROVE  Placed(call)
  BY <1>3 DEF Placed, PodWork, CreatePcs
<1>4. ASSUME NEW p \in Pod, RunPodSandbox(r, p) PROVE Placed(call)
  <2>1. /\ call.op = "RunPodSandbox" /\ call.pod = p
        /\ call.pc = IF sandboxes[p] = Nil THEN "run_put" ELSE "error"
    BY <1>0, <1>4 DEF Arrive, TypeInv, TypeOK, RunPodSandbox, NoCall
  <2> HIDE DEF call
  <2> QED  BY <1>1, <2>1 DEF Placed, PodWork, CreatePcs, PodOps
<1>5. ASSUME NEW p \in Pod, CreateContainer(r, p) PROVE Placed(call)
  <2>1. CASE ~isReady(sandboxes[p])
    <3>1. call.op = "CreateContainer" /\ call.pc = "error"
      BY ZenonT(60), <1>0, <1>5, <2>1 DEF Arrive, TypeInv, TypeOK, CreateContainer, NoCall
    <3> QED  BY <1>3, <3>1 DEF PodOps
  <2>2. CASE isReady(sandboxes[p])
    <3>1. PICK c \in Cid \ used :
            Arrive(r, [NoCall EXCEPT !.op = "CreateContainer", !.pod = p,
                                     !.cid = c, !.pc = "create_putc",
                                     !.sb = [sandboxes[p] EXCEPT !.containers = Append(@, c)]])
      BY <1>5, <2>2 DEF CreateContainer
    <3>2. /\ call.op = "CreateContainer" /\ call.pc = "create_putc" /\ call.cid = c /\ call.pod = p
          /\ call.sb = [sandboxes[p] EXCEPT !.containers = Append(@, c)]
      BY <1>0, <3>1 DEF Arrive, TypeInv, TypeOK, NoCall
    <3> HIDE DEF call
    <3> QED  BY <1>1, <2>2, <3>2 DEF Placed, PodWork, CreatePcs, PodOps, isReady
  <2> QED  BY <2>1, <2>2
<1>6. ASSUME NEW p \in Pod, NEW op \in PodOps, EndPodSandbox(r, p, op) PROVE Placed(call)
  <2>1. /\ call.op = op /\ call.pod = p /\ call.sb = sandboxes[p]
        /\ call.pc \in {"ok", "pod_next"}
    BY <1>0, <1>6 DEF Arrive, TypeInv, TypeOK, EndPodSandbox, NoCall
  <2> HIDE DEF call
  <2> QED  BY <1>1, <2>1 DEF Placed, PodWork, CreatePcs
<1>7. ASSUME NEW c \in used, StartContainer(r, c) PROVE Placed(call)
  <2>1. call.op = "StartContainer" /\ call.pc \in {"error", "start_spawn"}
    BY <1>0, <1>7 DEF Arrive, TypeInv, TypeOK, StartContainer, NoCall
  <2> QED  BY <1>3, <2>1 DEF PodOps
<1>8. ASSUME NEW c \in used, RemoveContainer(r, c) PROVE Placed(call)
  <2>1. call.op = "RemoveContainer" /\ call.pc \in {"ok", "remove_read"}
    BY <1>0, <1>8 DEF Arrive, TypeInv, TypeOK, RemoveContainer, NoCall
  <2> QED  BY <1>3, <2>1 DEF PodOps
<1>9. ASSUME NEW c \in used, NEW grace \in BOOLEAN, StopContainer(r, c, grace) PROVE Placed(call)
  <2>1. /\ call.op = "StopContainer"
        /\ call.pc \in {"error", terminateContainer("StopContainer", containers[c])}
    BY <1>0, <1>9 DEF Arrive, TypeInv, TypeOK, StopContainer, NoCall
  <2>2. call.pc \in {"error", "ok", "kill"}
    BY <2>1 DEF terminateContainer, afterTerminate
  <2> QED  BY <1>3, <2>1, <2>2 DEF PodOps
<1>10. Placed(call)
  BY <1>4, <1>5, <1>6, <1>7, <1>8, <1>9 DEF Request
<1> QED  BY <1>0, <1>2, <1>10, QuietLeak

\* terminateContainer goes on with what its caller holds.
LEMMA MovesLeak ==
  ASSUME NothingEscapes, Base, ClientInv, LeakInv, NEW r \in Rpc,
         \/ StartFails(r) \/ Kill(r) \/ KillFails(r) \/ WaitTick(r)
         \/ RemoveReadSandbox(r) \/ PodNext(r) \/ Reply(r)
  PROVE  LeakInv'
<1> DEFINE call == calls'[r]
<1>0. /\ TypeInv /\ Placed(calls[r]) /\ CallShape(calls[r])
      /\ UNCHANGED <<store, host>> /\ calls[r].pc # "start_put"
  BY DEF Base, LeakInv, AllPlaced, TypeInv, CallsShaped, StartFails, Kill, KillFails, WaitTick,
         RemoveReadSandbox, PodNext, Reply, At
<1>1. CASE StartFails(r) \/ Reply(r)
  <2>1. /\ calls[r].pc \in {"start_spawn", "ok", "error"}
        /\ call.pc \in {"error", "idle"}
    BY <1>0, <1>1, GotoIs DEF StartFails, Reply, At, NoCall, TypeInv, TypeOK
  <2>2. Placed(call)
    BY <2>1 DEF Placed, PodWork, CreatePcs
  <2>3. \A c \in Cid : ~Handling(calls[r], c)
    BY <2>1 DEF Handling
  <2> QED  BY <1>0, <2>2, <2>3, QuietLeak
<1>2. CASE Kill(r) \/ KillFails(r) \/ WaitTick(r)
  <2>1. /\ calls[r].pc \in {"kill", "wait"} /\ calls[r].op \in TerminateOps
        /\ call.op = calls[r].op /\ call.cid = calls[r].cid
        /\ call.pod = calls[r].pod /\ call.sb = calls[r].sb
        /\ call.pc \in {"wait", afterTerminate(call.op)}
    BY <1>0, <1>2, GotoIs, TerminatedProcess DEF Kill, KillFails, WaitTick, At
  <2> HIDE DEF call
  <2>2. CASE call.op \in PodOps
    <3>1. call.pc \in {"wait", "pod_delete"} /\ call.op # "RemoveContainer"
      BY <2>1, <2>2 DEF afterTerminate, PodOps
    <3>2. Placed(call)
      BY <1>0, <2>1, <2>2, <3>1 DEF Placed, PodWork, CreatePcs
    <3>3. \A c \in Cid : ~Handling(calls[r], c)
      BY <2>1, <3>1 DEF Handling
    <3> QED  BY <1>0, <3>2, <3>3, QuietLeak DEF call
  <2>3. CASE call.op \notin PodOps
    <3>1. /\ call.pc \in {"wait", "ok", "remove_delete"}
          /\ call.op = "RemoveContainer" => call.pc \in {"wait", "remove_delete"}
      BY <2>1, <2>3 DEF afterTerminate, TerminateOps
    <3>2. Placed(call)
      BY <2>3, <3>1 DEF Placed, PodWork, CreatePcs
    <3>3. \A c \in Cid : Handling(calls[r], c) => Handling(call, c)
      BY SMTT(30), <2>1, <3>1 DEF Handling
    <3> QED  BY <1>0, <3>2, <3>3, QuietLeak DEF call
  <2> QED  BY <2>2, <2>3
<1>3. CASE RemoveReadSandbox(r)
  <2> DEFINE c == calls[r].cid
             sb == sandboxes[calls[r].cnt.pod]
  <2>1. /\ calls[r].pc = "remove_read" /\ calls[r].op = "RemoveContainer"
        /\ calls[r].cnt \in Container /\ sb \in Sandbox \cup {Nil}
    BY <1>0, <1>3 DEF RemoveReadSandbox, At, CallShape, RemovePcs, TypeInv, TypeOK, Container
  <2>2. \A d \in Cid : ~Handling(calls[r], d)
    BY <2>1 DEF Handling
  <2>3. CASE Goto(r, terminateContainer("RemoveContainer", calls[r].cnt))
    <3>1. call.op = "RemoveContainer" /\ call.pc \in {"error", "kill", "remove_delete"}
      BY <1>0, <2>1, <2>3, GotoIs DEF terminateContainer, afterTerminate
    <3>2. Placed(call)
      BY <3>1 DEF Placed, PodWork, CreatePcs, PodOps
    <3> QED  BY <1>0, <2>2, <3>2, QuietLeak
  <2>4. ASSUME listed(sb, c), NEW i \in DOMAIN sb.containers, sb.containers[i] = c,
               calls' = [calls EXCEPT ![r] = [@ EXCEPT !.pc = "remove_put",
                            !.sb = [sb EXCEPT !.containers = RemoveAt(@, i)]]]
        PROVE  LeakInv'
    <3>1. /\ call.op = "RemoveContainer" /\ call.pc = "remove_put" /\ call.cid = c
          /\ call.cnt = calls[r].cnt
          /\ call.sb = [sb EXCEPT !.containers = RemoveAt(@, i)]
      BY <1>0, <2>1, <2>4 DEF TypeInv, TypeOK, Call
    <3>2. sb \in Sandbox
      BY <2>1, <2>4 DEF listed
    <3>3. sb.containers \in Seq(Cid) /\ RemoveAt(sb.containers, i) \in Seq(Cid)
      BY <2>4, <3>2, RemoveAtType DEF Sandbox
    <3>4. call.sb.containers = RemoveAt(sb.containers, i) /\ call.sb \in Sandbox
      BY <3>1, <3>2, <3>3 DEF Sandbox
    <3>5. call.sb # Nil
      BY <3>4, NilAssumption
    <3> HIDE DEF call
    <3>6. ASSUME NEW d \in Cid, d # c, listed(sb, d) PROVE listed(call.sb, d)
      <4>1. Contains(RemoveAt(sb.containers, i), d)
        BY <2>4, <3>3, <3>6, RemoveAtKeeps DEF listed
      <4> QED  BY <3>4, <3>5, <4>1 DEF listed
    <3>7. Placed(call)
      BY <3>1, <3>6 DEF Placed, PodWork, CreatePcs, PodOps
    <3> QED  BY <1>0, <2>2, <3>7, QuietLeak DEF call
  <2> QED  BY <1>3, <2>3, <2>4 DEF RemoveReadSandbox
<1>4. CASE PodNext(r)
  <2> DEFINE c == Head(calls[r].sb.containers)
  <2>1. /\ calls[r].pc = "pod_next" /\ calls[r].op \in PodOps
        /\ sandboxes[calls[r].pod] = calls[r].sb
    BY <1>0, <1>4 DEF PodNext, At, CallShape, PodPcs, Placed, PodWork
  <2>2. /\ call.op = calls[r].op /\ call.cid = c /\ call.pod = calls[r].pod
        /\ call.sb = calls[r].sb
        /\ call.pc = IF containers[c] = Nil THEN "pod_put"
                     ELSE terminateContainer(calls[r].op, containers[c])
    BY <1>0, <1>4 DEF PodNext, TypeInv, TypeOK, Call
  <2> HIDE DEF call
  <2>3. /\ call.pc \in {"pod_put", "pod_delete", "error", "kill"}
        /\ call.pc = "pod_put" => containers[c] = Nil
    BY <2>1, <2>2 DEF terminateContainer, afterTerminate, PodOps
  <2>4. Placed(call)
    BY <2>1, <2>2, <2>3 DEF Placed, PodWork, CreatePcs
  <2>5. \A d \in Cid : ~Handling(calls[r], d)
    BY <2>1 DEF Handling
  <2> QED  BY <1>0, <2>4, <2>5, QuietLeak DEF call
<1> QED  BY <1>1, <1>2, <1>3, <1>4

\* A write of a sandbox record keeps every live container listed, except the
\* one that is being removed.
LEMMA SandboxWriteLeak ==
  ASSUME NothingEscapes, LeakInv, NEW r \in Rpc, NEW p, UNCHANGED <<containers, host>>,
         calls[r].pc # "start_put", Placed(calls[r])',
         \A q \in Pod : q # p => sandboxes'[q] = sandboxes[q],
         \A c \in Cid : Live(c) /\ containers[c].pod = p /\ listed(sandboxes[p], c)
                          => listed(sandboxes'[p], c) \/ Handling(calls'[r], c),
         \A c \in Cid : Live(c) /\ Handling(calls[r], c)
                          => listed(sandboxes'[containers[c].pod], c) \/ Handling(calls'[r], c),
         \A c \in Cid : containers[c] # Nil => containers[c].pod \in Pod
  PROVE  LeakInv'
<1>1. UNCHANGED <<containers, procs, trackers>> /\ \A s \in Rpc : s = r
  BY DEF host, NothingEscapes, OneClient
<1>2. Tracked'
  BY <1>1 DEF LeakInv, Tracked, Born, Escaped
<1>3. AllPlaced'
  BY <1>1 DEF AllPlaced, Placed
<1>4. ASSUME NEW c \in Cid, Live(c)
      PROVE  listed(sandboxes'[containers[c].pod], c) \/ Handling(calls'[r], c)
  <2>1. CASE Handling(calls[r], c)
    BY <1>4, <2>1
  <2>2. CASE listed(sandboxes[containers[c].pod], c) /\ containers[c].pod = p
    BY <1>4, <2>2
  <2>3. CASE listed(sandboxes[containers[c].pod], c) /\ containers[c].pod # p
    BY <1>4, <2>3 DEF Live
  <2> QED  BY <1>1, <1>4, <2>1, <2>2, <2>3 DEF LeakInv, LiveListed
<1>5. LiveListed'
  BY <1>1, <1>4 DEF LiveListed, Live, Alive
<1> QED  BY <1>2, <1>3, <1>5 DEF LeakInv

\* The sandbox's record is written back by the one call that works on it.
LEMMA SandboxWritesLeak ==
  ASSUME NothingEscapes, Base, ClientInv, LeakInv, NEW r \in Rpc,
         \/ RunPut(r) \/ CreatePutSandbox(r) \/ RemovePutSandbox(r)
         \/ PodPut(r) \/ PodFinish(r) \/ PodErase(r)
  PROVE  LeakInv'
<1> DEFINE call == calls[r]
           pod == IF call.pc = "remove_put" THEN call.cnt.pod ELSE call.pod
<1>0. /\ TypeInv /\ Placed(call) /\ CallShape(call) /\ Fits(call) /\ "store" \notin Faults
      /\ UNCHANGED <<containers, host>> /\ call.pc # "start_put"
  BY DEF Base, LeakInv, AllPlaced, TypeInv, CallsShaped, ClientInv, CallsFit, RunPut, At,
         CreatePutSandbox, RemovePutSandbox, PodPut, PodFinish, PodErase, NothingEscapes, OneClient
<1>1. \A c \in Cid : containers[c] # Nil => containers[c].pod \in Pod
  BY <1>0 DEF TypeInv, TypeOK, Container
<1>2. pod \in Pod
  BY <1>0 DEF RunPut, CreatePutSandbox, RemovePutSandbox, PodPut, PodFinish, PodErase, At, CallShape,
              CreatePcs, PodPcs, RemovePcs, Container
<1>3. CASE RunPut(r)
  <2>1. /\ call.pc = "run_put" /\ pod = call.pod /\ sandboxes[pod] = Nil
        /\ sandboxes' = [sandboxes EXCEPT ![pod] = [state |-> "READY", containers |-> <<>>]]
        /\ calls'[r].pc = "ok"
    BY <1>0, <1>3, GotoIs DEF RunPut, At, Placed, putSandbox
  <2> HIDE DEF call, pod
  <2>2. Placed(calls[r])'
    <3>1. calls'[r].op \notin PodOps \/ calls'[r].pc \notin {"kill", "wait"}
      BY <2>1
    <3> QED  BY <2>1, <3>1 DEF Placed, PodWork, CreatePcs
  <2>3. \A c \in Cid : ~listed(sandboxes[pod], c) /\ ~Handling(calls[r], c)
    BY <2>1 DEF listed, Handling, call
  <2>4. \A q \in Pod : q # pod => sandboxes'[q] = sandboxes[q]
    BY <2>1
  <2> QED  BY <1>0, <1>1, <2>1, <2>2, <2>3, <2>4, SandboxWriteLeak DEF call
<1>4. CASE CreatePutSandbox(r)
  <2>1. /\ call.pc = "create_puts" /\ pod = call.pod /\ sandboxes[pod] # Nil
        /\ call.sb = [sandboxes[pod] EXCEPT !.containers = Append(@, call.cid)]
        /\ sandboxes' = [sandboxes EXCEPT ![pod] = call.sb]
        /\ containers[call.cid].pod = pod
        /\ calls'[r].pc = "ok" /\ call.cid \in Cid /\ call.sb \in Sandbox
    BY <1>0, <1>4, GotoIs DEF CreatePutSandbox, At, Placed, putSandbox, CreatePcs, CallShape
  <2>2. sandboxes[pod] \in Sandbox /\ sandboxes'[pod] = call.sb /\ call.sb # Nil
    BY SMTT(30), <1>0, <1>2, <2>1, NilAssumption DEF TypeInv, TypeOK
  <2>3. call.sb.containers = Append(sandboxes[pod].containers, call.cid)
        /\ sandboxes[pod].containers \in Seq(Cid)
    BY <2>1, <2>2 DEF Sandbox
  <2> HIDE DEF call, pod
  <2>4. Placed(calls[r])'
    BY <2>1 DEF Placed, PodWork, CreatePcs
  <2>5. ASSUME NEW c \in Cid, listed(sandboxes[pod], c) \/ c = call.cid
        PROVE  listed(sandboxes'[pod], c)
    <3>1. Contains(call.sb.containers, c)
      BY <2>1, <2>3, <2>5, AppendKeeps DEF listed
    <3> QED  BY <2>2, <3>1 DEF listed
  <2>6. \A q \in Pod : q # pod => sandboxes'[q] = sandboxes[q]
    BY <2>1
  <2>7. \A c \in Cid : Handling(calls[r], c) => listed(sandboxes'[containers[c].pod], c)
    BY <2>1, <2>5 DEF Handling, call
  <2> QED  BY <1>0, <1>1, <2>4, <2>5, <2>6, <2>7, SandboxWriteLeak DEF call
<1>5. CASE RemovePutSandbox(r)
  <2>1. /\ call.pc = "remove_put" /\ pod = call.cnt.pod /\ call.op = "RemoveContainer"
        /\ call.cid \in Cid /\ call.cnt \in Container
        /\ \A c \in Cid : c # call.cid /\ listed(sandboxes[pod], c) => listed(call.sb, c)
        /\ sandboxes' = [sandboxes EXCEPT ![pod] = call.sb]
        /\ containers[call.cid] \in {call.cnt, exited(call.cnt)}
    BY <1>0, <1>5 DEF RemovePutSandbox, At, Placed, putSandbox, CallShape, RemovePcs, Fits
  <2>2. /\ calls'[r].op = "RemoveContainer" /\ calls'[r].cid = call.cid
        /\ calls'[r].pc = terminateContainer("RemoveContainer", call.cnt)
    BY <1>0, <1>5, <2>1, GotoIs DEF RemovePutSandbox
  <2>3. calls'[r].pc \in {"kill", "remove_delete"}
    <3>1. CASE call.cnt.state # "RUNNING"
      BY <2>2, <3>1 DEF terminateContainer, afterTerminate
    <3>2. CASE call.cnt.state = "RUNNING"
      <4>1. containers[call.cid] # Nil /\ containers[call.cid].pid = call.cnt.pid
            /\ containers[call.cid].state # "CREATED"
        BY <2>1, <3>2, NilAssumption DEF exited, Container
      <4>2. call.cnt.pid # 0
        BY <2>1, <4>1 DEF ClientInv, HostInv, RecordShape
      <4> QED  BY <2>2, <3>2, <4>2 DEF terminateContainer
    <3> QED  BY <3>1, <3>2
  <2> HIDE DEF call, pod
  <2>4. Placed(calls[r])'
    BY <2>2, <2>3 DEF Placed, PodWork, CreatePcs, PodOps
  <2>5. Handling(calls'[r], call.cid)
    BY <2>2, <2>3 DEF Handling
  <2>6. sandboxes'[pod] = call.sb /\ \A q \in Pod : q # pod => sandboxes'[q] = sandboxes[q]
    BY <1>0, <1>2, <2>1 DEF TypeInv, TypeOK
  <2>7. \A c \in Cid : ~Handling(calls[r], c)
    BY <2>1 DEF Handling, call
  <2>8. \A c \in Cid : listed(sandboxes[pod], c)
                          => listed(sandboxes'[pod], c) \/ Handling(calls'[r], c)
    BY <2>1, <2>5, <2>6
  <2> QED  BY <1>0, <1>1, <2>4, <2>6, <2>7, <2>8, SandboxWriteLeak DEF call
<1>6. CASE PodPut(r)
  <2> DEFINE sb == [call.sb EXCEPT !.containers = Tail(@)]
  <2>1. /\ call.pc = "pod_put" /\ pod = call.pod /\ sandboxes[pod] = call.sb /\ call.op \in PodOps
        /\ call.sb \in Sandbox /\ call.sb.containers # <<>> /\ call.cid = Head(call.sb.containers)
        /\ containers[call.cid] = Nil \/ containers[call.cid].state = "EXITED"
        /\ sandboxes' = [sandboxes EXCEPT ![pod] = sb]
        /\ calls' = [calls EXCEPT ![r] = [@ EXCEPT !.sb = sb, !.pc = "pod_next"]]
    BY <1>0, <1>6 DEF PodPut, At, Placed, PodWork, putSandbox, CallShape, PodPcs
  <2>2. /\ calls'[r].pc = "pod_next" /\ calls'[r].pod = pod /\ calls'[r].sb = sb
        /\ calls'[r].op = call.op
    BY <1>0, <2>1 DEF TypeInv, TypeOK, Call
  <2>3. sb \in Sandbox /\ sb.containers = Tail(call.sb.containers)
        /\ call.sb.containers \in Seq(Cid)
    <3>1. call.sb.containers \in Seq(Cid) /\ call.sb.containers # <<>>
      BY <2>1 DEF Sandbox
    <3>2. Tail(call.sb.containers) \in Seq(Cid)
      BY ONLY <3>1
    <3> HIDE DEF call
    <3> QED  BY <2>1, <3>1, <3>2 DEF Sandbox
  <2>4. sb # Nil
    BY <2>3, NilAssumption
  <2>5. ASSUME NEW c \in Cid, Live(c), listed(sandboxes[pod], c) PROVE listed(sb, c)
    <3>1. c # Head(call.sb.containers)
      BY <2>1, <2>5 DEF Live
    <3>2. Contains(Tail(call.sb.containers), c)
      BY <2>1, <2>3, <2>5, <3>1, TailKeeps DEF listed
    <3> QED  BY <2>3, <2>4, <3>2 DEF listed
  <2>6. sandboxes'[pod] = sb /\ \A q \in Pod : q # pod => sandboxes'[q] = sandboxes[q]
    BY <1>0, <1>2, <2>1 DEF TypeInv, TypeOK
  <2> HIDE DEF call, pod, sb
  <2>7. Placed(calls[r])'
    BY <2>2, <2>6 DEF Placed, PodWork, CreatePcs
  <2>8. \A c \in Cid : ~Handling(calls[r], c)
    BY <2>1 DEF Handling, call, PodOps
  <2> QED  BY <1>0, <1>1, <2>5, <2>6, <2>7, <2>8, SandboxWriteLeak DEF call
<1>7. CASE PodFinish(r)
  <2> DEFINE sb == [call.sb EXCEPT !.state = "NOTREADY"]
  <2>1. /\ call.pc = "pod_next" /\ pod = call.pod /\ sandboxes[pod] = call.sb
        /\ call.sb \in Sandbox /\ call.sb.containers = <<>>
        /\ sandboxes' = [sandboxes EXCEPT ![pod] = sb]
    BY <1>0, <1>7 DEF PodFinish, At, Placed, PodWork, putSandbox, CallShape, PodPcs
  <2>2. calls'[r].pc \in {"ok", "pod_erase"} /\ calls'[r].pod = pod
    BY <1>0, <1>7, <2>1, GotoIs DEF PodFinish
  <2>3. sb \in Sandbox /\ sb.containers = <<>>
    BY <2>1 DEF Sandbox
  <2>4. sandboxes'[pod] = sb /\ \A q \in Pod : q # pod => sandboxes'[q] = sandboxes[q]
    BY <1>0, <1>2, <2>1 DEF TypeInv, TypeOK
  <2>5. \A c \in Cid : ~listed(sandboxes[pod], c)
    BY <2>1 DEF listed, Contains
  <2> HIDE DEF call, pod, sb
  <2>6. Placed(calls[r])'
    BY <2>2, <2>3, <2>4, NilAssumption DEF Placed, PodWork, CreatePcs
  <2>7. \A c \in Cid : ~Handling(calls[r], c)
    BY <2>1 DEF Handling, call
  <2> QED  BY <1>0, <1>1, <2>4, <2>5, <2>6, <2>7, SandboxWriteLeak DEF call
<1>8. CASE PodErase(r)
  <2>1. /\ call.pc = "pod_erase" /\ pod = call.pod
        /\ sandboxes[pod].containers = <<>>
        /\ sandboxes' = [sandboxes EXCEPT ![pod] = Nil]
        /\ calls'[r].pc = "ok"
    BY <1>0, <1>8, GotoIs DEF PodErase, At, Placed, deleteSandbox
  <2>2. \A q \in Pod : q # pod => sandboxes'[q] = sandboxes[q]
    BY <2>1
  <2>3. \A c \in Cid : ~listed(sandboxes[pod], c)
    BY <2>1 DEF listed, Contains
  <2> HIDE DEF call, pod
  <2>4. Placed(calls[r])'
    BY <2>1 DEF Placed, PodWork, CreatePcs
  <2>5. \A c \in Cid : ~Handling(calls[r], c)
    BY <2>1 DEF Handling, call
  <2> QED  BY <1>0, <1>1, <2>2, <2>3, <2>4, <2>5, SandboxWriteLeak DEF call
<1> QED  BY <1>3, <1>4, <1>5, <1>6, <1>7, <1>8

\* A write of a container's record that keeps every other call's place.
LEMMA RecordWriteLeak ==
  ASSUME NothingEscapes, Base, LeakInv, NEW c \in Cid, NEW rec,
         containers' = [containers EXCEPT ![c] = rec], UNCHANGED <<sandboxes, procs>>,
         Tracked', \A r \in Rpc : Placed(calls[r])',
         Live(c)' => listed(sandboxes[rec.pod], c) \/ \E r \in Rpc : Handling(calls'[r], c),
         \A r \in Rpc, d \in Cid : d # c /\ Handling(calls[r], d) => Handling(calls'[r], d)
  PROVE  LeakInv'
<1>1. containers'[c] = rec /\ \A d \in Cid : d # c => containers'[d] = containers[d]
  BY DEF Base, TypeInv, TypeOK
<1>2. ASSUME NEW d \in Cid, Live(d)'
      PROVE  listed(sandboxes'[containers'[d].pod], d) \/ \E r \in Rpc : Handling(calls'[r], d)
  <2>1. CASE d = c
    BY <1>1, <1>2, <2>1
  <2>2. CASE d # c
    BY <1>1, <1>2, <2>2 DEF LeakInv, LiveListed, Live, Alive
  <2> QED  BY <2>1, <2>2
<1>3. LiveListed'
  BY <1>2 DEF LiveListed
<1> QED  BY <1>3 DEF LeakInv, AllPlaced

\* The handler writes or erases a container's record.
LEMMA RecordsLeak ==
  ASSUME NothingEscapes, Base, ClientInv, LeakInv, NEW r \in Rpc,
         CreatePutContainer(r) \/ StartPut(r) \/ RemoveDelete(r) \/ PodDelete(r)
  PROVE  LeakInv'
<1> DEFINE call == calls[r]
<1>c. PICK c \in Cid : c = call.cid
  BY DEF CreatePutContainer, StartPut, RemoveDelete, PodDelete, At, Base, TypeInv, CallsShaped,
         CallShape, CreatePcs, RemovePcs
<1>0. /\ TypeInv /\ Placed(call) /\ CallShape(call) /\ Fits(call) /\ "store" \notin Faults
      /\ UNCHANGED <<sandboxes, procs>> /\ \A s \in Rpc : s = r
  BY DEF Base, LeakInv, AllPlaced, TypeInv, CallsShaped, ClientInv, CallsFit, NothingEscapes,
         OneClient, CreatePutContainer, StartPut, RemoveDelete, PodDelete, host
<1>1. CASE CreatePutContainer(r)
  <2> DEFINE rec == [pod |-> call.pod, state |-> "CREATED", pid |-> 0]
  <2>1. /\ call.pc = "create_putc" /\ c = call.cid
        /\ containers' = [containers EXCEPT ![c] = rec] /\ UNCHANGED trackers
        /\ calls'[r].pc = "create_puts" /\ calls'[r].cid = c /\ calls'[r].pod = call.pod
        /\ calls'[r].sb = call.sb
    BY <1>c, <1>0, <1>1, GotoIs DEF CreatePutContainer, At, CallShape, CreatePcs, putContainer, host
  <2>2. containers'[c] = rec
    BY <1>0, <2>1 DEF TypeInv, TypeOK
  <2> HIDE DEF call, rec
  <2>3. Placed(calls[r])'
    BY <1>0, <2>1, <2>2 DEF Placed, PodWork, CreatePcs, rec
  <2>4. Tracked'
    BY <1>0, <2>1 DEF LeakInv, Tracked, Born, Escaped, call
  <2>5. Handling(calls'[r], c) /\ \A d \in Cid : ~Handling(calls[r], d)
    BY <2>1 DEF Handling, call
  <2> QED  BY <1>0, <2>1, <2>3, <2>4, <2>5, RecordWriteLeak
<1>2. CASE StartPut(r)
  <2> DEFINE p == call.cnt.pid
  <2>1. /\ call.pc = "start_put" /\ c = call.cid /\ p \in Pid
        /\ containers[c] # Nil /\ containers[c].state = "CREATED"
        /\ containers[c].pod = call.cnt.pod
        /\ containers' = [containers EXCEPT ![c] = call.cnt]
        /\ trackers' = [trackers EXCEPT ![p].pc = "wait"]
        /\ calls'[r].pc = "ok"
    BY <1>c, <1>0, <1>2, GotoIs DEF StartPut, At, CallShape, Fits, putContainer
  <2>2. trackers'[p].pc = "wait" /\ \A q \in Pid : q # p => trackers'[q] = trackers[q]
    BY <1>0, <2>1 DEF TypeInv, TypeOK, Tracker
  <2>3. Placed(calls[r])'
    BY <2>1 DEF Placed, PodWork, CreatePcs
  <2>4. Tracked'
    <3>1. \A q \in Pid : Born(q) /\ Escaped(q) => q = p
      BY <1>0 DEF LeakInv, Tracked
    <3> QED  BY <1>0, <2>2, <3>1 DEF Tracked, Born, Escaped
  <2>5. \A d \in Cid : ~Handling(calls[r], d)
    BY <2>1 DEF Handling
  <2>6. listed(sandboxes[call.cnt.pod], c)
    BY <1>0, <2>1, <2>5 DEF LeakInv, LiveListed, Live
  <2> HIDE DEF call, p
  <2> QED  BY <1>0, <2>1, <2>3, <2>4, <2>5, <2>6, RecordWriteLeak
<1>3. CASE RemoveDelete(r) \/ PodDelete(r)
  <2>1. /\ c = call.cid /\ call.pc \in {"remove_delete", "pod_delete"}
        /\ containers' = [containers EXCEPT ![c] = Nil] /\ UNCHANGED trackers
        /\ calls'[r].cid = c /\ calls'[r].pod = call.pod /\ calls'[r].sb = call.sb
        /\ \/ calls'[r].pc = "ok"
           \/ PodWork(call) /\ call.pc = "pod_delete" /\ calls'[r].pc = "pod_put"
    BY <1>c, <1>0, <1>3, GotoIs
    DEF RemoveDelete, PodDelete, At, CallShape, RemovePcs, deleteContainer, host, PodWork
  <2>2. containers'[c] = Nil
    BY <1>0, <2>1 DEF TypeInv, TypeOK
  <2> HIDE DEF call
  <2>3. Placed(calls[r])'
    BY <1>0, <2>1, <2>2 DEF Placed, PodWork, CreatePcs
  <2>4. Tracked'
    BY <1>0, <2>1 DEF LeakInv, Tracked, Born, Escaped, call
  <2>5. ~Live(c)' /\ \A d \in Cid : d # c => ~Handling(calls[r], d)
    BY <2>1, <2>2 DEF Handling, Live, call
  <2> QED  BY <1>0, <2>1, <2>3, <2>4, <2>5, RecordWriteLeak
<1> QED  BY <1>1, <1>2, <1>3

\* The tracker writes EXITED.
LEMMA ReportLeak ==
  ASSUME NothingEscapes, Base, ClientInv, LeakInv, NEW p \in Pid, TrackerWrite(p)
  PROVE  LeakInv'
<1> DEFINE cnt == trackers[p].cnt
<1>c. PICK c \in Cid : c = procs[p].cid
  BY DEF TrackerWrite, Base, TypeInv, ProcsOwned
<1>r. PICK rec : rec = exited(cnt)
  OBVIOUS
<1>1. /\ cnt \in Container /\ cnt.pid = p /\ p # 0
      /\ containers[c] \in {Nil, cnt} /\ trackers[p].pc = "write" /\ Born(p)
  BY <1>c, PidAssumption DEF TrackerWrite, Base, TypeInv, ProcsOwned, TrackersReaped, ClientInv, HostInv,
                       TrackerKept, Born
<1>2. /\ containers' = [containers EXCEPT ![c] = rec]
      /\ trackers' = [trackers EXCEPT ![p] = [pc |-> "done", cnt |-> Nil]]
      /\ UNCHANGED <<sandboxes, procs, calls>>
  BY <1>c, <1>r DEF TrackerWrite, putContainer, NothingEscapes, OneClient
<1>3. /\ containers'[c] = rec /\ trackers'[p].pc = "done"
      /\ \A d \in Cid : d # c => containers'[d] = containers[d]
      /\ \A q \in Pid : q # p => trackers'[q] = trackers[q]
  BY <1>1, <1>2 DEF Base, TypeInv, TypeOK
<1>4. rec.state = "EXITED"
  BY <1>1, <1>r DEF exited, Container
<1> HIDE DEF cnt
<1>5. Tracked'
  BY <1>1, <1>2, <1>3 DEF LeakInv, Tracked, Born, Escaped
<1>6. ~Live(c)'
  BY <1>3, <1>4 DEF Live
<1>7. ASSUME NEW r \in Rpc PROVE Placed(calls[r])'
  <2> DEFINE call == calls[r]
  <2>1. Placed(call) /\ CallShape(call)
    BY DEF LeakInv, AllPlaced, Base, TypeInv, CallsShaped
  <2>2. call.pc = "create_puts" => containers'[call.cid] = containers[call.cid]
    <3>1. SUFFICES ASSUME call.pc = "create_puts" PROVE call.cid # c /\ call.cid \in Cid
      BY <1>3
    <3>2. containers[call.cid] = [pod |-> call.pod, state |-> "CREATED", pid |-> 0]
          /\ call.cid \in Cid
      BY <2>1, <3>1 DEF Placed, CallShape, CreatePcs
    <3>3. containers[call.cid] \in Container
      BY <3>2, <2>1, <3>1 DEF Container, CallShape, CreatePcs
    <3> QED  BY <1>1, <3>2, <3>3, NilAssumption
  <2>3. call.pc = "pod_put" => containers'[call.cid] \in {containers[call.cid], rec}
    BY <1>3, <2>1 DEF CallShape
  <2> QED  BY <1>2, <1>4, <2>1, <2>2, <2>3 DEF Placed, PodWork
<1> QED  BY <1>1, <1>2, <1>5, <1>6, <1>7, RecordWriteLeak

\* The call knows the process that it has spawned.
LEMMA SpawnLeak ==
  ASSUME NothingEscapes, Base, ClientInv, LeakInv, NEW r \in Rpc, StartSpawn(r)
  PROVE  LeakInv'
<1>1. /\ calls[r] \in Call /\ calls[r].cnt \in Container /\ calls[r].pc = "start_spawn"
      /\ \A s \in Rpc : s = r
  BY DEF StartSpawn, At, Base, TypeInv, TypeOK, CallsShaped, CallShape, NothingEscapes, OneClient
<1>2. PICK p \in Pid, h \in BOOLEAN :
        /\ procs[p].main = "unborn"
        /\ procs' = [procs EXCEPT ![p] = [main |-> "alive", helper |-> h, cid |-> calls[r].cid]]
        /\ calls' = [calls EXCEPT ![r] = [@ EXCEPT !.pc = "start_put", !.cnt.pid = p,
                                                   !.cnt.state = "RUNNING"]]
  BY DEF StartSpawn, NothingEscapes
<1>3. UNCHANGED <<containers, sandboxes, trackers>>
  BY DEF StartSpawn, store
<1>4. calls'[r].pc = "start_put" /\ calls'[r].cnt.pid = p
  BY <1>1, <1>2 DEF Base, TypeInv, TypeOK, Call, Container
<1>5. \A q \in Pid : q # p => procs'[q] = procs[q]
  BY <1>2
<1>6. Tracked'
  <2>1. \A q \in Pid : ~(Born(q) /\ Escaped(q))
    BY <1>1 DEF LeakInv, Tracked
  <2> QED  BY <1>3, <1>4, <1>5, <2>1 DEF Tracked, Born, Escaped
<1>7. AllPlaced'
  BY <1>1, <1>4 DEF AllPlaced, Placed, PodWork, CreatePcs
<1>8. LiveListed'
  <2> SUFFICES ASSUME NEW c \in Cid, Live(c)'
               PROVE  listed(sandboxes[containers[c].pod], c)
    BY <1>3 DEF LiveListed
  <2>1. containers[c] # Nil /\ containers[c] \in Container
    BY <1>3 DEF Live, Base, TypeInv, TypeOK
  <2>2. containers[c].state = "RUNNING" => containers[c].pid \in Pid /\ Born(containers[c].pid)
    BY <2>1 DEF Container, ClientInv, HostInv, RecordShape, Base, RecordsOwn, Born
  <2>3. Live(c)
    BY <1>2, <1>3, <1>5, <2>1, <2>2 DEF Live, Alive, Born
  <2>4. ~Handling(calls[r], c)
    BY <1>1 DEF Handling
  <2> QED  BY <1>1, <2>3, <2>4 DEF LeakInv, LiveListed
<1> QED  BY <1>6, <1>7, <1>8 DEF LeakInv

\* When programs end and no record is written, a container may only stop being
\* live.
LEMMA DyingLeak ==
  ASSUME Base, ClientInv, Dying
  PROVE  /\ \A c \in Cid : Live(c)' => Live(c)
         /\ \A p \in Pid : Born(p)' /\ Escaped(p)' => Born(p) /\ Escaped(p)
<1>1. ASSUME NEW c \in Cid, Live(c)' PROVE Live(c)
  <2>1. containers[c] # Nil /\ containers[c] \in Container /\ containers'[c] = containers[c]
    BY <1>1 DEF Live, Dying, Base, TypeInv, TypeOK
  <2>2. containers[c].state = "RUNNING" => containers[c].pid \in Pid
    BY <2>1 DEF Container, ClientInv, HostInv, RecordShape
  <2> QED  BY <1>1, <2>1, <2>2 DEF Live, Dying, Alive
<1> QED  BY <1>1 DEF Dying, Born, Escaped

\* A killed program need not be found any more.
LEMMA KilledLeak ==
  ASSUME NothingEscapes, Base, ClientInv, LeakInv, NEW r \in Rpc, WaitTimeout(r) \/ WaitCancelled(r)
  PROVE  LeakInv'
<1> DEFINE call == calls'[r]
           p == calls[r].cnt.pid
<1>1. /\ calls[r].pc = "wait" /\ calls[r].op \in TerminateOps /\ p \in Pid
      /\ calls[r].cid \in Cid /\ containers[calls[r].cid].pid = p
      /\ containers[calls[r].cid].state \in {"RUNNING", "EXITED"}
  <2>1. calls[r].pc = "wait"
    BY DEF WaitTimeout, WaitCancelled, At
  <2> QED  BY <2>1, TerminatedProcess
<1>2. /\ call.op = calls[r].op /\ call.cid = calls[r].cid /\ call.pod = calls[r].pod
      /\ call.sb = calls[r].sb
      /\ call.pc = afterTerminate(calls[r].op) \/ call.pc = "error"
  BY GotoIs DEF WaitTimeout, WaitCancelled, Base
<1>3. /\ Dying /\ procs'[p].main # "alive"
      /\ UNCHANGED <<containers, sandboxes>> /\ \A s \in Rpc : s = r
  BY KillEndsProgram DEF WaitTimeout, WaitCancelled, store, NothingEscapes, OneClient
<1>4. Tracked'
  BY <1>1, <1>3, DyingLeak DEF LeakInv, Tracked
<1>5. Placed(calls[r])'
  <2>1. Placed(calls[r])
    BY DEF LeakInv, AllPlaced
  <2>2. CASE call.op \in PodOps
    <3>1. call.pc \in {"error", "pod_delete"} /\ PodWork(calls[r])
      BY <1>1, <1>2, <2>2 DEF afterTerminate, PodOps, PodWork
    <3> QED  BY <1>1, <1>2, <1>3, <2>1, <3>1 DEF Placed, PodWork, CreatePcs
  <2>3. CASE call.op \notin PodOps
    <3>1. call.pc \in {"error", "ok", "remove_delete"}
      BY <1>1, <1>2, <2>3 DEF afterTerminate, TerminateOps
    <3> QED  BY <2>3, <3>1 DEF Placed, PodWork, CreatePcs
  <2> QED  BY <2>2, <2>3
<1>6. ASSUME NEW c \in Cid, Live(c)'
      PROVE  listed(sandboxes[containers[c].pod], c) \/ Handling(call, c)
  <2>1. Live(c)
    BY <1>3, <1>6, DyingLeak
  <2>2. CASE Handling(calls[r], c)
    <3>1. c = calls[r].cid
      BY <2>2 DEF Handling
    <3>2. ~Live(c)'
      BY <1>1, <1>3, <3>1 DEF Live, Alive
    <3> QED  BY <1>6, <3>2
  <2>3. CASE ~Handling(calls[r], c)
    BY <1>3, <2>1, <2>3 DEF LeakInv, LiveListed
  <2> QED  BY <2>2, <2>3
<1>7. LiveListed'
  BY <1>3, <1>6 DEF LiveListed
<1> QED  BY <1>3, <1>4, <1>5, <1>7 DEF LeakInv, AllPlaced

\* Nothing that happens on the host loses a process.
LEMMA HostLeak ==
  ASSUME NothingEscapes, Base, ClientInv, LeakInv, NEW p \in Pid,
         TrackerWait(p) \/ TrackerRead(p) \/ MainExits(p) \/ HelperExits(p)
  PROVE  LeakInv'
<1>1. Dying /\ UNCHANGED <<containers, sandboxes, calls>>
  BY HostDies
<1>2. Tracked'
  BY <1>1, DyingLeak DEF LeakInv, Tracked
<1>3. AllPlaced'
  BY <1>1 DEF LeakInv, AllPlaced, Placed, PodWork
<1>4. LiveListed'
  BY <1>1, DyingLeak DEF LeakInv, LiveListed, Handling
<1> QED  BY <1>2, <1>3, <1>4 DEF LeakInv

\* Every step keeps the containers in reach.
LEMMA LeakStep ==
  ASSUME NothingEscapes, Base, ClientInv, LeakInv, [Next]_vars
  PROVE  LeakInv'
<1>1. ASSUME NEW r \in Rpc, Request(r) PROVE LeakInv'
  BY <1>1, RequestLeak
<1>2. ASSUME NEW r \in Rpc, HandlerStep(r) PROVE LeakInv'
  <2>1. CASE \/ StartFails(r) \/ Kill(r) \/ KillFails(r) \/ WaitTick(r)
             \/ RemoveReadSandbox(r) \/ PodNext(r) \/ Reply(r)
    BY <2>1, MovesLeak
  <2>2. CASE \/ RunPut(r) \/ CreatePutSandbox(r) \/ RemovePutSandbox(r)
             \/ PodPut(r) \/ PodFinish(r) \/ PodErase(r)
    BY <2>2, SandboxWritesLeak
  <2>3. CASE CreatePutContainer(r) \/ StartPut(r) \/ RemoveDelete(r) \/ PodDelete(r)
    BY <2>3, RecordsLeak
  <2>4. CASE StartSpawn(r)
    BY <2>4, SpawnLeak
  <2> QED  BY <1>2, <2>1, <2>2, <2>3, <2>4 DEF HandlerStep
<1>3. ASSUME NEW r \in Rpc, WaitTimeout(r) \/ WaitCancelled(r) PROVE LeakInv'
  BY <1>3, KilledLeak
<1>4. ASSUME NEW p \in Pid, TrackerStep(p) \/ MainExits(p) \/ HelperExits(p) PROVE LeakInv'
  BY <1>4, HostLeak, ReportLeak DEF TrackerStep
<1>5. CASE Crash
  BY <1>5 DEF Crash, NothingEscapes
<1>6. CASE UNCHANGED vars
  <2>1. UNCHANGED <<containers, sandboxes, procs, trackers, calls>>
    BY <1>6 DEF vars
  <2> QED
    BY <2>1 DEF LeakInv, Tracked, AllPlaced, Placed, PodWork, LiveListed, Live, Handling, Born,
                Alive, Escaped
<1> QED  BY <1>1, <1>2, <1>3, <1>4, <1>5, <1>6 DEF Next

\* Between requests no process is lost, whatever programs do with their signals,
\* whichever contexts end in the middle of a call, and however slow the trackers
\* are.
THEOREM NoLeakCorrect == ASSUME NothingEscapes PROVE Spec => []NoLeakedProcess
<1>1. Init => LeakInv
  BY DEF Init, LeakInv, Tracked, AllPlaced, Placed, PodWork, LiveListed, Live, Born, Unborn, NoCall,
         CreatePcs
<1>2. ASSUME Base, ClientInv, LeakInv, [Next]_vars PROVE LeakInv'
  BY <1>2, LeakStep
<1>3. ASSUME Base, ClientInv, LeakInv PROVE NoLeakedProcess
  <2> SUFFICES ASSUME Quiet, NEW p \in Pid, Alive(p)
               PROVE  /\ ownedBy(containers[procs[p].cid], p)
                      /\ containers[procs[p].cid].state = "RUNNING"
                      /\ listed(sandboxes[containers[procs[p].cid].pod], procs[p].cid)
    BY DEF NoLeakedProcess, Alive
  <2>1. procs[p].cid \in Cid /\ Born(p)
    BY <1>3 DEF Base, TypeInv, ProcsOwned, Alive, Born
  <2>2. ~Escaped(p)
    BY <1>3, <2>1 DEF LeakInv, Tracked, Quiet
  <2>3. ownedBy(containers[procs[p].cid], p) /\ containers[procs[p].cid].state = "RUNNING"
    BY <1>3, <2>2 DEF ClientInv, HostInv, AliveIsRunning
  <2>4. \A r \in Rpc : ~Handling(calls[r], procs[p].cid)
    BY DEF Quiet, Handling
  <2> QED  BY <1>3, <2>1, <2>3, <2>4 DEF LeakInv, LiveListed, Live, ownedBy
<1>4. Spec => []ClientInv
  BY ClientCorrect DEF NothingEscapes
<1> QED  BY <1>1, <1>2, <1>3, <1>4, BaseCorrect, PTL DEF Spec

-----------------------------------------------------------------------------
(***************************************************************************)
(* The service implements ContainerLifecycle, as long as procri does not   *)
(* crash: every step moves one container one phase forward, or none.       *)
(***************************************************************************)
phases == [c \in Cid |-> phaseOf(c)]
LifeInv == Base /\ ClientInv /\ RunningIsWatched

\* The phase, case by case.
PhaseFacts(c) ==
  LET rec == containers[c] IN
  /\ rec # Nil /\ rec.state = "RUNNING" => phaseOf(c) = alivePhase(rec.pid)
  /\ rec # Nil /\ rec.state = "EXITED" => phaseOf(c) = "exited"
  /\ rec # Nil /\ rec.state = "CREATED" /\ spawned(c) = {} => phaseOf(c) = "created"
  /\ \A r \in spawned(c) : rec # Nil /\ rec.state = "CREATED"
       => phaseOf(c) = alivePhase(calls[r].cnt.pid)
  /\ rec = Nil /\ pendingExit(c) => phaseOf(c) = "exited"
  /\ rec = Nil /\ ~pendingExit(c) /\ (c \notin used \/ pendingCreate(c)) => phaseOf(c) = "none"
  /\ rec = Nil /\ ~pendingExit(c) /\ c \in used /\ ~pendingCreate(c) => phaseOf(c) = "gone"

\* With one client the spawned process of a container is that of the one call.
LEMMA PhaseIs ==
  ASSUME OneClient, NEW c
  PROVE  PhaseFacts(c) /\ PhaseFacts(c)'
<1>1. \A r \in spawned(c) : spawned(c) = {r}
  BY DEF OneClient, spawned
<1>2. \A r \in spawned(c)' : spawned(c)' = {r}
  BY DEF OneClient, spawned
<1>3. \A r : (CHOOSE s \in {r} : TRUE) = r
  OBVIOUS
<1>4. PhaseFacts(c)
  <2> DEFINE rec == containers[c]
  <2>1. rec # Nil /\ rec.state = "RUNNING" => phaseOf(c) = alivePhase(rec.pid)
    BY DEF phaseOf
  <2>2. rec # Nil /\ rec.state = "EXITED" => phaseOf(c) = "exited"
    BY DEF phaseOf
  <2>3. rec # Nil /\ rec.state = "CREATED" /\ spawned(c) = {} => phaseOf(c) = "created"
    BY DEF phaseOf
  <2>4. ASSUME NEW r \in spawned(c), rec # Nil, rec.state = "CREATED"
        PROVE  phaseOf(c) = alivePhase(calls[r].cnt.pid)
    BY <1>1, <1>3, <2>4 DEF phaseOf
  <2>5. rec = Nil /\ pendingExit(c) => phaseOf(c) = "exited"
    BY DEF phaseOf
  <2>6. rec = Nil /\ ~pendingExit(c) /\ (c \notin used \/ pendingCreate(c))
          => phaseOf(c) = "none"
    BY DEF phaseOf
  <2>7. rec = Nil /\ ~pendingExit(c) /\ c \in used /\ ~pendingCreate(c)
          => phaseOf(c) = "gone"
    BY DEF phaseOf
  <2> QED  BY <2>1, <2>2, <2>3, <2>4, <2>5, <2>6, <2>7 DEF PhaseFacts
<1>5. PhaseFacts(c)'
  <2> DEFINE rec == containers[c]
  <2>1. rec' # Nil /\ rec'.state = "RUNNING" => phaseOf(c)' = alivePhase(rec.pid)'
    BY DEF phaseOf
  <2>2. rec' # Nil /\ rec'.state = "EXITED" => phaseOf(c)' = "exited"
    BY DEF phaseOf
  <2>3. rec' # Nil /\ rec'.state = "CREATED" /\ spawned(c)' = {} => phaseOf(c)' = "created"
    BY DEF phaseOf
  <2>4. ASSUME NEW r \in spawned(c)', rec' # Nil, rec'.state = "CREATED"
        PROVE  phaseOf(c)' = alivePhase(calls[r].cnt.pid)'
    BY <1>2, <1>3, <2>4 DEF phaseOf
  <2>5. rec' = Nil /\ pendingExit(c)' => phaseOf(c)' = "exited"
    BY DEF phaseOf
  <2>6. rec' = Nil /\ ~pendingExit(c)' /\ (c \notin used' \/ pendingCreate(c)')
          => phaseOf(c)' = "none"
    BY DEF phaseOf
  <2>7. rec' = Nil /\ ~pendingExit(c)' /\ c \in used' /\ ~pendingCreate(c)'
          => phaseOf(c)' = "gone"
    BY DEF phaseOf
  <2> QED  BY <2>1, <2>2, <2>3, <2>4, <2>5, <2>6, <2>7 DEF PhaseFacts
<1> QED  BY <1>4, <1>5

\* What a step of ContainerLifecycle is.
LEMMA PhaseMoves ==
  ASSUME NEW c \in Cid, \A d \in Cid : d # c => phaseOf(d)' = phaseOf(d),
         \/ phaseOf(c)' = phaseOf(c)
         \/ phaseOf(c) = "none" /\ phaseOf(c)' = "created"
         \/ phaseOf(c) = "created" /\ phaseOf(c)' = "running"
         \/ phaseOf(c) = "running" /\ phaseOf(c)' = "dead"
         \/ phaseOf(c) = "dead" /\ phaseOf(c)' = "exited"
         \/ phaseOf(c) \in {"created", "dead", "exited"} /\ phaseOf(c)' = "gone"
  PROVE  [Lifecycle!Next]_phases
<1>1. CASE phaseOf(c)' = phaseOf(c)
  <2>1. \A d \in Cid : phaseOf(d)' = phaseOf(d)
    BY <1>1
  <2> QED  BY <2>1 DEF phases
<1>2. CASE phaseOf(c)' # phaseOf(c)
  <2>1. phases' = [phases EXCEPT ![c] = phaseOf(c)'] /\ phases[c] = phaseOf(c)
    BY DEF phases
  <2> QED
    BY <1>2, <2>1 DEF phases, Lifecycle!Next, Lifecycle!Create, Lifecycle!Start, Lifecycle!Die,
                      Lifecycle!ReportExit, Lifecycle!Remove, Lifecycle!Move
<1> QED  BY <1>1, <1>2

\* A container of which nothing that its phase is read off changes.
LEMMA SamePhase ==
  ASSUME OneClient, Base, NEW c \in Cid, containers'[c] = containers[c],
         containers[c] # Nil /\ containers[c].state = "RUNNING"
           => alivePhase(containers[c].pid)' = alivePhase(containers[c].pid),
         spawned(c)' = spawned(c),
         \A r \in spawned(c) : alivePhase(calls[r].cnt.pid)' = alivePhase(calls[r].cnt.pid),
         containers[c] = Nil => /\ pendingExit(c)' <=> pendingExit(c)
                                /\ pendingCreate(c)' <=> pendingCreate(c)
                                /\ c \in used' <=> c \in used
  PROVE  phaseOf(c)' = phaseOf(c)
<1>1. PhaseFacts(c) /\ PhaseFacts(c)'
  BY PhaseIs
<1>2. CASE containers[c] = Nil
  BY <1>1, <1>2 DEF PhaseFacts
<1>3. CASE containers[c] # Nil
  <2>1. containers[c].state \in {"CREATED", "RUNNING", "EXITED"}
    BY <1>3 DEF Base, TypeInv, TypeOK, Container
  <2>2. CASE containers[c].state = "RUNNING"
    BY <1>1, <1>3, <2>2 DEF PhaseFacts
  <2>3. CASE containers[c].state = "EXITED"
    BY <1>1, <1>3, <2>3 DEF PhaseFacts
  <2>4. CASE containers[c].state = "CREATED" /\ spawned(c) = {}
    BY <1>1, <1>3, <2>4 DEF PhaseFacts
  <2>5. ASSUME containers[c].state = "CREATED", NEW r \in spawned(c)
        PROVE  phaseOf(c)' = phaseOf(c)
    <3>1. phaseOf(c) = alivePhase(calls[r].cnt.pid)
      BY <1>1, <1>3, <2>5 DEF PhaseFacts
    <3>2. phaseOf(c)' = alivePhase(calls[r].cnt.pid)'
      BY <1>1, <1>3, <2>5 DEF PhaseFacts
    <3> QED  BY <2>5, <3>1, <3>2
  <2> QED  BY <2>1, <2>2, <2>3, <2>4, <2>5
<1> QED  BY <1>2, <1>3

Busy(call) == call.pc \in {"start_put", "create_putc"}

\* Between the calls that are about to record a container or a process, no
\* phase but that of a written record depends on the call.
LEMMA NotBusy ==
  ASSUME OneClient, NEW r \in Rpc, NEW c
  PROVE  /\ ~Busy(calls[r]) => spawned(c) = {} /\ ~pendingCreate(c)
         /\ ~Busy(calls'[r]) => spawned(c)' = {} /\ ~pendingCreate(c)'
  BY DEF OneClient, Busy, spawned, pendingCreate, At

\* A step of the handler between two steps that do not concern a phase.
LEMMA LifeQuiet ==
  ASSUME OneClient, Base, UNCHANGED <<containers, host, used>>,
         NEW r \in Rpc, ~Busy(calls[r]), ~Busy(calls'[r])
  PROVE  phases' = phases
<1> SUFFICES ASSUME NEW c \in Cid PROVE phaseOf(c)' = phaseOf(c)
  BY DEF phases
<1>1. /\ spawned(c) = {} /\ spawned(c)' = {}
      /\ ~pendingCreate(c) /\ ~pendingCreate(c)'
      /\ pendingExit(c)' <=> pendingExit(c)
  BY NotBusy DEF pendingExit, host
<1>2. containers[c] # Nil => alivePhase(containers[c].pid)' = alivePhase(containers[c].pid)
  BY DEF alivePhase, host
<1> QED  BY <1>1, <1>2, SamePhase

\* A request arrives.  The container that it may have made has no phase yet.
LEMMA RequestLife ==
  ASSUME OneClient, LifeInv, NEW r \in Rpc, Request(r)
  PROVE  phases' = phases
<1> DEFINE call == calls'[r]
<1>0. /\ TypeInv /\ Base /\ UNCHANGED <<containers, host>> /\ ~Busy(calls[r])
      /\ \A s \in Rpc : s = r
  BY DEF LifeInv, Base, Request, Arrive, RunPodSandbox, CreateContainer, EndPodSandbox, store, Busy,
         StartContainer, RemoveContainer, StopContainer, OneClient
<1>1. CASE ~Busy(call) /\ UNCHANGED used
  BY <1>0, <1>1, LifeQuiet
<1>2. ASSUME NEW p \in Pod, CreateContainer(r, p) PROVE phases' = phases
  <2>1. CASE ~isReady(sandboxes[p])
    <3>1. call.pc = "error" /\ UNCHANGED used
      BY <1>0, <1>2, <2>1 DEF Arrive, TypeInv, TypeOK, CreateContainer, NoCall
    <3> QED  BY <1>1, <3>1 DEF Busy
  <2>2. CASE isReady(sandboxes[p])
    <3>1. PICK c \in Cid \ used :
            /\ used' = used \cup {c}
            /\ Arrive(r, [NoCall EXCEPT !.op = "CreateContainer", !.pod = p,
                                         !.cid = c, !.pc = "create_putc",
                                         !.sb = [sandboxes[p] EXCEPT !.containers = Append(@, c)]])
      BY <1>2, <2>2 DEF CreateContainer
    <3>2. call.pc = "create_putc" /\ call.cid = c
      BY <1>0, <3>1 DEF Arrive, TypeInv, TypeOK, NoCall
    <3>3. \A d : spawned(d) = {} /\ ~pendingCreate(d)
      BY <1>0, NotBusy
    <3>4. /\ \A d : spawned(d)' = {}
          /\ \A d : pendingCreate(d)' <=> d = c
      BY <1>0, <3>2 DEF spawned, pendingCreate, At
    <3>5. \A d : pendingExit(d)' <=> pendingExit(d)
      BY <1>0 DEF pendingExit, host
    <3>6. phaseOf(c)' = phaseOf(c)
      <4>1. containers[c] = Nil /\ ~pendingExit(c)
        BY <3>1 DEF LifeInv, ClientInv, HostInv, RecordShape, OneProcess, pendingExit, Base, TypeInv,
                    ProcsOwned, Born
      <4>2. phaseOf(c) = "none" /\ phaseOf(c)' = "none"
        BY <1>0, <3>1, <3>4, <3>5, <4>1, PhaseIs DEF PhaseFacts
      <4> QED  BY <4>2
    <3>7. ASSUME NEW d \in Cid, d # c PROVE phaseOf(d)' = phaseOf(d)
      <4>1. containers[d] # Nil => alivePhase(containers[d].pid)' = alivePhase(containers[d].pid)
        BY <1>0 DEF alivePhase, host
      <4> QED  BY <1>0, <3>1, <3>3, <3>4, <3>5, <3>7, <4>1, SamePhase
    <3> QED  BY <3>6, <3>7 DEF phases
  <2> QED  BY <2>1, <2>2
<1>3. ASSUME NEW p \in Pod, RunPodSandbox(r, p) PROVE ~Busy(call) /\ UNCHANGED used
  <2>1. call.pc \in {"run_put", "error"}
    BY <1>0, <1>3 DEF Arrive, TypeInv, TypeOK, RunPodSandbox, NoCall
  <2> QED  BY <1>3, <2>1 DEF RunPodSandbox, Busy
<1>4. ASSUME NEW p \in Pod, NEW op \in PodOps, EndPodSandbox(r, p, op)
      PROVE  ~Busy(call) /\ UNCHANGED used
  <2>1. call.pc \in {"ok", "pod_next"}
    BY <1>0, <1>4 DEF Arrive, TypeInv, TypeOK, EndPodSandbox, NoCall
  <2> QED  BY <1>4, <2>1 DEF EndPodSandbox, Busy
<1>5. ASSUME NEW c \in used, StartContainer(r, c) \/ RemoveContainer(r, c)
      PROVE  ~Busy(call) /\ UNCHANGED used
  <2>1. call.pc \in {"error", "ok", "start_spawn", "remove_read"}
    <3>1. CASE StartContainer(r, c)
      <4>1. call.pc = IF containers[c] = Nil THEN "error" ELSE "start_spawn"
        BY <1>0, <3>1 DEF Arrive, TypeInv, TypeOK, StartContainer, NoCall
      <4> HIDE DEF call
      <4> QED  BY <4>1
    <3>2. CASE RemoveContainer(r, c)
      <4>1. call.pc = IF containers[c] = Nil THEN "ok" ELSE "remove_read"
        BY <1>0, <3>2 DEF Arrive, TypeInv, TypeOK, RemoveContainer, NoCall
      <4> HIDE DEF call
      <4> QED  BY <4>1
    <3> QED  BY <1>5, <3>1, <3>2
  <2> QED  BY <1>5, <2>1 DEF StartContainer, RemoveContainer, Busy
<1>6. ASSUME NEW c \in used, NEW grace \in BOOLEAN, StopContainer(r, c, grace)
      PROVE  ~Busy(call) /\ UNCHANGED used
  <2>1. call.pc \in {"error", terminateContainer("StopContainer", containers[c])}
    BY <1>0, <1>6 DEF Arrive, TypeInv, TypeOK, StopContainer, NoCall
  <2>2. call.pc \in {"error", "ok", "kill"}
    BY <2>1 DEF terminateContainer, afterTerminate
  <2> QED  BY <1>6, <2>2 DEF StopContainer, Busy
<1> QED  BY SMTT(30), <1>1, <1>2, <1>3, <1>4, <1>5, <1>6 DEF Request

\* The handler goes on without a write, or writes the sandbox's record.
LEMMA MovesLife ==
  ASSUME OneClient, LifeInv, NEW r \in Rpc,
         \/ StartFails(r) \/ Kill(r) \/ KillFails(r) \/ WaitTick(r)
         \/ RemoveReadSandbox(r) \/ PodNext(r) \/ Reply(r)
         \/ RunPut(r) \/ CreatePutSandbox(r) \/ RemovePutSandbox(r)
         \/ PodPut(r) \/ PodFinish(r) \/ PodErase(r)
  PROVE  phases' = phases
<1> DEFINE call == calls'[r]
<1>0. TypeInv /\ Base /\ UNCHANGED <<containers, host, used>> /\ ~Busy(calls[r])
  BY DEF LifeInv, Base, StartFails, Kill, KillFails, WaitTick, RemoveReadSandbox, PodNext, Reply,
         RunPut, CreatePutSandbox, RemovePutSandbox, PodPut, PodFinish, PodErase, At, Busy, store
<1>1. \A op, cnt : /\ afterTerminate(op) \in {"ok", "remove_delete", "pod_delete"}
                   /\ terminateContainer(op, cnt) \in {afterTerminate(op), "error", "kill"}
  BY DEF afterTerminate, terminateContainer
<1>2. CASE StartFails(r) \/ Kill(r) \/ KillFails(r) \/ WaitTick(r) \/ Reply(r)
  <2>1. call.pc \in {"error", "wait", afterTerminate(calls[r].op), "idle"}
    BY <1>0, <1>2, GotoIs DEF StartFails, Kill, KillFails, WaitTick, Reply, NoCall, TypeInv, TypeOK
  <2> QED  BY <1>0, <1>1, <2>1, LifeQuiet DEF Busy
<1>3. CASE RunPut(r) \/ CreatePutSandbox(r) \/ RemovePutSandbox(r) \/ PodFinish(r) \/ PodErase(r)
  <2>1. call.pc \in {"ok", "pod_erase", terminateContainer("RemoveContainer", calls[r].cnt)}
    BY <1>0, <1>3, GotoIs DEF RunPut, CreatePutSandbox, RemovePutSandbox, PodFinish, PodErase
  <2> QED  BY <1>0, <1>1, <2>1, LifeQuiet DEF Busy
<1>4. CASE RemoveReadSandbox(r)
  <2>1. call.pc \in {"remove_put", terminateContainer("RemoveContainer", calls[r].cnt)}
    <3>1. CASE Goto(r, terminateContainer("RemoveContainer", calls[r].cnt))
      BY <1>0, <3>1, GotoIs
    <3>2. ASSUME NEW sb, calls' = [calls EXCEPT ![r] = [@ EXCEPT !.pc = "remove_put", !.sb = sb]]
          PROVE  call.pc = "remove_put"
      BY <1>0, <3>2 DEF TypeInv, TypeOK, Call
    <3> QED  BY <1>4, <3>1, <3>2 DEF RemoveReadSandbox
  <2> QED  BY SMTT(30), <1>0, <1>1, <2>1, LifeQuiet DEF Busy
<1>5. CASE PodNext(r)
  <2> DEFINE cnt == containers[Head(calls[r].sb.containers)]
  <2>1. call.pc \in {"pod_put", terminateContainer(calls[r].op, cnt)}
    BY <1>0, <1>5 DEF PodNext, TypeInv, TypeOK, Call
  <2> HIDE DEF cnt
  <2> QED  BY <1>0, <1>1, <2>1, LifeQuiet DEF Busy
<1>6. CASE PodPut(r)
  <2>1. call.pc = "pod_next"
    BY <1>0, <1>6 DEF PodPut, TypeInv, TypeOK, Call
  <2> QED  BY <1>0, <2>1, LifeQuiet DEF Busy
<1> QED  BY SMTT(30), <1>2, <1>3, <1>4, <1>5, <1>6

\* A write of c's record, while no call is starting another container.
LEMMA OthersKeep ==
  ASSUME OneClient, Base, NEW c \in Cid, \A d \in Cid : d # c => containers'[d] = containers[d],
         UNCHANGED <<procs, used>>,
         \A d \in Cid : d # c => /\ spawned(d) = {} /\ spawned(d)' = {}
                                 /\ ~pendingCreate(d) /\ ~pendingCreate(d)'
                                 /\ pendingExit(d)' <=> pendingExit(d)
  PROVE  \A d \in Cid : d # c => phaseOf(d)' = phaseOf(d)
<1> SUFFICES ASSUME NEW d \in Cid, d # c PROVE phaseOf(d)' = phaseOf(d)
  OBVIOUS
<1>1. containers[d] # Nil => alivePhase(containers[d].pid)' = alivePhase(containers[d].pid)
  BY DEF alivePhase
<1> QED  BY <1>1, SamePhase

\* A container is created when its first record is written.
LEMMA CreateLife ==
  ASSUME OneClient, LifeInv, NEW r \in Rpc, CreatePutContainer(r)
  PROVE  [Lifecycle!Next]_phases
<1>1. PICK c \in Cid : c = calls[r].cid
  BY DEF CreatePutContainer, At, LifeInv, Base, TypeInv, CallsShaped, CallShape, CreatePcs
<1>2. /\ calls[r].pc = "create_putc" /\ containers[c] = Nil
      /\ \A p \in Pid : Born(p) => procs[p].cid # c
      /\ Base
  BY <1>1 DEF CreatePutContainer, At, LifeInv, ClientInv, CallsFit, Fits
<1>3. /\ containers' = [containers EXCEPT ![c] = [pod |-> calls[r].pod, state |-> "CREATED", pid |-> 0]]
      /\ UNCHANGED <<procs, trackers, used>> /\ \A s \in Rpc : s = r
  BY <1>1 DEF CreatePutContainer, putContainer, OneClient, host
<1>4. calls'[r].pc = "create_puts"
  BY <1>2, GotoIs DEF CreatePutContainer, Base
<1>5. /\ containers'[c] # Nil /\ containers'[c].state = "CREATED"
      /\ \A d \in Cid : d # c => containers'[d] = containers[d]
  <2>1. calls[r].pod \in Pod
    BY <1>2 DEF Base, TypeInv, CallsShaped, CallShape, CreatePcs
  <2>2. [pod |-> calls[r].pod, state |-> "CREATED", pid |-> 0] \in Container
    BY <2>1 DEF Container
  <2> QED  BY <1>2, <1>3, <2>2, NilAssumption DEF Base, TypeInv, TypeOK
<1>6. \A d : spawned(d) = {} /\ spawned(d)' = {} /\ ~pendingCreate(d)'
  BY <1>2, <1>3, <1>4 DEF spawned, pendingCreate, At
<1>7. \A d : pendingCreate(d) <=> d = c
  BY <1>1, <1>2, <1>3 DEF pendingCreate, At
<1>8. \A d : pendingExit(d)' <=> pendingExit(d)
  BY <1>3 DEF pendingExit
<1>9. ~pendingExit(c)
  BY <1>2 DEF pendingExit, Base, TypeInv, ProcsOwned, Born
<1>10. phaseOf(c) = "none" /\ phaseOf(c)' = "created"
  BY <1>2, <1>5, <1>6, <1>7, <1>9, PhaseIs DEF PhaseFacts
<1>11. \A d \in Cid : d # c => phaseOf(d)' = phaseOf(d)
  BY <1>2, <1>3, <1>5, <1>6, <1>7, <1>8, OthersKeep
<1> QED  BY <1>10, <1>11, PhaseMoves

\* A container is gone when its record is erased, unless its tracker is about to
\* write it back.
LEMMA EraseLife ==
  ASSUME OneClient, LifeInv, NEW r \in Rpc, RemoveDelete(r) \/ PodDelete(r)
  PROVE  [Lifecycle!Next]_phases
<1>1. PICK c \in Cid : c = calls[r].cid
  BY DEF RemoveDelete, PodDelete, At, LifeInv, Base, TypeInv, CallsShaped, CallShape, RemovePcs
<1>2. calls[r].pc \in {"remove_delete", "pod_delete"} /\ Dead(c) /\ Base
  BY <1>1 DEF RemoveDelete, PodDelete, At, LifeInv, ClientInv, CallsFit, Fits
<1>3. /\ containers' = [containers EXCEPT ![c] = Nil]
      /\ UNCHANGED <<procs, trackers, used>> /\ \A s \in Rpc : s = r
  BY <1>1 DEF RemoveDelete, PodDelete, deleteContainer, OneClient, host
<1>4. calls'[r].pc \in {"ok", "pod_put"}
  BY <1>2, GotoIs DEF RemoveDelete, PodDelete, Base
<1>5. containers'[c] = Nil /\ \A d \in Cid : d # c => containers'[d] = containers[d]
  BY <1>2, <1>3 DEF Base, TypeInv, TypeOK
<1>6. \A d : spawned(d) = {} /\ spawned(d)' = {} /\ ~pendingCreate(d) /\ ~pendingCreate(d)'
  BY <1>2, <1>4, NotBusy DEF Busy
<1>7. \A d : pendingExit(d)' <=> pendingExit(d)
  BY <1>3 DEF pendingExit
<1>8. \A d \in Cid : d # c => phaseOf(d)' = phaseOf(d)
  BY <1>2, <1>3, <1>5, <1>6, <1>7, OthersKeep
<1>9. CASE containers[c] = Nil
  <2>1. phaseOf(c)' = phaseOf(c)
    BY <1>2, <1>3, <1>5, <1>6, <1>7, <1>9, SamePhase
  <2> QED  BY <1>8, <2>1, PhaseMoves
<1>10. CASE containers[c] # Nil
  <2>1. c \in used' /\ containers[c].state \in {"CREATED", "RUNNING", "EXITED"}
    BY <1>2, <1>3, <1>10 DEF Base, TypeInv, TypeOK, Container, LifeInv, ClientInv, HostInv, RecordShape
  <2>2. phaseOf(c)' = IF pendingExit(c) THEN "exited" ELSE "gone"
    BY <1>5, <1>6, <1>7, <2>1, PhaseIs DEF PhaseFacts
  <2>3. CASE containers[c].state = "CREATED"
    <3>1. ~pendingExit(c)
      <4> SUFFICES ASSUME NEW p \in Pid, trackers[p].pc = "write", procs[p].cid = c PROVE FALSE
        BY DEF pendingExit
      <4>1. containers[c] = trackers[p].cnt
        BY <1>10 DEF LifeInv, ClientInv, HostInv, TrackerKept
      <4>2. containers[c].pid = p
        BY <4>1 DEF LifeInv, Base, TrackersReaped
      <4>3. containers[c].pid = 0
        BY <1>10, <2>3 DEF LifeInv, ClientInv, HostInv, RecordShape
      <4> QED  BY <4>2, <4>3, PidAssumption
    <3>2. phaseOf(c) = "created"
      BY <1>6, <1>10, <2>3, PhaseIs DEF PhaseFacts
    <3> QED  BY <1>8, <2>2, <3>1, <3>2, PhaseMoves
  <2>4. CASE containers[c].state = "RUNNING"
    <3>1. phaseOf(c) = alivePhase(containers[c].pid)
      BY <1>10, <2>4, PhaseIs DEF PhaseFacts
    <3>2. ~Alive(containers[c].pid)
      BY <1>2, <1>10, <2>4 DEF Dead, Escaped, Base, RecordsOwn, LifeInv, RunningIsWatched
    <3>3. phaseOf(c) = "dead"
      BY <3>1, <3>2 DEF alivePhase, Alive
    <3> QED  BY <1>8, <2>2, <3>3, PhaseMoves
  <2>5. CASE containers[c].state = "EXITED"
    <3>1. phaseOf(c) = "exited"
      BY <1>10, <2>5, PhaseIs DEF PhaseFacts
    <3> QED  BY <1>8, <2>2, <3>1, PhaseMoves
  <2> QED  BY <2>1, <2>3, <2>4, <2>5
<1> QED  BY <1>9, <1>10

\* A container is running when its process is spawned.
LEMMA SpawnLife ==
  ASSUME OneClient, LifeInv, NEW r \in Rpc, StartSpawn(r)
  PROVE  [Lifecycle!Next]_phases
<1>1. PICK c \in Cid : c = calls[r].cid
  BY DEF StartSpawn, At, LifeInv, Base, TypeInv, CallsShaped, CallShape
<1>2. /\ calls[r] \in Call /\ calls[r].pc = "start_spawn" /\ calls[r].cnt \in Container
      /\ containers[c] # Nil /\ containers[c].state = "CREATED" /\ Base
  BY <1>1, NilAssumption DEF StartSpawn, At, LifeInv, ClientInv, CallsFit, Fits, Base, TypeInv,
                             TypeOK, CallsShaped, CallShape
<1>3. PICK p \in Pid, h \in BOOLEAN :
        /\ procs[p].main = "unborn"
        /\ procs' = [procs EXCEPT ![p] = [main |-> "alive", helper |-> h, cid |-> c]]
        /\ \/ calls' = [calls EXCEPT ![r] = [@ EXCEPT !.pc = "start_put", !.cnt.pid = p,
                                                      !.cnt.state = "RUNNING"]]
           \/ Goto(r, "error")
  BY <1>1 DEF StartSpawn
<1>4. /\ UNCHANGED <<containers, trackers, used>> /\ \A s \in Rpc : s = r
      /\ \/ calls'[r].pc = "error"
         \/ calls'[r].pc = "start_put" /\ calls'[r].cid = c /\ calls'[r].cnt.pid = p
  <2>1. CASE Goto(r, "error")
    BY <1>2, <2>1, GotoIs DEF StartSpawn, store, OneClient, Base
  <2>2. CASE calls' = [calls EXCEPT ![r] = [@ EXCEPT !.pc = "start_put", !.cnt.pid = p,
                                                     !.cnt.state = "RUNNING"]]
    BY <1>1, <1>2, <2>2 DEF Base, TypeInv, TypeOK, Call, Container, StartSpawn, store, OneClient
  <2> QED  BY <1>3, <2>1, <2>2
<1>5. procs'[p].main = "alive" /\ \A q \in Pid : procs'[q].cid = procs[q].cid \/ q = p
  BY <1>2, <1>3 DEF Base, TypeInv, TypeOK
<1>6. \A d : spawned(d) = {} /\ ~pendingCreate(d) /\ ~pendingCreate(d)'
  BY <1>2, <1>4 DEF spawned, pendingCreate, At
<1>7. \A d : spawned(d)' = IF calls'[r].pc = "start_put" /\ d = c THEN {r} ELSE {}
  BY <1>4 DEF spawned, At
<1>8. \A d : pendingExit(d)' <=> pendingExit(d)
  <2>1. \A q \in Pid : trackers[q].pc = "write" => procs'[q] = procs[q]
    BY <1>2, <1>3 DEF Base, TypeInv, ProcsOwned
  <2> QED  BY <1>4, <2>1 DEF pendingExit
<1>9. ASSUME NEW d \in Cid, spawned(d)' = {} PROVE phaseOf(d)' = phaseOf(d)
  <2>1. ASSUME containers[d] # Nil, containers[d].state = "RUNNING"
        PROVE  alivePhase(containers[d].pid)' = alivePhase(containers[d].pid)
    <3>1. containers[d].pid \in Pid /\ Born(containers[d].pid)
      BY <2>1 DEF LifeInv, RunningIsWatched, Base, RecordsOwn, Born
    <3> QED  BY <1>3, <1>4, <3>1 DEF alivePhase, Born
  <2> QED  BY <1>2, <1>4, <1>6, <1>8, <1>9, <2>1, SamePhase
<1>10. \A d \in Cid : d # c => phaseOf(d)' = phaseOf(d)
  BY <1>7, <1>9
<1>11. CASE spawned(c)' = {}
  BY <1>9, <1>10, <1>11, PhaseMoves
<1>12. CASE spawned(c)' = {r} /\ calls'[r].cnt.pid = p
  <2>1. phaseOf(c) = "created"
    BY <1>2, <1>6, PhaseIs DEF PhaseFacts
  <2>2. phaseOf(c)' = alivePhase(p)'
    BY <1>2, <1>4, <1>12, PhaseIs DEF PhaseFacts, alivePhase
  <2>3. alivePhase(p)' = "running"
    BY <1>5 DEF alivePhase
  <2> QED  BY <1>10, <2>1, <2>2, <2>3, PhaseMoves
<1> QED  BY <1>4, <1>7, <1>11, <1>12

\* The write of the RUNNING record shows what is so already.
LEMMA StartLife ==
  ASSUME OneClient, LifeInv, NEW r \in Rpc, StartPut(r)
  PROVE  [Lifecycle!Next]_phases
<1> DEFINE cnt == calls[r].cnt
<1>1. PICK c \in Cid : c = calls[r].cid
  BY DEF StartPut, At, LifeInv, Base, TypeInv, CallsShaped, CallShape
<1>2. /\ calls[r].pc = "start_put" /\ cnt \in Container /\ cnt.state = "RUNNING" /\ cnt.pid \in Pid
      /\ containers[c] # Nil /\ containers[c].state = "CREATED" /\ Base
  BY <1>1 DEF StartPut, At, LifeInv, ClientInv, CallsFit, Fits, Base, TypeInv, CallsShaped, CallShape
<1>3. /\ containers' = [containers EXCEPT ![c] = cnt]
      /\ trackers' = [trackers EXCEPT ![cnt.pid].pc = "wait"]
      /\ UNCHANGED <<procs, used>> /\ \A s \in Rpc : s = r
  BY <1>1 DEF StartPut, putContainer, OneClient
<1>4. containers'[c] = cnt /\ \A d \in Cid : d # c => containers'[d] = containers[d]
  BY <1>2, <1>3 DEF Base, TypeInv, TypeOK
<1>5. \A d : spawned(d)' = {} /\ ~pendingCreate(d) /\ ~pendingCreate(d)'
  <2>1. calls'[r].pc = "ok"
    BY <1>2, GotoIs DEF StartPut, Base
  <2> QED  BY <1>2, <1>3, <2>1 DEF spawned, pendingCreate, At
<1>6. r \in spawned(c) /\ \A d : d # c => spawned(d) = {}
  BY <1>1, <1>2, <1>3 DEF spawned, At
<1>7. \A d : pendingExit(d)' <=> pendingExit(d)
  <2>1. trackers[cnt.pid].pc = "none"
    BY <1>2 DEF LifeInv, ClientInv, CallsFit, Fits
  <2>2. \A q \in Pid : trackers'[q].pc = "write" <=> trackers[q].pc = "write"
    BY <1>2, <1>3, <2>1 DEF Base, TypeInv, TypeOK, Tracker
  <2> QED  BY <1>3, <2>2 DEF pendingExit
<1>8. \A d \in Cid : d # c => phaseOf(d)' = phaseOf(d)
  BY <1>2, <1>3, <1>4, <1>5, <1>6, <1>7, OthersKeep
<1>9. phaseOf(c)' = phaseOf(c)
  <2>1. phaseOf(c) = alivePhase(cnt.pid)
    BY <1>2, <1>6, PhaseIs DEF PhaseFacts
  <2>2. PICK p : p = cnt.pid
    OBVIOUS
  <2>3. phaseOf(c)' = alivePhase(p)'
    BY <1>2, <1>4, <2>2, PhaseIs, NilAssumption DEF PhaseFacts, alivePhase
  <2>4. alivePhase(p)' = alivePhase(p)
    BY <1>3 DEF alivePhase
  <2> QED  BY <2>1, <2>2, <2>3, <2>4
<1> QED  BY <1>8, <1>9, PhaseMoves

\* The tracker writes EXITED over the record of a dead container, or writes back
\* one that was erased.
LEMMA ReportLife ==
  ASSUME OneClient, LifeInv, NEW p \in Pid, TrackerWrite(p)
  PROVE  [Lifecycle!Next]_phases
<1> DEFINE cnt == trackers[p].cnt
<1>1. PICK c \in Cid : c = procs[p].cid
  BY DEF TrackerWrite, LifeInv, Base, TypeInv, ProcsOwned
<1>2. /\ cnt \in Container /\ cnt.pid = p /\ p # 0 /\ Base
      /\ containers[c] \in {Nil, cnt} /\ trackers[p].pc = "write" /\ procs[p].main = "reaped"
  BY <1>1, PidAssumption DEF TrackerWrite, LifeInv, Base, TypeInv, ProcsOwned, TrackersReaped,
                             ClientInv, HostInv, TrackerKept
<1>3. /\ containers' = [containers EXCEPT ![c] = exited(cnt)]
      /\ trackers' = [trackers EXCEPT ![p] = [pc |-> "done", cnt |-> Nil]]
      /\ UNCHANGED <<procs, calls, used>>
  BY <1>1 DEF TrackerWrite, putContainer, OneClient
<1>4. /\ containers'[c] = exited(cnt)
      /\ \A d \in Cid : d # c => containers'[d] = containers[d]
  BY <1>2, <1>3 DEF Base, TypeInv, TypeOK
<1>5. exited(cnt) # Nil /\ exited(cnt).state = "EXITED"
  BY <1>2, NilAssumption DEF exited, Container
<1>6. \A d : d # c => (pendingExit(d)' <=> pendingExit(d))
  <2>1. \A q \in Pid : q # p => trackers'[q] = trackers[q]
    BY <1>3
  <2>2. trackers'[p].pc = "done"
    BY <1>2, <1>3 DEF Base, TypeInv, TypeOK
  <2> QED  BY <1>1, <1>2, <1>3, <2>1, <2>2 DEF pendingExit
<1>7. ASSUME NEW d \in Cid, d # c PROVE phaseOf(d)' = phaseOf(d)
  <2>1. /\ spawned(d)' = spawned(d)
        /\ pendingCreate(d)' <=> pendingCreate(d)
        /\ \A r \in spawned(d) : alivePhase(calls[r].cnt.pid)' = alivePhase(calls[r].cnt.pid)
        /\ alivePhase(containers[d].pid)' = alivePhase(containers[d].pid)
    BY <1>3, <1>4, <1>7 DEF spawned, pendingCreate, At, alivePhase
  <2>2. /\ containers'[d] = containers[d]
        /\ pendingExit(d)' <=> pendingExit(d)
        /\ d \in used' <=> d \in used
    BY <1>3, <1>4, <1>6, <1>7
  <2> QED  BY <1>2, <2>1, <2>2, SamePhase
<1>8. phaseOf(c)' = "exited"
  BY <1>4, <1>5, PhaseIs DEF PhaseFacts
<1>9. phaseOf(c) \in {"dead", "exited"}
  <2>1. CASE containers[c] = Nil
    <3>1. pendingExit(c)
      BY <1>1, <1>2 DEF pendingExit
    <3> QED  BY <2>1, <3>1, PhaseIs DEF PhaseFacts
  <2>2. CASE containers[c] # Nil /\ containers[c].state = "RUNNING"
    <3>1. phaseOf(c) = alivePhase(p)
      BY <1>2, <2>2, PhaseIs DEF PhaseFacts
    <3> QED  BY <1>2, <3>1 DEF alivePhase
  <2>3. CASE containers[c] # Nil /\ containers[c].state = "EXITED"
    BY <2>3, PhaseIs DEF PhaseFacts
  <2>4. containers[c] # Nil => containers[c].state \in {"RUNNING", "EXITED"}
    BY <1>2 DEF Container, LifeInv, ClientInv, HostInv, RecordShape
  <2> QED  BY <2>1, <2>2, <2>3, <2>4
<1> QED  BY <1>7, <1>8, <1>9, PhaseMoves

\* When programs end and no record is written, a phase may only become dead.
LEMMA DyingLife ==
  ASSUME OneClient, LifeInv, Dying, NEW p \in Pid,
         \A q \in Pid : q # p => (Alive(q)' <=> Alive(q)),
         \A d : /\ spawned(d)' = spawned(d)
                /\ pendingCreate(d)' <=> pendingCreate(d)
                /\ containers[d] = Nil => (pendingExit(d)' <=> pendingExit(d)),
         \A d : \A r \in spawned(d) : calls'[r] = calls[r]
  PROVE  [Lifecycle!Next]_phases
<1>1. Base /\ UNCHANGED <<containers, used>>
  BY DEF LifeInv, Dying
<1>2. ASSUME NEW d \in Cid, containers[d] # Nil, containers[d].state = "RUNNING"
      PROVE  containers[d].pid \in Pid /\ Born(containers[d].pid) /\ procs[containers[d].pid].cid = d
  BY <1>2 DEF LifeInv, RunningIsWatched, Base, RecordsOwn, Born
<1>3. ASSUME NEW d \in Cid, NEW r \in spawned(d)
      PROVE  calls[r].cnt.pid \in Pid /\ Born(calls[r].cnt.pid) /\ procs[calls[r].cnt.pid].cid = d
  BY <1>1, <1>3 DEF spawned, At, Base, TypeInv, CallsShaped, CallShape, ProcsOwned, Born
<1>4. \A q : (Alive(q)' <=> Alive(q)) => alivePhase(q)' = alivePhase(q)
  BY DEF alivePhase, Alive
<1>5. ASSUME NEW d \in Cid, procs[p].cid # d \/ ~Born(p) \/ (Alive(p)' <=> Alive(p))
      PROVE  phaseOf(d)' = phaseOf(d)
  <2>1. \A q \in Pid : Born(q) /\ procs[q].cid = d => alivePhase(q)' = alivePhase(q)
    BY <1>4, <1>5
  <2>2. containers[d] # Nil /\ containers[d].state = "RUNNING"
          => alivePhase(containers[d].pid)' = alivePhase(containers[d].pid)
    BY <1>1, <1>2, <2>1 DEF alivePhase
  <2>3. \A r \in spawned(d) : alivePhase(calls[r].cnt.pid)' = alivePhase(calls[r].cnt.pid)
    BY <1>3, <2>1 DEF alivePhase
  <2>4. containers'[d] = containers[d] /\ (d \in used' <=> d \in used)
    BY <1>1
  <2> QED  BY <1>1, <2>2, <2>3, <2>4, SamePhase
<1>6. CASE ~Born(p) \/ (Alive(p)' <=> Alive(p))
  <2>1. phases' = phases
    BY <1>5, <1>6 DEF phases
  <2> QED  BY <2>1
<1>7. CASE Born(p) /\ Alive(p) /\ ~Alive(p)'
  <2>1. PICK c \in Cid : c = procs[p].cid
    BY <1>1, <1>7 DEF Base, TypeInv, ProcsOwned, Born
  <2>2. \A d \in Cid : d # c => phaseOf(d)' = phaseOf(d)
    BY <1>5, <2>1
  <2>3. \A q \in Pid : Born(q) /\ procs[q].cid = c => q = p
    BY <1>7, <2>1 DEF LifeInv, ClientInv, HostInv, OneProcess
  <2>4. alivePhase(p) = "running" /\ alivePhase(p)' = "dead"
    BY <1>7 DEF alivePhase, Alive
  <2>5. CASE containers[c] # Nil /\ containers[c].state = "RUNNING"
    <3>1. containers[c].pid = p
      BY <1>2, <2>3, <2>5
    <3>2. phaseOf(c) = alivePhase(p)
      BY <2>5, <3>1, PhaseIs DEF PhaseFacts
    <3>3. phaseOf(c)' = alivePhase(p)'
      BY <1>1, <2>5, <3>1, PhaseIs DEF PhaseFacts, alivePhase
    <3> QED  BY <2>2, <2>4, <3>2, <3>3, PhaseMoves
  <2>6. ASSUME containers[c] # Nil, containers[c].state = "CREATED", NEW r \in spawned(c)
        PROVE  [Lifecycle!Next]_phases
    <3>1. calls[r].cnt.pid = p /\ calls'[r] = calls[r] /\ r \in spawned(c)'
      BY <1>3, <2>3, <2>6
    <3>2. phaseOf(c) = alivePhase(p)
      BY <2>6, <3>1, PhaseIs DEF PhaseFacts
    <3>3. phaseOf(c)' = alivePhase(p)'
      BY <1>1, <2>6, <3>1, PhaseIs DEF PhaseFacts, alivePhase
    <3> QED  BY <2>2, <2>4, <3>2, <3>3, PhaseMoves
  <2>7. CASE /\ containers[c] # Nil => containers[c].state # "RUNNING"
             /\ spawned(c) = {} \/ containers[c] = Nil \/ containers[c].state # "CREATED"
    <3>1. phaseOf(c)' = phaseOf(c)
      <4>1. CASE containers[c] = Nil
        BY <1>1, <4>1, PhaseIs DEF PhaseFacts
      <4>2. CASE containers[c] # Nil /\ containers[c].state = "CREATED"
        BY <1>1, <2>7, <4>2, PhaseIs DEF PhaseFacts
      <4>3. CASE containers[c] # Nil /\ containers[c].state = "EXITED"
        BY <1>1, <4>3, PhaseIs DEF PhaseFacts
      <4> QED  BY <1>1, <2>7, <4>1, <4>2, <4>3 DEF Base, TypeInv, TypeOK, Container
    <3> QED  BY <2>2, <3>1, PhaseMoves
  <2> QED  BY <2>5, <2>6, <2>7
<1>8. Alive(p)' => Alive(p)
  BY DEF Dying, Alive
<1> QED  BY <1>6, <1>7, <1>8

\* A program is killed.
LEMMA KillLife ==
  ASSUME OneClient, LifeInv, NEW r \in Rpc, WaitTimeout(r) \/ WaitCancelled(r)
  PROVE  [Lifecycle!Next]_phases
<1>1. PICK p : p = calls[r].cnt.pid
  OBVIOUS
<1>2. calls[r].pc = "wait" /\ p \in Pid /\ Base /\ ClientInv
  <2>1. calls[r].pc = "wait"
    BY DEF WaitTimeout, WaitCancelled, At
  <2> QED  BY <1>1, <2>1, TerminatedProcess DEF LifeInv
<1>3. Dying
  BY <1>2, KillEndsProgram
<1>4. SigKill(p) /\ UNCHANGED trackers
  BY <1>1 DEF WaitTimeout, WaitCancelled
<1>5. \A q \in Pid : q # p => (Alive(q)' <=> Alive(q))
  BY <1>2, <1>4 DEF SigKill, Alive, Base, TypeInv, TypeOK
<1>6. calls'[r].pc \in {"ok", "remove_delete", "pod_delete", "error"}
  BY <1>2, GotoIs DEF WaitTimeout, WaitCancelled, Base, afterTerminate
<1>7. \A d : /\ spawned(d) = {} /\ spawned(d)' = {}
             /\ ~pendingCreate(d) /\ ~pendingCreate(d)'
  BY <1>2, <1>6, NotBusy DEF Busy
<1>8. \A d : pendingExit(d)' <=> pendingExit(d)
  BY <1>3, <1>4 DEF pendingExit, Dying
<1> QED  BY <1>2, <1>3, <1>5, <1>7, <1>8, DyingLife

\* A program or a helper ends, or a tracker gets on.
LEMMA HostLife ==
  ASSUME OneClient, LifeInv, NEW p \in Pid,
         TrackerWait(p) \/ TrackerRead(p) \/ MainExits(p) \/ HelperExits(p)
  PROVE  [Lifecycle!Next]_phases
<1>1. Dying /\ UNCHANGED <<containers, sandboxes, calls>> /\ Base
  BY HostDies DEF LifeInv
<1>2. \A q \in Pid : q # p => (Alive(q)' <=> Alive(q))
  BY <1>1 DEF TrackerWait, TrackerRead, MainExits, HelperExits, Alive, Base, TypeInv, TypeOK
<1>3. /\ \A d : spawned(d)' = spawned(d) /\ (pendingCreate(d)' <=> pendingCreate(d))
      /\ \A d : \A r \in spawned(d) : calls'[r] = calls[r]
  BY <1>1 DEF spawned, pendingCreate, At
<1>4. ASSUME NEW d, containers[d] = Nil PROVE pendingExit(d)' <=> pendingExit(d)
  <2>1. ASSUME NEW q \in Pid, procs[q].cid = d
        PROVE  trackers'[q].pc = "write" <=> trackers[q].pc = "write"
    <3>1. CASE TrackerRead(p)
      BY <1>1, <1>4, <2>1, <3>1 DEF TrackerRead, ownedBy, Base, TypeInv, TypeOK
    <3>2. CASE TrackerWait(p)
      BY <1>1, <3>2 DEF TrackerWait, Base, TypeInv, TypeOK, Tracker
    <3>3. CASE MainExits(p) \/ HelperExits(p)
      BY <3>3 DEF MainExits, HelperExits
    <3> QED  BY <3>1, <3>2, <3>3
  <2>2. \A q \in Pid : procs'[q].cid = procs[q].cid
    BY <1>1 DEF Dying
  <2> QED  BY <2>1, <2>2 DEF pendingExit
<1> QED  BY <1>1, <1>2, <1>3, <1>4, DyingLife

\* Every step of the service is one of ContainerLifecycle.
LEMMA LifeStep ==
  ASSUME OneClient, "crash" \notin Faults, LifeInv, [Next]_vars
  PROVE  [Lifecycle!Next]_phases
<1>1. ASSUME NEW r \in Rpc, Request(r) PROVE [Lifecycle!Next]_phases
  BY <1>1, RequestLife
<1>2. ASSUME NEW r \in Rpc, HandlerStep(r) PROVE [Lifecycle!Next]_phases
  <2>1. CASE \/ StartFails(r) \/ Kill(r) \/ KillFails(r) \/ WaitTick(r)
             \/ RemoveReadSandbox(r) \/ PodNext(r) \/ Reply(r)
             \/ RunPut(r) \/ CreatePutSandbox(r) \/ RemovePutSandbox(r)
             \/ PodPut(r) \/ PodFinish(r) \/ PodErase(r)
    BY <2>1, MovesLife
  <2>2. CASE CreatePutContainer(r)
    BY <2>2, CreateLife
  <2>3. CASE RemoveDelete(r) \/ PodDelete(r)
    BY <2>3, EraseLife
  <2>4. CASE StartSpawn(r)
    BY <2>4, SpawnLife
  <2>5. CASE StartPut(r)
    BY <2>5, StartLife
  <2> QED  BY <1>2, <2>1, <2>2, <2>3, <2>4, <2>5 DEF HandlerStep
<1>3. ASSUME NEW r \in Rpc, WaitTimeout(r) \/ WaitCancelled(r) PROVE [Lifecycle!Next]_phases
  BY <1>3, KillLife
<1>4. ASSUME NEW p \in Pid, TrackerStep(p) \/ MainExits(p) \/ HelperExits(p)
      PROVE  [Lifecycle!Next]_phases
  BY <1>4, HostLife, ReportLife DEF TrackerStep
<1>5. CASE Crash
  BY <1>5 DEF Crash
<1>6. CASE UNCHANGED vars
  <2>1. UNCHANGED <<containers, procs, trackers, calls, used>>
    BY <1>6 DEF vars
  <2>2. ASSUME NEW c \in Cid PROVE phaseOf(c)' = phaseOf(c)
    BY <2>1 DEF phaseOf, alivePhase, spawned, pendingCreate, pendingExit, At
  <2> QED  BY <2>2 DEF phases
<1> QED  BY <1>1, <1>2, <1>3, <1>4, <1>5, <1>6 DEF Next

\* The service moves every container forward through its life, one phase at a
\* time, and forgets none while its program is alive.
THEOREM LifecycleCorrect ==
  ASSUME OneClient, "crash" \notin Faults
  PROVE  Spec => ImplementsLifecycle
<1>1. Init => Lifecycle!Init
  <2> SUFFICES ASSUME Init, NEW c \in Cid PROVE phaseOf(c) = "none"
    BY DEF Lifecycle!Init
  <2>1. containers[c] = Nil /\ ~pendingExit(c) /\ c \notin used
    BY DEF Init, pendingExit, Untracked
  <2> QED  BY <2>1, PhaseIs DEF PhaseFacts
<1>2. Spec => []ClientInv
  BY ClientCorrect
<1>3. Spec => []RunningIsWatched
  BY RunningCorrect DEF OneClient
<1>4. ASSUME Base, ClientInv, RunningIsWatched, [Next]_vars PROVE [Lifecycle!Next]_phases
  BY <1>4, LifeStep DEF LifeInv
<1> QED
  BY <1>1, <1>2, <1>3, <1>4, BaseCorrect, PTL
  DEF Spec, ImplementsLifecycle, Lifecycle!Spec, phases
=============================================================================
