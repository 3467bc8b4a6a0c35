-------------------------- MODULE RuntimeLifecycle --------------------------
(***************************************************************************)
(* RuntimeService implements ContainerLifecycle for a client with one      *)
(* request in flight that starts each container once.                      *)
(*                                                                         *)
(* The phase of a container is read off its record, with two corrections   *)
(* for steps that span several accesses:                                   *)
(*   - between the spawn of its process and the write of the record it is  *)
(*     running already;                                                    *)
(*   - a container whose tracker has read its record is exited, whether    *)
(*     the record has been erased in the meantime or not, because the      *)
(*     tracker is about to write an EXITED record.                         *)
(***************************************************************************)
EXTENDS RuntimeService

alivePhase(p) == IF procs[p].main = "alive" THEN "running" ELSE "dead"

spawned(c) == {r \in Rpc : At(r, "start_put") /\ calls[r].cid = c}
pendingExit(c) == \E p \in Pid : trackers[p].pc = "write" /\ procs[p].cid = c
pendingCreate(c) == \E r \in Rpc : At(r, "create_putc") /\ calls[r].cid = c

phaseOf(c) ==
  IF containers[c] # Nil
  THEN CASE containers[c].state = "RUNNING" -> alivePhase(containers[c].pid)
         [] containers[c].state = "EXITED" -> "exited"
         [] containers[c].state = "CREATED" /\ spawned(c) # {} ->
              alivePhase(calls[CHOOSE r \in spawned(c) : TRUE].cnt.pid)
         [] containers[c].state = "CREATED" /\ spawned(c) = {} -> "created"
  ELSE CASE pendingExit(c) -> "exited"
         [] ~pendingExit(c) /\ c \in used /\ ~pendingCreate(c) -> "gone"
         [] OTHER -> "none"

Lifecycle == INSTANCE ContainerLifecycle WITH phase <- [c \in Cid |-> phaseOf(c)]

\* Every step of the service moves at most one container, one phase forward;
\* none is forgotten while its program is alive, and none comes back.
ImplementsLifecycle == Lifecycle!Spec
=============================================================================
