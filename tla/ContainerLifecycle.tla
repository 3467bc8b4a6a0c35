------------------------ MODULE ContainerLifecycle -------------------------
(***************************************************************************)
(* What the RuntimeService promises about one container after another: it  *)
(* goes forward through its life and never back, and it is not forgotten   *)
(* while its program is alive.                                             *)
(***************************************************************************)
CONSTANT Cid

VARIABLE phase

Phase == {"none", "created", "running", "dead", "exited", "gone"}

Init == phase = [c \in Cid |-> "none"]

Move(c, from, to) ==
  /\ phase[c] \in from
  /\ phase' = [phase EXCEPT ![c] = to]

Create(c) == Move(c, {"none"}, "created")
Start(c) == Move(c, {"created"}, "running")
Die(c) == Move(c, {"running"}, "dead")
ReportExit(c) == Move(c, {"dead"}, "exited")
Remove(c) == Move(c, {"created", "dead", "exited"}, "gone")

Next == \E c \in Cid : Create(c) \/ Start(c) \/ Die(c) \/ ReportExit(c) \/ Remove(c)

Spec == Init /\ [][Next]_phase
=============================================================================
