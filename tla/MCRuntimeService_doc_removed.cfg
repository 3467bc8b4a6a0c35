SPECIFICATION Spec
CONSTANTS
  Rpc = {r1}
  Pod = {p1}
  Cid = {c1}
  Pid = {q1}
  Nil = Nil
  Faults = {}
INVARIANTS RemovedPodHasNoContainer
