SPECIFICATION Spec
SYMMETRY Symmetry
CONSTANTS
  Rpc = {r1, r2}
  Pod = {p1}
  Cid = {c1}
  Pid = {q1, q2}
  Nil = Nil
  Faults = {"deadline", "helper", "again", "store", "crash"}
INVARIANTS TypeOK ExitedIsReaped NotReadyIsEmpty
