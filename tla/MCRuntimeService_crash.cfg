SPECIFICATION Spec
SYMMETRY Symmetry
CONSTANTS
  Rpc = {r1}
  Pod = {p1}
  Cid = {c1, c2}
  Pid = {q1, q2}
  Nil = Nil
  Faults = {"deadline", "helper", "logpipe", "crash"}
INVARIANTS StopKills RunningIsWatched SurvivesCrash
