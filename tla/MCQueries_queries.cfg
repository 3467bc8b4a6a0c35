SPECIFICATION QSpec
CONSTANTS
  Rpc = {r1}
  Pod = {"p1"}
  Cid = {"c1", "c2"}
  Pid = {q1}
  Nil = Nil
  Faults = {"helper"}
  Labels <- AnyLabels
  ContainerFilters <- ContainerFilterSet
  SandboxFilters <- SandboxFilterSet
  StatsFilters <- StatsFilterSet
INVARIANTS QueryTypeOK  SelectionIsExact ExitedStaysTrue
PROPERTIES QueriesReturn
