SPECIFICATION Spec
CONSTANTS
  TickPeriod = 4
  MaxLag = 3
  Graces = {0, 8, 16}
  Deadlines = {0, 10, 20}
  MaxTime = 30
INVARIANTS  EndsInTime
CHECK_DEADLOCK FALSE
