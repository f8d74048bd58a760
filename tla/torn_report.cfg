SPECIFICATION SpecHistory
CONSTANTS
  Processes = {m, u}
  ProjectIds = {p1}
  ServiceIds = {s1}
  CheckIds = {c1, c2}
  ResultIds = {1, 2, 3}
  None = None
  HistoryLimits = {0}
  ClockMayStepBack = FALSE
INVARIANT HealthyWasTrueOnce
SYMMETRY Symmetry
