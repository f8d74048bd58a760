SPECIFICATION Spec
CONSTANTS
  Processes = {m, u}
  ProjectIds = {p1}
  ServiceIds = {s1}
  CheckIds = {c1}
  ResultIds = {1, 2}
  None = None
  HistoryLimits = {0, 1, 2}
  ClockMayStepBack = TRUE
INVARIANT EveryCheckHasItsFirstResult
