SPECIFICATION SpecHistory
CONSTANTS
  CheckIds = {c1, c2}
  None = None
  Intervals = {1}
  IntervalUnit = 1
  U32Max = 9
  DurationMax = 9
  TickInterval = 1
  MayPanic = {c1}
  SinkMayFail = TRUE
  U64 = 9
  Horizon = 1
INVARIANTS StatsAccountForExecutions StatsAccountForRows
