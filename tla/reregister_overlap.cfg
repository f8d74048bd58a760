SPECIFICATION SpecOpen
CONSTANTS
  CheckIds = {c1, c2}
  None = None
  Intervals = {1, 2}
  IntervalUnit = 1
  U32Max = 9
  DurationMax = 9
  TickInterval = 1
  MayPanic = {}
  SinkMayFail = FALSE
  U64 = 9
  Horizon = 2
INVARIANT NoOverlap
