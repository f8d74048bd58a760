SPECIFICATION SpecLive
CONSTANTS
  CheckIds = {c1, c2}
  None = None
  Intervals = {1}
  IntervalUnit = 1
  U32Max = 9
  DurationMax = 9
  TickInterval = 1
  MayPanic = {c1}
  MayHang = {c1}
  SinkMayFail = TRUE
  U64 = 1
  Horizon = 1
PROPERTIES SteadyChecksRecur GracefulStop CompletionsAreApplied
