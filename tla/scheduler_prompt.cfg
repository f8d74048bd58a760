SPECIFICATION SpecPrompt
CONSTANTS
  CheckIds = {c1, c2}
  None = None
  Intervals = {1, 3}
  IntervalUnit = 1
  U32Max = 9
  DurationMax = 9
  TickInterval = 2
  MayPanic = {}
  SinkMayFail = FALSE
  U64 = 1
  Horizon = 6
INVARIANTS StartsWithinOneTick PeriodIsBounded
