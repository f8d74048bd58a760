SPECIFICATION SpecLive
CONSTANTS
  CheckIds = {c1}
  None = None
  Intervals = {1}
  IntervalUnit = 1
  U32Max = 9
  DurationMax = 9
  TickInterval = 1
  MayPanic = {c1}
  MayHang = {}
  SinkMayFail = TRUE
  U64 = 1
  Horizon = 1
PROPERTY EveryCheckRecurs
