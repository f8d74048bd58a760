SPECIFICATION Spec
CONSTANTS
  CheckIds = {c1, c2}
  None = None
  Intervals = {1, 2}
  IntervalUnit = 1
  U32Max = 9
  DurationMax = 9
  TickInterval = 1
  MayPanic = {c1}
  SinkMayFail = TRUE
  U64 = 9
  Horizon = 2
INVARIANTS TypeOK NoOverlap FixedDelayKept SchedulerInvariant OnlyFailuresRetireChecks
PROPERTY ImplementsFixedDelay
