SPECIFICATION Spec
CONSTANTS
  Err = Err
  None = None
  I64Max = 1000000
  U16Max = 65535
  Base = 2
  SecondsWidth = 1
  FractionWidth = 2
  ProjectIds = {p1}
  ServiceIds = {s1}
  CheckIds = {c1, c2}
  IntervalUnit = 1
  U32Max = 100000
  DurationMax = 2000000
  LatestInstant = 1000
  InstantMax = 1000000
INVARIANTS CommandsStoreWhatTheyReturn ValidationMatchesSchema AcceptedIntervalsAreScheduled
