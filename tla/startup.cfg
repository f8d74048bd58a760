SPECIFICATION Spec
CONSTANTS
  Processes = {a, b, c}
  MaxCrashes = 2
INVARIANT OpenedIsMigrated
PROPERTY EveryCallerOpens
