SPECIFICATION Spec
CONSTANTS
  Err = Err
  None = None
  I64Max = 9000
  U16Max = 2000
  Base = 2
  SecondsWidth = 1
  FractionWidth = 1
  CheckIds = {c1, c2}
  ResultIds = {1, 2, 3}
  Statuses = {"Healthy", "Unknown"}
INVARIANT RecentIsByInstant
INVARIANT SinksAgree
