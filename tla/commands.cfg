SPECIFICATION SpecHistory
CONSTANTS
  Processes = {m, u}
  ProjectIds = {p1}
  ServiceIds = {s1}
  CheckIds = {c1, c2}
  ResultIds = {1, 2}
  None = None
  HistoryLimits = {1}
  ClockMayStepBack = TRUE
INVARIANTS TypeOK LookupsStayValid HistoryCoversLatest ReportIsFresh MonitorsReload
SYMMETRY Symmetry
