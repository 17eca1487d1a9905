SPECIFICATION Spec
CONSTANTS
  NMonths = 3
  MonthLen = 2
  Concurrency = 1
  QuickSpan = 1
  Holes <- HolesValue
  MaxRuns = 2
  MaxFaults = 1
INVARIANTS
  NoHalfFile
  OnlyOverlapLoses
  MissingIsExplained
CHECK_DEADLOCK FALSE
