SPECIFICATION Spec
CONSTANTS
  NoPivot = NoPivot
  AtrPeriod = 1
  OnClose = FALSE
  Levels = {1, 2, 3}
  Candles <- MCCandles
  Steps = {1}
  MaxBars = 5
INVARIANTS
  TypeOK
  FirstPassage
  TrueExtreme
  StoreNeverRaises
  ProvisionalNoHindsight
  LegsAlternate
PROPERTIES
  SnapshotStable
  ImplementsLedger
CHECK_DEADLOCK FALSE
