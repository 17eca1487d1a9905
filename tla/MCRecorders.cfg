SPECIFICATION Spec
CONSTANTS
  Sources = {okx}
  Days = 2
  MaxLines = 3
  Series <- SeriesValue
  Point <- PointValue
  Limit <- LimitValue
  Every = 2
  ErrorPause = 1
  CircuitPause = 6
  Delays <- DelaysValue
  Outages = {7}
  MaxNow = 10
  MaxFaults = 2
INVARIANTS
  EveryLineHasItsDay
  GapsAreOutages
CHECK_DEADLOCK FALSE
