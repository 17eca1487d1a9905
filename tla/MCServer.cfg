SPECIFICATION ServerSpec
CONSTANTS
  Clients = {c1, c2}
  Public = FALSE
  Months = 1
  MaxSlow = 1
INVARIANTS
  GatedReadsAreWhole
  NoMessageSkipped
PROPERTIES
  OneFeedTask
  GoneAreForgotten
  StopEnds
  ProbeLearns
CHECK_DEADLOCK FALSE
