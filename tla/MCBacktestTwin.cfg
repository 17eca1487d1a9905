SPECIFICATION Spec
CONSTANTS
  MaxFromEdge = 3
  TopN = 4
  Tick = 100
  Scripts <- ScriptsValue
  Minutes <- MinutesValue
  Quiet <- QuietValue
  MinutesPerBar = 2
  Atrs = {4, 20}
  AtrPeriod = 2
  Cooldown = 2
  MaxBarsHold = 2
  TwinReach = 2
  MaxBars = 6
INVARIANT TwinsEnterLater
CHECK_DEADLOCK FALSE
