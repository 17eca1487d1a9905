SPECIFICATION Spec
CONSTANTS
  BarsPerStep = 100
  FractalK = 1
  BarHours = 1
  RuleBook <- MCRuleBook
  Rows <- MCRows
  Ticks <- MCTicks
  Early <- MCEarly
  Starts <- MCStarts
  Live <- MCLive
  MinHeld = 2
  Cost = 0
  Rate <- MCRate
  Segments = 3
  Horizon = 1
  MinSignals = 2
  MinUnseen = 1
  MinEpisodes = 2
INVARIANT LeaksCollapse
CHECK_DEADLOCK FALSE
