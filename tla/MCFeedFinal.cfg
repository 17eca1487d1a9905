SPECIFICATION Spec
CONSTANTS
  FlushAt = 2
  MaxSilence = 2
  MaxMinute = 3
  QueueBound = 2
  MaxFaults = 1
INVARIANTS
  OnlyFinalBars
