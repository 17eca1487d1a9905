SPECIFICATION Spec
CONSTANTS
  FlushAt = 2
  MaxSilence = 2
  MaxMinute = 4
  QueueBound = 2
  MaxFaults = 3
INVARIANTS
  TypeOK
  LedgerAgrees
  PartialsPerFault
  CrashLosesFew
PROPERTIES
  ImplementsTape
  CaughtUp
