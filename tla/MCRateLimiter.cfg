SPECIFICATION Spec
CONSTANTS
  c1 = c1
  c2 = c2
  c3 = c3
  home = home
  office = office
  Clients = {c1, c2, c3}
  Ips = {home, office}
  IpOf <- MCIpOf
  MaxConcurrent = 2
  PerHour = 3
  PerMinute = 2
  Minute = 1
  Hour = 2
  Idle = 2
  PruneAt = 1
  MaxNow = 3
INVARIANTS
  TypeOK
  PermitsConserved
  NoLostWakeup
  MinuteQuota
  HourQuota
PROPERTIES
  Answered
