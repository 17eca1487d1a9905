SPECIFICATION Spec
CONSTANTS
  Tfs = {2, 4}
  Trigger = 2
  Margin = 1
  Capacity = 4
  MaxNow = 10
INVARIANTS
  FedIsResample
  RingsAreTails
PROPERTIES
  BackToLive

