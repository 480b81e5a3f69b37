SPECIFICATION Spec
CONSTANTS
  e1 = e1
  e2 = e2
  e3 = e3
  Events = {e1, e2, e3}
  Key <- OwnLog
  Region <- OneRegion
  Refusable = {}
  Consumers = {c1}
  Home <- AtHome
  BatchSize = 2
  DLQThreshold = 2
  MaxFaults = 0
  Owner <- LogOwner
  Runners = {w}
  GateRegion = "cn"
  PageSize = 1
  MaxRuns = 2
\* a settled period has nothing left to do
CHECK_DEADLOCK FALSE
PROPERTIES LockedItemsFixed
