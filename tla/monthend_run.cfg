\* Two consumers; three rows, of which one may be refused; up to two month-end
\* runs, by either of two processes, with pages of one partner, one fault.
SPECIFICATION Spec
CONSTANTS
  e1 = e1
  e2 = e2
  e3 = e3
  Events = {e1, e2, e3}
  Key <- OwnLog
  Region <- OneRegion
  Refusable = {e3}
  Consumers = {c1, c2}
  Home <- AtHome
  BatchSize = 2
  DLQThreshold = 2
  MaxFaults = 1
  Owner <- LogOwner
  Runners = {w1, w2}
  GateRegion = "cn"
  PageSize = 1
  MaxRuns = 2
SYMMETRY Alike
CONSTRAINT OneAtATime
\* a settled period has nothing left to do
CHECK_DEADLOCK FALSE
INVARIANTS TypeOK FeedExact LockedCovers
PROPERTIES LockedForever
