\* Liveness of the retry sweep: two steps compete for a batch of one, and
\* only one of them can be replayed.
SPECIFICATION FairSpec
CONSTANTS
  Steps = {s1, s2}
  Handles = {h1}
  Sweepers = {sweep}
  WithInput = {s1}
  Registered = {s1}
  Compensable = {}
  MaxAttempts = 2
  Batch = 1
  ForceTargets = {}
  MaxFaults = 1
\* a saga whose steps are all closed has nothing left to do
CHECK_DEADLOCK FALSE
PROPERTIES EventuallySettles
