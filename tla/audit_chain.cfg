\* Two API pods, two sealers whose lease expires at any time, two faults; one id
\* more than events, so that an INSERT given up can be stored beside its retry.
SPECIFICATION FairSpec
CONSTANTS
  Pods = {w1, w2}
  Sealers = {p1, p2}
  Buffer = 1
  Batch = 2
  Retries = 2
  MaxId = 3
  MaxSent = 2
  MaxFaults = 2
\* once every event is sealed nothing is left to do
CHECK_DEADLOCK FALSE
INVARIANTS TypeOK Verifies Accounted
PROPERTIES NothingLost EventuallySealed
