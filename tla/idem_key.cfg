\* Three requests with one key, one of them to another endpoint, with and
\* without the database lookup, two faults.
SPECIFICATION Spec
CONSTANTS
  a = a
  b = b
  c = c
  Requests = {a, b, c}
  Endpoints = {"topups", "refunds"}
  Route <- OneStray
  Lookups = {TRUE, FALSE}
  MaxFaults = 2
\* a key whose requests are all answered has nothing left to do
CHECK_DEADLOCK FALSE
INVARIANTS TypeOK Exclusive CommitsOnce ReplaysCommitted
