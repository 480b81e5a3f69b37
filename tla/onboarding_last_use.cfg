\* One request at a time in the database, no fault: the last use of a code.
SPECIFICATION Spec
CONSTANTS
  Workers = {w1}
  Codes = {"k1", "k2", "k3"}
  Limits = {0}
  Stores = {"mysql"}
  MaxCalls = 2
  MaxFaults = 0
  u1 = u1
  u2 = u2
  u3 = u3
  Users = {u1, u2, u3}
  Stages = {"completed", "rejected"}
  Applicants = {"a", "b", "c"}
  FirstPartners <- TwoPartners
  FirstCodes <- LastingCodes
  FirstCustomers <- None
  FirstLog <- None
INVARIANT SoleRegistrationReported
\* calls are bounded
CHECK_DEADLOCK FALSE
