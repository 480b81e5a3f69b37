\* Two partners, one customer with a transfer under way, two more users; three
\* calls by two workers, one of which may be cut short.
SPECIFICATION Spec
CONSTANTS
  Workers = {w1, w2}
  Codes = {"k1", "k2", "k3"}
  Limits = {1}
  Stores = {"mysql", "memory"}
  MaxCalls = 3
  MaxFaults = 1
  u1 = u1
  u2 = u2
  u3 = u3
  Users = {u1, u2, u3}
  Stages = {"completed", "rejected"}
  Applicants = {"a", "b", "c"}
  FirstPartners <- TwoPartners
  FirstCodes <- TwoCodes
  FirstCustomers <- OneCustomer
  FirstLog <- OneTransfer
SYMMETRY Alike
INVARIANTS TypeOK CodesHold TransferSettles ErasureHolds NoMemberLeft
\* calls are bounded
CHECK_DEADLOCK FALSE
