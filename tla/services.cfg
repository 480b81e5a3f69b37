\* One of twelve services per behaviour, each with two actors at a time and
\* with one fault.  They may come to rest with nothing left to do.
SPECIFICATION Spec
CONSTANTS
  MaxFaults = 1
  Trades = {t1}
  Notices = {"success", "pending"}
  Hooks = {w1, w2}
  Topups = {u1}
  Refunds = {r1, r2}
  Disputes = {d1}
  Hands = {h1, h2}
  Applicants = {a1, a2}
  LegalIds = {l1}
  NoAccount = {a1, a2}
  Officers = {o1, o2}
  Cases = {s1}
  Tokens = {k1, k2}
  Staff = {x1, x2}
  Nets = {n4, n6}
  V6 = {n6}
  Pods = {p1, p2}
  Events = {e1}
  ReportIds = {1}
  MaxRetries = 2
  Notes = {n1}
  Dispatchers = {v1, v2}
  NoteRetries = 1
  Msgs = {m1}
  Consumers = {c1, c2}
  MaxTries = 2
  DlqThreshold = 2
  HasDlq = TRUE
  Invoices = {i1}
  Clerks = {f1, f2}
  Tickets = {q1}
  Agents = {g1, g2}
  MaxReplies = 2
  Members = {b1, b2}
  Founder = b1
  OtherRoles = {"kyc_reviewer"}
  StepUpWindow = 0
  MaxMinutes = 2
  Pairs = {y1, y2}
  Resets = {z1}
  Visitors = {j1, j2}
  MaxAttempts = 1
  MaxIssued = 2
CHECK_DEADLOCK FALSE
INVARIANTS
  TypeOK MoneyBacked KycHolds DualControl Audited Delivered FapiaoHolds SessionsHold
PROPERTIES
  PaymentsAdvance Cooldown StatusMoves QueuesDeliver EverythingSettles
