----------------------------- MODULE MCMonthEnd -----------------------------
EXTENDS MonthEnd, TLC

CONSTANTS e1, e2, e3

\* two log entries of partner 2 and one of partner 1, which is listed first
OwnLog == [e \in Events |-> e]
LogOwner == [k \in Events |-> IF k = e3 THEN 1 ELSE 2]
OneRegion == [e \in Events |-> "cn"]
AtHome == [c \in Consumers |-> "cn"]
\* once two runs have overlapped, nothing is claimed of the settlement any more
OneAtATime == ~overlap
\* the two entries of partner 2 are alike, and so are the consumers and the runners
Alike == Permutations(Consumers) \cup Permutations(Runners) \cup Permutations({e1, e2})
=============================================================================
