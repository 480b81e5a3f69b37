\* Two allocations compete for a balance that covers one; two port calls are
\* refused, one takes effect and fails, failed steps may grow old and be
\* escalated, one of them after it was settled.  What befalls one saga excuses
\* that saga alone.
SPECIFICATION Spec
CONSTANTS
  Sagas = {a, b}
  Capital = 1
  Budget <- RefusalsAndMore
  MayExpire = TRUE
INVARIANTS TypeOK BookedStays
PROPERTIES ImplementsTransfer
SYMMETRY Alike
