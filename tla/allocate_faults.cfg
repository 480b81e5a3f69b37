\* Every kind of fault, in any order: two refusals, two timeouts, two repository
\* errors, two crashes and two settled steps escalated by a late sweep.
SPECIFICATION Spec
CONSTANTS
  Sagas = {a}
  Capital = 1
  Budget <- TwoOfEach
  MayExpire = TRUE
INVARIANTS UndoBacked EffectsInOrder
