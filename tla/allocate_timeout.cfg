SPECIFICATION Spec
CONSTANTS
  Sagas = {a}
  Capital = 1
  Budget <- OneTimeout
  MayExpire = FALSE
INVARIANTS NoFreeCredit
