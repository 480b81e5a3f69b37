----------------------------- MODULE MCAllocate -----------------------------
(* Instances of Allocate for TLC.                                          *)
EXTENDS Allocate, TLC

Bounds(failure, unknown, repo, crash, late) ==
  [failure |-> failure, unknown |-> unknown, repo |-> repo, crash |-> crash, late |-> late]

RefusalsAndMore == Bounds(2, 1, 0, 0, 1)
OneTimeout == Bounds(0, 1, 0, 0, 0)
TwoOfEach == Bounds(2, 2, 2, 2, 2)

Alike == Permutations(Sagas)
=============================================================================
