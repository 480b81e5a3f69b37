------------------------------ MODULE Transfer ------------------------------
(***************************************************************************)
(* What an allocation promises to the two parties: the customer holds      *)
(* credit only while the partner is charged for it, the partner's capital  *)
(* is never overdrawn, and an allocation that was taken back is over.  One *)
(* on which too much failed is excused; it cannot make the others fail.    *)
(***************************************************************************)
EXTENDS Naturals, FiniteSets

CONSTANTS Sagas, Capital

VARIABLE transfer  \* saga -> "none", "charged", "credited", "void" or "excused"

TypeOK == transfer \in [Sagas -> {"none", "charged", "credited", "void", "excused"}]

Spent == Cardinality({s \in Sagas : transfer[s] \in {"charged", "credited"}})

Init == transfer = [s \in Sagas |-> "none"]

Move(s, from, to) ==
  /\ transfer[s] = from
  /\ transfer' = [transfer EXCEPT ![s] = to]

Charge(s) == Spent < Capital /\ Move(s, "none", "charged")
Credit(s) == Move(s, "charged", "credited")
TakeBack(s) == Move(s, "credited", "charged")
Discharge(s) == Move(s, "charged", "void")
Excuse(s) == transfer' = [transfer EXCEPT ![s] = "excused"]

Next == \E s \in Sagas : Charge(s) \/ Credit(s) \/ TakeBack(s) \/ Discharge(s) \/ Excuse(s)

Spec == Init /\ [][Next]_transfer
=============================================================================
