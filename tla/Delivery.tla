------------------------------ MODULE Delivery ------------------------------
(***************************************************************************)
(* What a queue of things to send promises of each of them, whoever sends  *)
(* it and however often that is tried: it is marked sent after it arrived, *)
(* which happens once; it is given up only if it did not arrive; and what  *)
(* is sent or given up stays so, but for a retry by hand.  An item whose   *)
(* sending was in doubt is excused: it may arrive again.  Notify and       *)
(* Reports implement it.                                                   *)
(***************************************************************************)
CONSTANTS
  Items,
  ByHand      \* items given up may be queued again

VARIABLE item      \* item -> how far it is

States == {"none", "queued", "arrived", "sent", "given_up", "excused"}
Moves ==
  {<<"none", "queued">>, <<"queued", "arrived">>, <<"arrived", "sent">>, <<"queued", "given_up">>}
  \cup IF ByHand THEN {<<"given_up", "queued">>} ELSE {}

-----------------------------------------------------------------------------
Move(i, s) ==
  /\ <<item[i], s>> \in Moves
  /\ item' = [item EXCEPT ![i] = s]

Excuse(S) == item' = [i \in Items |-> IF i \in S THEN "excused" ELSE item[i]]

Init == item = [i \in Items |-> "none"]

Next ==
  \/ \E S \in SUBSET Items : Excuse(S)
  \/ \E i \in Items, s \in States : Move(i, s)

Spec == Init /\ [][Next]_item
=============================================================================
