----------------------------- MODULE AtLeastOnce -----------------------------
(***************************************************************************)
(* What a queue that may deliver again promises of each message: its       *)
(* sender is told that it was sent only once it is in, which may happen    *)
(* without his being told; something becomes of it only if it was put in;  *)
(* and it is taken out only after something became of it, which stays so.  *)
(* Mns implements it.                                                      *)
(***************************************************************************)
CONSTANTS
  Messages,
  Fates       \* what may become of a message

VARIABLES
  told,       \* messages whose sender was told that they were sent
  inside,     \* messages in the queue
  fates       \* message -> what became of it

atLeastOnceVars == <<told, inside, fates>>

-----------------------------------------------------------------------------
Put(m) ==
  /\ m \notin told
  /\ inside' = inside \cup {m}
  /\ told' = told \/ told' = told \cup {m}
  /\ UNCHANGED fates

Become(m, fate) ==
  /\ m \in inside \/ fates[m] # {}
  /\ fates' = [fates EXCEPT ![m] = @ \cup {fate}]
  /\ UNCHANGED <<told, inside>>

Take(m) ==
  /\ fates[m] # {}
  /\ inside' = inside \ {m}
  /\ UNCHANGED <<told, fates>>

Init == told = {} /\ inside = {} /\ fates = [m \in Messages |-> {}]

Next == \E m \in Messages : Put(m) \/ Take(m) \/ \E fate \in Fates : Become(m, fate)

Spec == Init /\ [][Next]_atLeastOnceVars
=============================================================================
