------------------------------ MODULE SagaSteps ------------------------------
(***************************************************************************)
(* Services that advance a saga with Saga.Run and never compensate: the    *)
(* top-up saga (service/saga_topup) and the refund saga (service/          *)
(* saga_refund).  Several requests may be at one saga.  A step's row is    *)
(* read, its operation carried out at a port, and its outcome saved (see   *)
(* module Saga); ports are external and take effect once per saga id.      *)
(***************************************************************************)
EXTENDS Bound

CONSTANTS
  Topups, Refunds,   \* saga ids
  Hands              \* requests served at the same time

ASSUME StepAssumption == Topups \cap Refunds = {}

VARIABLES
  row,       \* saga -> step -> status of its row
  done,      \* saga -> operations that took effect
  hand,      \* request -> what it does
  stage,     \* top-up -> state of its intent
  doubted,   \* top-ups whose intent is not in step with its rows (history)
  hasty      \* top-ups funded before their callback was recorded (history)

topupVars == <<stage, doubted, hasty>>
stepVars == <<row, done, hand, topupVars>>

Sagas == Topups \cup Refunds
StepNames == {"intent", "provider", "callback", "fy", "funded", "notify", "reverse", "wallet", "repay"}
StepStatus == {"none", "in_progress", "committed", "failed", "escalated"}
Free == [op |-> "free"]

Begin(w, op, s, steps) ==
  /\ hand[w] = Free
  /\ hand' = [hand EXCEPT ![w] = [op |-> op, saga |-> s, steps |-> steps, pc |-> "read", ok |-> TRUE]]
Is(w, pc) == hand[w] # Free /\ hand[w].pc = pc
Step(w) == Head(hand[w].steps)
SetRow(w, status) == row' = [row EXCEPT ![hand[w].saga][Step(w)] = status]
Turn(w, pc) == hand' = [hand EXCEPT ![w].pc = pc]

-----------------------------------------------------------------------------
(* The ports.  The intent has no implementation in the tree: each of its   *)
(* operations is taken to write its state whatever it was.                 *)

IntentWrites == [intent |-> "created", callback |-> "paid", funded |-> "funded"]

Effect(w) ==
  /\ done' = [done EXCEPT ![hand[w].saga] = @ \cup {Step(w)}]
  /\ stage' = IF Step(w) \in DOMAIN IntentWrites
                THEN [stage EXCEPT ![hand[w].saga] = IntentWrites[Step(w)]] ELSE stage

\* the row may not tell whether the step's write was done
Doubt(w) ==
  doubted' = IF Step(w) \in DOMAIN IntentWrites THEN doubted \cup {hand[w].saga} ELSE doubted

-----------------------------------------------------------------------------
(* Saga.Run on the next step; "end" with ok is what the service returns.   *)

Further(w) ==
  hand' = [hand EXCEPT ![w].steps = Tail(@),
                       ![w].pc = IF Len(hand[w].steps) = 1 THEN "end" ELSE "read"]
Give(w) == hand' = [hand EXCEPT ![w].pc = "end", ![w].ok = FALSE]

\* requests between reading a step's row and closing it
Working == {"start", "call", "commit", "fail"}
Engaged(s, step) ==
  {w \in Hands : (\E pc \in Working : Is(w, pc)) /\ hand[w].saga = s /\ Step(w) = step}

\* a step that is committed is run again
ReadAgainBug(w) ==
  LET s == hand[w].saga IN
  /\ Is(w, "read")
  /\ Turn(w, "start")
  /\ IF Engaged(s, Step(w)) = {} THEN UNCHANGED doubted ELSE Doubt(w)
  /\ NoFault /\ UNCHANGED <<row, done, stage, hasty>>

ReadRow(w) ==
  LET s == hand[w].saga
      status == row[s][Step(w)] IN
  /\ Is(w, "read")
  /\ \/ status = "committed" /\ Further(w) /\ UNCHANGED doubted
     \/ status = "escalated" /\ Give(w) /\ UNCHANGED doubted
     \/ /\ status \notin {"committed", "escalated"}
        /\ Turn(w, "start")
        /\ IF Engaged(s, Step(w)) = {} THEN UNCHANGED doubted ELSE Doubt(w)
  /\ NoFault /\ UNCHANGED <<row, done, stage, hasty>>

\* The row is marked, whatever became of it since it was read.
SaveStart(w) ==
  /\ Is(w, "start")
  /\ SetRow(w, "in_progress") /\ Turn(w, "call")
  /\ NoFault /\ UNCHANGED <<done, topupVars>>

\* The port does it, refuses it, or does it and reports an error.
CallStep(w) ==
  /\ Is(w, "call")
  /\ \/ Effect(w) /\ Turn(w, "commit") /\ NoFault /\ UNCHANGED doubted
     \/ Effect(w) /\ Turn(w, "fail") /\ Fault /\ Doubt(w)
     \/ Turn(w, "fail") /\ Fault /\ UNCHANGED <<done, stage, doubted>>
  /\ UNCHANGED <<row, hasty>>

\* Save takes effect, and may report an error all the same.
SaveCommit(w) ==
  /\ Is(w, "commit")
  /\ SetRow(w, "committed")
  /\ \/ Further(w) /\ NoFault
     \/ Give(w) /\ Fault
  /\ UNCHANGED <<done, topupVars>>

\* the row is closed whatever the port answered
SaveFailBug(w) ==
  /\ Is(w, "fail")
  /\ SetRow(w, "committed") /\ Further(w)
  /\ NoFault /\ UNCHANGED <<done, topupVars>>

SaveFail(w) ==
  /\ Is(w, "fail")
  /\ SetRow(w, "failed") \/ SetRow(w, "escalated")
  /\ Give(w)
  /\ NoFault /\ UNCHANGED <<done, topupVars>>

Unsaved(w) == IF Is(w, "commit") THEN Doubt(w) ELSE UNCHANGED doubted

\* GetStep or Save fails.
StoreFails(w) ==
  /\ Is(w, "read") \/ Is(w, "start") \/ Is(w, "commit")
  /\ Fault /\ Give(w) /\ Unsaved(w)
  /\ UNCHANGED <<row, done, stage, hasty>>

\* The sweep cannot replay these steps, but escalates the old ones it has read,
\* whatever they are by then.  One that a request is at, or has committed since,
\* counts as a fault.
Escalate(s, step) ==
  /\ row[s][step] # "none"
  /\ IF row[s][step] = "committed" \/ Engaged(s, step) # {} THEN Fault ELSE NoFault
  /\ row' = [row EXCEPT ![s][step] = "escalated"]
  /\ UNCHANGED <<done, hand, topupVars>>

Dies(w) ==
  /\ hand[w] # Free /\ Fault
  /\ hand' = [hand EXCEPT ![w] = Free]
  /\ Unsaved(w)
  /\ UNCHANGED <<row, done, stage, hasty>>

StepFails(w) == StoreFails(w) \/ Dies(w)
RunSaga(w) == ReadRow(w) \/ SaveStart(w) \/ CallStep(w) \/ SaveCommit(w) \/ SaveFail(w)

-----------------------------------------------------------------------------
(* The top-up saga.                                                        *)

Initiate(w, s) ==
  /\ Begin(w, "initiate", s, <<"intent", "provider">>)
  /\ NoFault /\ UNCHANGED <<row, done, topupVars>>

\* The provider calls back about payments it was asked for.
OnCallback(w, s) ==
  /\ "provider" \in done[s]
  /\ Begin(w, "callback", s, <<"callback">>)
  /\ NoFault /\ UNCHANGED <<row, done, topupVars>>

\* Fund does not look at the intent: it is for its caller to wait for the callback,
\* and not to counts as a fault.
Fund(w, s) ==
  /\ Begin(w, "fund", s, <<"fy", "funded", "notify">>)
  /\ \/ "callback" \in done[s] /\ NoFault /\ UNCHANGED hasty
     \/ "callback" \notin done[s] /\ Fault /\ hasty' = hasty \cup {s}
  /\ UNCHANGED <<row, done, stage, doubted>>

Reply(w) ==
  /\ Is(w, "end") /\ hand[w].op # "accept"
  /\ hand' = [hand EXCEPT ![w] = Free]
  /\ NoFault /\ UNCHANGED <<row, done, topupVars>>

IntentStage == {"none", "created", "paid", "funded"}

\* the table of the source, which nothing there looks up
CanAdvance(from, to) ==
  \/ from = "created" /\ to \in {"paid", "failed", "canceled"}
  \/ from = "paid" /\ to \in {"funded", "refunded", "failed"}
  \/ from = "funded" /\ to = "refunded"

-----------------------------------------------------------------------------
(* The refund saga; a refund the provider refuses is not compensated.      *)

RefundSteps == <<"reverse", "wallet", "repay", "notify">>

-----------------------------------------------------------------------------
StepInit ==
  /\ row = [s \in Sagas |-> [x \in StepNames |-> "none"]]
  /\ done = [s \in Sagas |-> {}]
  /\ hand = [w \in Hands |-> Free]
  /\ stage = [s \in Topups |-> "none"]
  /\ doubted = {} /\ hasty = {}

TopupNext ==
  \/ \E w \in Hands :
       \/ RunSaga(w) \/ StepFails(w) \/ Reply(w)
       \/ \E s \in Topups : Initiate(w, s) \/ OnCallback(w, s) \/ Fund(w, s)
  \/ \E s \in Topups, step \in StepNames : Escalate(s, step)

StepTypeOK ==
  /\ row \in [Sagas -> [StepNames -> StepStatus]]
  /\ done \in [Sagas -> SUBSET StepNames]
  /\ stage \in [Topups -> IntentStage]
  /\ doubted \subseteq Topups /\ hasty \subseteq Topups

\* The rows keep the intent of a top-up on the path of CanAdvance although its
\* port does not look, under overlapping and repeated requests and steps refused,
\* lost or escalated: it leaves it only when a write of it was repeated or may
\* have been lost, or when Fund came first (saga_topup/service.go:190).
IntentAdvances ==
  [][\A s \in Topups :
       stage'[s] # stage[s] =>
         \/ stage[s] = "none" /\ stage'[s] = "created"
         \/ CanAdvance(stage[s], stage'[s])
         \/ s \in doubted' \cup hasty']_stepVars

\* A refund is paid out only after the revenue is reversed and the wallet rolled
\* back, whatever is refused, unsaved or escalated (saga_refund/service.go:95).
RefundInOrder ==
  \A s \in Refunds : "repay" \in done[s] => {"reverse", "wallet"} \subseteq done[s]
=============================================================================
