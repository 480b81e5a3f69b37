------------------------------ MODULE Allocate ------------------------------
(***************************************************************************)
(* The allocation saga (service/saga_allocate): a partner's balance is     *)
(* charged, a hold is placed, Fy-api credits the customer, the hold is     *)
(* committed and the wallet log written, each as a step of the saga engine *)
(* (module Saga), with compensations when a step reports an error.         *)
(*                                                                         *)
(* The wallet is a port without an implementation in the tree, Fy-api is   *)
(* reached through infra/fyapi/client.go.  They are modelled as the code   *)
(* addresses them: every call carries the saga id as its idempotency key,  *)
(* so an operation takes effect at most once per saga.  A call may fail,   *)
(* and it may take effect and still report an error (a timeout or a 5xx,   *)
(* which Run does not tell apart).  RefundCustomer is taken to undo the    *)
(* topup, which is what Run calls it for; the comment of the client says   *)
(* that it adds to the customer's quota.                                   *)
(*                                                                         *)
(* A saga is run by one request at a time; requests for one saga may       *)
(* follow each other (a client retry, a crash), and run beside other       *)
(* sagas'.  Every allocation is of one unit.                               *)
(***************************************************************************)
EXTENDS Naturals, FiniteSets

CONSTANTS
  Sagas,
  Capital,    \* the partner's balance at the start
  Budget,     \* bound: how often a port call fails ("failure"), takes effect
              \* and fails ("unknown"), a repository call fails ("repo"), the
              \* process dies ("crash") and a sweep escalates a step settled
              \* since it loaded the row ("late")
  MayExpire   \* whether steps grow old enough to be escalated

Faults == {"failure", "unknown", "repo", "crash", "late"}
ASSUME AllocateAssumption ==
  /\ Capital \in Nat /\ MayExpire \in BOOLEAN
  /\ Budget \in [Faults -> Nat]

VARIABLES
  status,   \* saga -> step -> status of its row
  request,  \* saga -> the request advancing it
  effects,  \* saga -> operations that took effect at a port
  budget,   \* faults that may still happen
  trouble   \* saga -> what has befallen it: a history variable

vars == <<status, request, effects, budget, trouble>>

\* Run advances the steps in this order.
Following == [deduct |-> "hold", hold |-> "topup", topup |-> "commit",
              commit |-> "log", log |-> "end"]
Steps == DOMAIN Following

\* the customer is not refunded when the hold cannot be committed
UndoFromBug == [deduct |-> "end", hold |-> "deduct", topup |-> "hold",
                commit |-> "hold", log |-> "end"]

\* When a step reports an error Run compensates from here, back to the charge.
\* Nothing is compensated when the charge or the log fails.
UndoFrom == [deduct |-> "end", hold |-> "deduct", topup |-> "hold",
             commit |-> "topup", log |-> "end"]
Undo == [deduct |-> "refund", hold |-> "release", topup |-> "refundCustomer"]
Operations == Steps \cup {Undo[x] : x \in DOMAIN Undo}

Charged(s) == "deduct" \in effects[s] /\ "refund" \notin effects[s]
Credited(s) == "topup" \in effects[s] /\ "refundCustomer" \notin effects[s]
Balance == Capital - Cardinality({s \in Sagas : Charged(s)})

\* Whether the port can perform the operation: the balance update is
\* conditional, and a hold is committed or released, never both.
Feasible(s, op) ==
  \/ op \in effects[s]
  \/ /\ op = "deduct" => Balance > 0
     /\ op = "commit" => "release" \notin effects[s]
     /\ op = "release" => "commit" \notin effects[s]

-----------------------------------------------------------------------------
(* One request.  mode: advancing, compensating or none; step: where it is;  *)
(* phase: before the row is marked, at the port, or before the outcome is   *)
(* saved; ok: what the port answered.                                       *)

Idle == [mode |-> "idle", step |-> "end", phase |-> "begin", ok |-> TRUE]
At(s, mode, phase) == request[s].mode = mode /\ request[s].phase = phase
Step(s) == request[s].step

ContinueBug(s, mode, x) ==
  request' = [request EXCEPT ![s] =
    [mode |-> mode, step |-> x, phase |-> "begin", ok |-> TRUE]]

\* idle when nothing is left to do
Continue(s, mode, x) ==
  request' = [request EXCEPT ![s] =
    IF x = "end" THEN Idle ELSE [mode |-> mode, step |-> x, phase |-> "begin", ok |-> TRUE]]

Advance(s) == Continue(s, "forward", Following[Step(s)])
Retreat(s) == Continue(s, "undo", UndoFrom[Step(s)])
Phase(s, phase, ok) ==
  request' = [request EXCEPT ![s] =
    [mode |-> @.mode, step |-> @.step, phase |-> phase, ok |-> ok]]
Set(s, value) == status' = [status EXCEPT ![s][Step(s)] = value]
Calm == UNCHANGED <<budget, trouble>>

\* A saga may meet one refused call; whatever else befalls it is more, a settled
\* step escalated by a late sweep included (SweepEscalate).
Spend(s, kind) ==
  /\ budget[kind] > 0
  /\ budget' = [budget EXCEPT ![kind] = @ - 1]
  /\ trouble' = [trouble EXCEPT ![s] = IF kind = "failure" /\ @ = "none" THEN "refused" ELSE "more"]

Submit(s) ==
  /\ request[s].mode = "idle"
  /\ Continue(s, "forward", "deduct")
  /\ Calm /\ UNCHANGED <<status, effects>>

\* a step some request has started is left to that request
SkipBug(s) ==
  /\ At(s, "forward", "begin") /\ status[s][Step(s)] \in {"committed", "in_progress"}
  /\ Advance(s)
  /\ Calm /\ UNCHANGED <<status, effects>>

\* Saga.Run on the current step: skipped, refused, or marked in progress.
Skip(s) ==
  /\ At(s, "forward", "begin") /\ status[s][Step(s)] = "committed"
  /\ Advance(s)
  /\ Calm /\ UNCHANGED <<status, effects>>

\* An escalated or compensated step is an error like any other to Run's caller.
Refuse(s) ==
  /\ At(s, "forward", "begin") /\ status[s][Step(s)] \in {"escalated", "compensated"}
  /\ Retreat(s)
  /\ Calm /\ UNCHANGED <<status, effects>>

EnterBug(s) ==
  /\ At(s, "forward", "begin")
  /\ status[s][Step(s)] \in {"none", "in_progress", "failed", "committed"}
  /\ Set(s, "in_progress")
  /\ Phase(s, "call", TRUE)
  /\ Calm /\ UNCHANGED effects

EnterAgainBug(s) ==
  /\ At(s, "forward", "begin")
  /\ status[s][Step(s)] \in {"none", "in_progress", "failed", "compensated"}
  /\ Set(s, "in_progress")
  /\ Phase(s, "call", TRUE)
  /\ Calm /\ UNCHANGED effects

Enter(s) ==
  /\ At(s, "forward", "begin")
  /\ status[s][Step(s)] \in {"none", "in_progress", "failed"}
  /\ Set(s, "in_progress")
  /\ Phase(s, "call", TRUE)
  /\ Calm /\ UNCHANGED effects

\* The port carries out the operation, fails, or does both.
Answer(s, op) ==
  /\ \/ /\ Feasible(s, op)
        /\ effects' = [effects EXCEPT ![s] = @ \cup {op}]
        /\ Phase(s, "save", TRUE)
        /\ Calm
     \/ /\ IF Feasible(s, op) THEN Spend(s, "failure") ELSE Calm
        /\ Phase(s, "save", FALSE)
        /\ UNCHANGED effects
     \/ /\ Feasible(s, op) /\ Spend(s, "unknown")
        /\ effects' = [effects EXCEPT ![s] = @ \cup {op}]
        /\ Phase(s, "save", FALSE)
  /\ UNCHANGED status

CallPort(s) ==
  /\ At(s, "forward", "call")
  /\ Answer(s, Step(s))

SaveCommitted(s) ==
  /\ At(s, "forward", "save") /\ request[s].ok
  /\ Set(s, "committed")
  /\ Advance(s)
  /\ Calm /\ UNCHANGED effects

\* the row is closed whatever the port answered
SaveFailedBug(s) ==
  /\ At(s, "forward", "save") /\ ~request[s].ok
  /\ Set(s, "committed")
  /\ Retreat(s)
  /\ Calm /\ UNCHANGED effects

SaveFailed(s) ==
  /\ At(s, "forward", "save") /\ ~request[s].ok
  /\ \/ Set(s, "failed")
     \/ MayExpire /\ Set(s, "escalated")
  /\ Retreat(s)
  /\ Calm /\ UNCHANGED effects

\* Saga.Compensate on the current step.  Its error is joined to the others and
\* the next compensation runs all the same.
BeginUndo(s) ==
  /\ At(s, "undo", "begin")
  /\ IF status[s][Step(s)] = "committed" THEN Phase(s, "call", TRUE) ELSE Retreat(s)
  /\ Calm /\ UNCHANGED <<status, effects>>

CallUndo(s) ==
  /\ At(s, "undo", "call")
  /\ Answer(s, Undo[Step(s)])

SaveUndone(s) ==
  /\ At(s, "undo", "save")
  /\ Set(s, IF request[s].ok THEN "compensated" ELSE "failed")
  /\ Retreat(s)
  /\ Calm /\ UNCHANGED effects

\* GetStep or Save fails: an error of the step, whatever its status or the
\* port's answer was.
RepoError(s) ==
  /\ request[s].mode # "idle" /\ request[s].phase # "call"
  /\ Spend(s, "repo")
  /\ Retreat(s)
  /\ UNCHANGED <<status, effects>>

Crash(s) ==
  /\ request[s].mode # "idle"
  /\ Spend(s, "crash")
  /\ request' = [request EXCEPT ![s] = Idle]
  /\ UNCHANGED <<status, effects>>

\* The sweep cannot replay steps advanced with Run (they have no payload); it
\* escalates them when they are old.  It decides on copies loaded when the rows
\* were in progress or failed, as every row once was, and MarkEscalated looks at
\* nothing the row has become since: a step settled in between is escalated too.
SweepEscalate(s, x) ==
  /\ MayExpire
  /\ status[s][x] # "none"
  /\ status' = [status EXCEPT ![s][x] = "escalated"]
  /\ IF status[s][x] \in {"committed", "compensated"} THEN Spend(s, "late") ELSE Calm
  /\ UNCHANGED <<request, effects>>

-----------------------------------------------------------------------------
Init ==
  /\ status = [s \in Sagas |-> [x \in Steps |-> "none"]]
  /\ request = [s \in Sagas |-> Idle]
  /\ effects = [s \in Sagas |-> {}]
  /\ budget = Budget
  /\ trouble = [s \in Sagas |-> "none"]

Proceed(s) ==
  \/ Skip(s) \/ Refuse(s) \/ Enter(s) \/ CallPort(s) \/ SaveCommitted(s)
  \/ SaveFailed(s) \/ BeginUndo(s) \/ CallUndo(s) \/ SaveUndone(s)

Next ==
  \E s \in Sagas :
    \/ Submit(s) \/ Proceed(s) \/ RepoError(s) \/ Crash(s)
    \/ \E x \in Steps : SweepEscalate(s, x)

Spec == Init /\ [][Next]_vars

-----------------------------------------------------------------------------
(* Properties.                                                             *)

\* Every variable keeps its shape; a request that has nothing left is idle.
Request == [mode : {"idle", "forward", "undo"}, step : Steps \cup {"end"},
            phase : {"begin", "call", "save"}, ok : BOOLEAN]
StatusOK == status \in [Sagas -> [Steps -> {"none", "in_progress", "committed", "failed",
                                            "compensated", "escalated"}]]
RequestOK ==
  /\ request \in [Sagas -> Request]
  /\ \A s \in Sagas :
       /\ request[s].mode = "idle" <=> Step(s) = "end"
       /\ request[s].mode = "undo" => Step(s) \in DOMAIN Undo
TypeOK ==
  /\ StatusOK
  /\ RequestOK
  /\ effects \in [Sagas -> SUBSET Operations]
  /\ budget \in [Faults -> Nat]
  /\ trouble \in [Sagas -> {"none", "refused", "more"}]

\* The customer never holds credit the partner is not charged for: Run charges
\* first and gives the charge back last ("失败补偿对称（4→1 反向）",
\* service.go:11), whatever is escalated or submitted again in between.
NoFreeCredit == \A s \in Sagas : Credited(s) => Charged(s)

\* An allocation whose log step committed is booked for good: charged,
\* credited and its hold committed, whatever is submitted again afterwards
\* ("committed step 自动跳过", service.go:100), unless more befell it than one
\* refused call: a step is not escalated on a row the sweep loaded before the step
\* was committed, no call times out, no save is lost.
BookedStays ==
  \A s \in Sagas : trouble[s] # "more" /\ status[s]["log"] = "committed" =>
    Charged(s) /\ Credited(s) /\ "commit" \in effects[s]

\* Under every fault, crashes, timeouts and repository errors included, only
\* what was done is undone: the partner is not refunded a charge, nor the
\* customer deprived of a credit, that never took effect (Compensate acts on
\* committed steps only, and a step commits only behind its effect).
UndoBacked ==
  \A s \in Sagas : \A x \in DOMAIN Undo : Undo[x] \in effects[s] => x \in effects[s]

\* Under every fault a step reaches its port only after the steps before it
\* have taken effect: no credit without a charge and a hold before it, no log
\* of an allocation that was not carried out.
EffectsInOrder ==
  \A s \in Sagas : \A x \in Steps : Following[x] \in effects[s] => x \in effects[s]

\* The saga implements the promise of Transfer: charge, credit, take back,
\* discharge, in that order and within the partner's capital, whatever befalls
\* other sagas; one that more befell than a refused call (a fault, or a settled
\* step escalated by a late sweep) is excused.
TransferOf(s) ==
  IF trouble[s] = "more" THEN "excused" ELSE
  CASE "deduct" \notin effects[s] -> "none"
    [] Charged(s) /\ ~Credited(s) -> "charged"
    [] Charged(s) /\ Credited(s) -> "credited"
    [] "refund" \in effects[s] /\ ~Credited(s) -> "void"
    [] OTHER -> "free"
Promise == INSTANCE Transfer WITH transfer <- [s \in Sagas |-> TransferOf(s)]
ImplementsTransfer == Promise!Spec
=============================================================================
