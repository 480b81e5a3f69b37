--------------------------- MODULE AllocateProofs ---------------------------
(* Theorems about Allocate for every set of sagas, capital and fault bound. *)
EXTENDS Allocate, FiniteSetTheorems, TLAPS

USE DEF Steps, Following, UndoFrom, Undo, Operations, Faults

-----------------------------------------------------------------------------
(* The inductive invariant: a recorded commitment stands for an effect, a   *)
(* request past a step has that step's effect, and a compensation at its    *)
(* port has the effect it takes back.                                       *)

\* The step whose effect a request at x has behind it.
Behind(x, s) == \A y \in Steps : Following[y] = x => y \in effects[s]

Recorded(s) ==
  \A x \in Steps : status[s][x] \in {"committed", "compensated"} => x \in effects[s]

Tracked(s) ==
  LET r == request[s] IN
  /\ r.mode = "forward" => Behind(r.step, s)
  /\ r.mode = "forward" /\ r.phase = "save" /\ r.ok => r.step \in effects[s]
  /\ r.mode = "undo" /\ r.phase # "begin" => r.step \in effects[s]

Ordered(s) ==
  /\ \A x \in DOMAIN Undo : Undo[x] \in effects[s] => x \in effects[s]
  /\ \A x \in Steps : Following[x] \in effects[s] => x \in effects[s]

SagaInv(s) == Tracked(s) /\ Recorded(s) /\ Ordered(s)

IInv == TypeOK /\ \A s \in Sagas : SagaInv(s)

-----------------------------------------------------------------------------
(* Every variable keeps its shape.  The proof and the next one have a step  *)
(* per action of Next.                                                      *)

LEMMA Working ==
  ASSUME TypeOK, NEW s \in Sagas, request[s].mode # "idle"
  PROVE  /\ Step(s) \in Steps
         /\ request[s].mode = "undo" => Step(s) \in DOMAIN Undo
  BY DEF TypeOK, RequestOK, Request, Step

\* Moving a request to another step keeps its type.
LEMMA ContinueType ==
  ASSUME TypeOK, NEW s \in Sagas, NEW mode \in {"forward", "undo"},
         NEW x \in Steps \cup {"end"}, mode = "undo" => x \in DOMAIN Undo \cup {"end"},
         Continue(s, mode, x)
  PROVE  RequestOK'
  BY DEF TypeOK, RequestOK, Request, Step, Continue, Idle

\* Moving a request within a step keeps its type.
LEMMA PhaseType ==
  ASSUME TypeOK, NEW s \in Sagas, NEW phase \in {"begin", "call", "save"},
         NEW ok \in BOOLEAN, request[s].mode # "idle", Phase(s, phase, ok)
  PROVE  RequestOK'
  BY DEF TypeOK, RequestOK, Request, Step, Phase

\* A stored status keeps the type of the table.
LEMMA SetType ==
  ASSUME TypeOK, NEW s \in Sagas, Step(s) \in Steps,
         NEW value \in {"none", "in_progress", "committed", "failed", "compensated",
                        "escalated"},
         Set(s, value)
  PROVE  StatusOK'
  BY DEF TypeOK, StatusOK, Set

\* The answer of a port keeps the types.
LEMMA AnswerType ==
  ASSUME TypeOK, NEW s \in Sagas, NEW op \in Operations, request[s].mode # "idle",
         Answer(s, op)
  PROVE  TypeOK'
<1>1. RequestOK'
  BY PhaseType DEF Answer
<1>2. StatusOK'
  BY DEF Answer, TypeOK, StatusOK
<1>3. effects' = effects \/ effects' = [effects EXCEPT ![s] = @ \cup {op}]
  BY DEF Answer
<1>4. Calm \/ \E kind \in Faults : Spend(s, kind)
  BY DEF Answer
<1>5. budget' \in [Faults -> Nat] /\ trouble' \in [Sagas -> {"none", "refused", "more"}]
  BY <1>4 DEF TypeOK, Calm, Spend
<1> QED
  BY <1>1, <1>2, <1>3, <1>5 DEF TypeOK

\* Every step keeps the types.
LEMMA TypeStep == TypeOK /\ [Next]_vars => TypeOK'
<1> SUFFICES ASSUME TypeOK, [Next]_vars PROVE TypeOK'
  OBVIOUS
<1> USE DEF TypeOK, Calm
<1>a. ASSUME NEW s \in Sagas, request[s].mode # "idle", Retreat(s) PROVE RequestOK'
  BY <1>a, Working, ContinueType DEF Retreat
<1>b. ASSUME NEW s \in Sagas, request[s].mode # "idle", Advance(s) PROVE RequestOK'
  BY <1>b, Working, ContinueType DEF Advance
<1>c. ASSUME UNCHANGED status PROVE StatusOK'
  BY <1>c DEF StatusOK
<1>1. ASSUME NEW s \in Sagas, Submit(s) PROVE TypeOK'
  BY <1>1, <1>c, ContinueType DEF Submit
<1>2. ASSUME NEW s \in Sagas, Skip(s) PROVE TypeOK'
  BY <1>2, <1>b, <1>c DEF Skip, At
<1>3. ASSUME NEW s \in Sagas, Refuse(s) PROVE TypeOK'
  BY <1>3, <1>a, <1>c DEF Refuse, At
<1>4. ASSUME NEW s \in Sagas, Enter(s) PROVE TypeOK'
  BY <1>4, Working, PhaseType, SetType DEF Enter, At
<1>5. ASSUME NEW s \in Sagas, CallPort(s) PROVE TypeOK'
  BY <1>5, Working, AnswerType DEF CallPort, At
<1>6. ASSUME NEW s \in Sagas, SaveCommitted(s) PROVE TypeOK'
  BY <1>6, <1>b, Working, SetType DEF SaveCommitted, At
<1>7. ASSUME NEW s \in Sagas, SaveFailed(s) PROVE TypeOK'
  BY <1>7, <1>a, Working, SetType DEF SaveFailed, At
<1>8. ASSUME NEW s \in Sagas, BeginUndo(s) PROVE TypeOK'
  BY <1>8, <1>a, <1>c, PhaseType DEF BeginUndo, At
<1>9. ASSUME NEW s \in Sagas, CallUndo(s) PROVE TypeOK'
  BY <1>9, Working, AnswerType DEF CallUndo, At
<1>10. ASSUME NEW s \in Sagas, SaveUndone(s) PROVE TypeOK'
  BY <1>10, <1>a, Working, SetType DEF SaveUndone, At
<1>11. ASSUME NEW s \in Sagas, RepoError(s) PROVE TypeOK'
  BY <1>11, <1>a, <1>c DEF RepoError, Spend
<1>12. ASSUME NEW s \in Sagas, Crash(s) PROVE TypeOK'
  BY <1>12, <1>c DEF Crash, Spend, RequestOK, Request, Idle, Step
<1>13. ASSUME NEW s \in Sagas, NEW x \in Steps, SweepEscalate(s, x) PROVE TypeOK'
  <2>1. Calm \/ Spend(s, "late")
    BY <1>13 DEF SweepEscalate
  <2>2. budget' \in [Faults -> Nat] /\ trouble' \in [Sagas -> {"none", "refused", "more"}]
    BY <2>1 DEF Spend
  <2>3. StatusOK' /\ RequestOK' /\ effects' = effects
    BY <1>13 DEF SweepEscalate, StatusOK, RequestOK, Step
  <2> QED
    BY <2>2, <2>3
<1>14. CASE UNCHANGED vars
  BY <1>14 DEF vars, StatusOK, RequestOK, Step
<1> QED
  BY <1>1, <1>2, <1>3, <1>4, <1>5, <1>6, <1>7, <1>8, <1>9, <1>10, <1>11, <1>12,
     <1>13, <1>14 DEF Next, Proceed

-----------------------------------------------------------------------------
(* The rest of the invariant concerns one saga at a time.                   *)

\* A step of s leaves the other sagas as they are.
Others(s) ==
  \A t \in Sagas \ {s} :
    request'[t] = request[t] /\ status'[t] = status[t] /\ effects'[t] = effects[t]

\* A step of s does not disturb what the invariant says of the other sagas.
LEMMA Frame ==
  ASSUME IInv, TypeOK', NEW s \in Sagas, Others(s), SagaInv(s)'
  PROVE  IInv'
<1>1. ASSUME NEW t \in Sagas PROVE SagaInv(t)'
  <2>1. CASE t = s
    BY <2>1
  <2>2. CASE t # s
    BY <2>2 DEF IInv, Others, SagaInv, Tracked, Behind, Recorded, Ordered
  <2> QED
    BY <2>1, <2>2
<1> QED
  BY <1>1 DEF IInv

\* Every step keeps the invariant.
LEMMA InvStep == IInv /\ [Next]_vars => IInv'
<1> SUFFICES ASSUME IInv, [Next]_vars PROVE IInv'
  OBVIOUS
<1>0. TypeOK /\ TypeOK' /\ \A s \in Sagas : SagaInv(s)
  BY TypeStep DEF IInv
<1> USE <1>0
<1>a. ASSUME NEW s \in Sagas, request[s].mode # "idle", Retreat(s),
             effects' = effects, Recorded(s)'
      PROVE  SagaInv(s)'
  <2>1. request'[s].mode \in {"idle", "undo"} /\ request'[s].phase = "begin"
    BY <1>a DEF Retreat, Continue, Idle, TypeOK, RequestOK
  <2> QED
    BY <1>a, <2>1 DEF SagaInv, Tracked, Ordered
<1>b. ASSUME NEW s \in Sagas, request[s].mode = "forward", Step(s) \in effects[s], Advance(s),
             effects' = effects, Recorded(s)'
      PROVE  SagaInv(s)'
  <2>1. /\ request'[s].mode \in {"idle", "forward"} /\ request'[s].phase = "begin"
        /\ request'[s].mode = "forward" => request'[s].step = Following[Step(s)]
    BY <1>b DEF Advance, Continue, Idle, TypeOK, RequestOK
  <2>2. Step(s) \in Steps
    BY <1>b, Working
  <2>3. \A x, y \in Steps : Following[x] = Following[y] => x = y
    OBVIOUS
  <2> QED
    BY <1>b, <2>1, <2>2, <2>3 DEF SagaInv, Tracked, Behind, Ordered
<1>c. ASSUME NEW s \in Sagas, request[s].mode # "idle", effects' = effects,
             NEW value, Set(s, value),
             value \in {"committed", "compensated"} => Step(s) \in effects[s]
      PROVE  Recorded(s)'
  BY <1>c, Working DEF SagaInv, Recorded, Set, TypeOK, StatusOK
<1>d. ASSUME NEW s \in Sagas, effects' = effects, status' = status PROVE Recorded(s)'
  BY <1>d DEF SagaInv, Recorded
<1>e. ASSUME NEW s \in Sagas, NEW phase, NEW ok, request[s].mode # "idle",
             Phase(s, phase, ok)
      PROVE  /\ request'[s].mode = request[s].mode /\ request'[s].step = Step(s)
             /\ request'[s].phase = phase /\ request'[s].ok = ok
  BY <1>e DEF Phase, Step, TypeOK, RequestOK
<1>1. ASSUME NEW s \in Sagas, Submit(s) PROVE IInv'
  <2>1. /\ request'[s].mode = "forward" /\ request'[s].phase = "begin"
        /\ request'[s].step = "deduct"
    BY <1>1 DEF Submit, Continue, TypeOK, RequestOK
  <2>2. SagaInv(s)'
    BY <1>1, <1>d, <2>1 DEF Submit, SagaInv, Tracked, Behind, Ordered
  <2> QED
    BY <1>1, <2>2, Frame DEF Submit, Continue, Others, TypeOK, RequestOK
<1>2. ASSUME NEW s \in Sagas, Skip(s) PROVE IInv'
  <2>1. SagaInv(s)'
    BY <1>2, <1>b, <1>d, Working DEF Skip, At, SagaInv, Recorded
  <2> QED
    BY <1>2, <2>1, Frame DEF Skip, Advance, Continue, Others, TypeOK, RequestOK
<1>3. ASSUME NEW s \in Sagas, Refuse(s) PROVE IInv'
  <2>1. SagaInv(s)'
    BY <1>3, <1>a, <1>d DEF Refuse, At
  <2> QED
    BY <1>3, <2>1, Frame DEF Refuse, Retreat, Continue, Others, TypeOK, RequestOK
<1>4. ASSUME NEW s \in Sagas, Enter(s) PROVE IInv'
  <2>1. Recorded(s)'
    BY <1>4, <1>c DEF Enter, At
  <2>2. request'[s].mode = "forward" /\ request'[s].phase = "call" /\ request'[s].step = Step(s)
    BY <1>4, <1>e DEF Enter, At
  <2>3. SagaInv(s)'
    BY <1>4, <2>1, <2>2 DEF Enter, At, Step, SagaInv, Tracked, Behind, Ordered
  <2> QED
    BY <1>4, <2>3, Frame DEF Enter, Phase, Set, Others, TypeOK, RequestOK, StatusOK
<1>f. ASSUME NEW s \in Sagas, request[s].mode # "idle", request[s].phase = "call",
             NEW op \in Operations, Answer(s, op),
             /\ request[s].mode = "forward" => op = Step(s)
             /\ request[s].mode = "undo" => op = Undo[Step(s)]
      PROVE  IInv'
  <2>1. PICK ok \in BOOLEAN : Phase(s, "save", ok) /\ (ok => op \in effects'[s])
    <3>1. PICK ok \in BOOLEAN :
            Phase(s, "save", ok) /\ (ok => effects' = [effects EXCEPT ![s] = @ \cup {op}])
      BY <1>f DEF Answer
    <3> QED
      BY <3>1 DEF TypeOK
  <2>2. effects' = effects \/ effects' = [effects EXCEPT ![s] = @ \cup {op}]
    BY <1>f DEF Answer
  <2>3. effects[s] \subseteq effects'[s] /\ effects'[s] \subseteq effects[s] \cup {op}
    BY <2>2 DEF TypeOK
  <2>4. Recorded(s)'
    BY <1>f, <2>3 DEF Answer, SagaInv, Recorded
  <2>5. request[s].mode \in {"forward", "undo"} /\ Step(s) \in Steps
    BY <1>f, Working DEF TypeOK, RequestOK, Request
  <2>6. Others(s)
    BY <1>f, <2>1, <2>2 DEF Answer, Others, Phase, TypeOK, RequestOK
  <2>7. CASE request[s].mode = "forward"
    <3>1. Ordered(s)'
      BY <1>f, <2>3, <2>5, <2>7 DEF SagaInv, Ordered, Tracked, Behind, Step
    <3>2. Tracked(s)'
      BY <1>e, <1>f, <2>1, <2>3, <2>7 DEF SagaInv, Tracked, Behind, Step
    <3> QED
      BY <2>4, <2>6, <3>1, <3>2, Frame DEF SagaInv
  <2>8. CASE request[s].mode = "undo"
    <3>1. Step(s) \in effects[s] /\ Step(s) \in DOMAIN Undo
      BY <1>f, <2>8, Working DEF SagaInv, Tracked, Step
    <3>2. Ordered(s)'
      BY <1>f, <2>3, <2>8, <3>1 DEF SagaInv, Ordered
    <3>3. Tracked(s)'
      BY <1>e, <1>f, <2>1, <2>3, <2>8, <3>1 DEF SagaInv, Tracked
    <3> QED
      BY <2>4, <2>6, <3>2, <3>3, Frame DEF SagaInv
  <2> QED
    BY <2>5, <2>7, <2>8
<1>5. ASSUME NEW s \in Sagas, CallPort(s) PROVE IInv'
  BY <1>5, <1>f, Working DEF CallPort, At
<1>6. ASSUME NEW s \in Sagas, SaveCommitted(s) PROVE IInv'
  <2>1. Step(s) \in effects[s]
    BY <1>6 DEF SaveCommitted, At, SagaInv, Tracked, Step
  <2>2. Recorded(s)'
    BY <1>6, <1>c, <2>1 DEF SaveCommitted, At
  <2>3. SagaInv(s)'
    BY <1>6, <1>b, <2>1, <2>2 DEF SaveCommitted, At
  <2> QED
    BY <1>6, <2>3, Frame
    DEF SaveCommitted, Advance, Continue, Set, Others, TypeOK, RequestOK, StatusOK
<1>7. ASSUME NEW s \in Sagas, SaveFailed(s) PROVE IInv'
  <2>1. Recorded(s)'
    BY <1>7, <1>c DEF SaveFailed, At
  <2>2. SagaInv(s)'
    BY <1>7, <1>a, <2>1 DEF SaveFailed, At
  <2> QED
    BY <1>7, <2>2, Frame
    DEF SaveFailed, Retreat, Continue, Set, Others, TypeOK, RequestOK, StatusOK
<1>8. ASSUME NEW s \in Sagas, BeginUndo(s) PROVE IInv'
  <2>1. CASE status[s][Step(s)] = "committed"
    <3>1. Step(s) \in effects[s]
      BY <1>8, <2>1, Working DEF BeginUndo, At, SagaInv, Recorded
    <3>2. SagaInv(s)'
      BY <1>8, <1>d, <1>e, <2>1, <3>1 DEF BeginUndo, At, Step, SagaInv, Tracked, Ordered
    <3> QED
      BY <1>8, <2>1, <3>2, Frame DEF BeginUndo, Phase, Others, TypeOK, RequestOK
  <2>2. CASE status[s][Step(s)] # "committed"
    <3>1. SagaInv(s)'
      BY <1>8, <1>a, <1>d, <2>2 DEF BeginUndo, At
    <3> QED
      BY <1>8, <2>2, <3>1, Frame DEF BeginUndo, Retreat, Continue, Others, TypeOK, RequestOK
  <2> QED
    BY <2>1, <2>2
<1>9. ASSUME NEW s \in Sagas, CallUndo(s) PROVE IInv'
  BY <1>9, <1>f, Working DEF CallUndo, At
<1>10. ASSUME NEW s \in Sagas, SaveUndone(s) PROVE IInv'
  <2>1. Recorded(s)'
    BY <1>10, <1>c DEF SaveUndone, At, SagaInv, Tracked, Step
  <2>2. SagaInv(s)'
    BY <1>10, <1>a, <2>1 DEF SaveUndone, At
  <2> QED
    BY <1>10, <2>2, Frame
    DEF SaveUndone, Retreat, Continue, Set, Others, TypeOK, RequestOK, StatusOK
<1>11. ASSUME NEW s \in Sagas, RepoError(s) PROVE IInv'
  <2>1. SagaInv(s)'
    BY <1>11, <1>a, <1>d DEF RepoError
  <2> QED
    BY <1>11, <2>1, Frame DEF RepoError, Retreat, Continue, Others, TypeOK, RequestOK
<1>12. ASSUME NEW s \in Sagas, Crash(s) PROVE IInv'
  <2>1. request'[s] = Idle
    BY <1>12 DEF Crash, TypeOK, RequestOK
  <2>2. SagaInv(s)'
    BY <1>12, <1>d, <2>1 DEF Crash, Idle, SagaInv, Tracked, Ordered
  <2> QED
    BY <1>12, <2>2, Frame DEF Crash, Others, TypeOK, RequestOK
<1>13. ASSUME NEW s \in Sagas, NEW x \in Steps, SweepEscalate(s, x) PROVE IInv'
  <2>1. SagaInv(s)'
    BY <1>13 DEF SweepEscalate, SagaInv, Tracked, Behind, Recorded, Ordered, TypeOK, StatusOK
  <2> QED
    BY <1>13, <2>1, Frame DEF SweepEscalate, Others, TypeOK, StatusOK
<1>14. CASE UNCHANGED vars
  BY <1>14 DEF vars, IInv, SagaInv, Tracked, Behind, Recorded, Ordered
<1> QED
  BY <1>1, <1>2, <1>3, <1>4, <1>5, <1>6, <1>7, <1>8, <1>9, <1>10, <1>11, <1>12,
     <1>13, <1>14 DEF Next, Proceed

-----------------------------------------------------------------------------
(* The theorems.                                                           *)

LEMMA InvInit == Init => IInv
  BY AllocateAssumption
  DEF Init, Idle, IInv, SagaInv, Tracked, Behind, Recorded, Ordered, TypeOK, StatusOK,
      RequestOK, Request, Step

\* The invariant holds in every behaviour.
LEMMA Invariance == Spec => []IInv
  BY InvInit, InvStep, PTL DEF Spec

\* The allocation's variables keep their shape, and compensations run only for
\* steps that have one (Run's error branches, service.go:125-159).
THEOREM TypeCorrect == Spec => []TypeOK
  BY Invariance, PTL DEF IInv

\* For any number of sagas, any capital and any faults: only what took effect is
\* taken back (Compensate in service.go:129-158).
THEOREM UndoBackedCorrect == Spec => []UndoBacked
<1>1. IInv => UndoBacked
  BY DEF IInv, SagaInv, Ordered, UndoBacked
<1> QED
  BY <1>1, Invariance, PTL

\* For any number of sagas, any capital and any faults: the steps of Run take
\* effect in their order, so a logged allocation was carried out in full.
THEOREM EffectsInOrderCorrect == Spec => []EffectsInOrder
<1>1. IInv => EffectsInOrder
  BY DEF IInv, SagaInv, Ordered, EffectsInOrder
<1> QED
  BY <1>1, Invariance, PTL

-----------------------------------------------------------------------------
(* A saga that nothing befell but one refused call keeps the promise of      *)
(* Transfer.  A second invariant says what its rows are worth.              *)

Spent(s) == trouble[s] = "refused"

Busy(s, x) == request[s].mode = "forward" /\ Step(s) = x /\ request[s].phase # "begin"

\* The rows say what took effect, but for the step a request is busy with,
RowsTrue(s) ==
  \A x \in Steps :
    /\ status[s][x] = "in_progress" => Busy(s, x)
    /\ Busy(s, x) => status[s][x] \in {"in_progress", "escalated"}
    /\ x \in effects[s] => \/ status[s][x] \in {"committed", "compensated"}
                           \/ Busy(s, x) /\ request[s].phase = "save" /\ request[s].ok
    /\ status[s][x] = "compensated" => x \in DOMAIN Undo /\ Undo[x] \in effects[s]

\* a step behind the charge fails only when the refusal is spent,
FailedOnce(s) ==
  \A x \in Steps \ {"deduct"} :
    /\ status[s][x] \in {"failed", "escalated"} => Spent(s) \/ Busy(s, x)
    /\ Busy(s, x) /\ request[s].phase = "save" /\ ~request[s].ok => Spent(s)

\* a request advances behind a charge that stands,
Advancing(s) ==
  request[s].mode = "forward" =>
    /\ Step(s) # "deduct" => status[s]["deduct"] = "committed"
    /\ request[s].phase # "begin" => status[s]["deduct"] # "compensated"

\* compensations succeed, in their order, and never behind a committed hold,
Undoing(s) ==
  request[s].mode = "undo" =>
    /\ Spent(s) /\ "commit" \notin effects[s] /\ status[s]["deduct"] = "committed"
    /\ Step(s) \in effects[s]
    /\ Step(s) \in {"hold", "deduct"} /\ "topup" \in effects[s] => "refundCustomer" \in effects[s]
    /\ request[s].phase = "save" => request[s].ok /\ Undo[Step(s)] \in effects[s]
Reversed(s) ==
  \A x \in DOMAIN Undo : Undo[x] \in effects[s] =>
    /\ "commit" \notin effects[s]
    /\ request[s].mode = "undo" \/ status[s]["deduct"] = "compensated"

\* and the charge is given back last.
Refunded(s) ==
  "refund" \in effects[s] =>
    /\ "topup" \in effects[s] => "refundCustomer" \in effects[s]
    /\ \/ status[s]["deduct"] = "compensated"
       \/ request[s].mode = "undo" /\ Step(s) = "deduct" /\ request[s].phase = "save"

Kept(s) ==
  RowsTrue(s) /\ FailedOnce(s) /\ Advancing(s) /\ Undoing(s) /\ Reversed(s) /\ Refunded(s)
KeptInv == IInv /\ \A s \in Sagas : trouble[s] # "more" => Kept(s)

\* The fields a step of s leaves in its request.
LEMMA Moves ==
  ASSUME TypeOK, NEW s \in Sagas, request[s].mode # "idle"
  PROVE  /\ Advance(s) =>
              /\ request'[s].step = Following[Step(s)] /\ request'[s].phase = "begin"
              /\ request'[s].mode = IF Following[Step(s)] = "end" THEN "idle" ELSE "forward"
         /\ Retreat(s) =>
              /\ request'[s].step = UndoFrom[Step(s)] /\ request'[s].phase = "begin"
              /\ request'[s].mode = IF UndoFrom[Step(s)] = "end" THEN "idle" ELSE "undo"
         /\ \A value : Set(s, value) =>
              \A x \in Steps : status'[s][x] = IF x = Step(s) THEN value ELSE status[s][x]
         /\ Step(s) \in Steps /\ request[s].mode \in {"forward", "undo"}
<1>1. Step(s) \in Steps /\ request[s].mode \in {"forward", "undo"}
  BY Working DEF TypeOK, RequestOK, Request
<1>2. Idle.step = "end" /\ Idle.phase = "begin" /\ Idle.mode = "idle"
  BY DEF Idle
<1>3. \A mode, x : Continue(s, mode, x) =>
        /\ request'[s].step = x /\ request'[s].phase = "begin"
        /\ request'[s].mode = IF x = "end" THEN "idle" ELSE mode
  BY <1>2 DEF Continue, TypeOK, RequestOK
<1>5. \A value : Set(s, value) =>
        \A x \in Steps : status'[s][x] = IF x = Step(s) THEN value ELSE status[s][x]
  BY <1>1 DEF Set, TypeOK, StatusOK
<1> QED
  BY <1>1, <1>3, <1>5 DEF Advance, Retreat

\* A request that stays at its step keeps the fields not named.
LEMMA PhaseMoves ==
  ASSUME TypeOK, NEW s \in Sagas, NEW phase, NEW ok \in BOOLEAN, Phase(s, phase, ok)
  PROVE  /\ request'[s].step = Step(s) /\ request'[s].phase = phase
         /\ request'[s].mode = request[s].mode /\ request'[s].ok = ok
BY DEF Phase, Step, TypeOK, RequestOK

\* What has befallen the other sagas stays, and nothing is forgotten.
Spared(s) ==
  /\ \A t \in Sagas \ {s} : trouble'[t] = trouble[t]
  /\ trouble[s] = "more" => trouble'[s] = "more"
  /\ trouble[s] = "refused" => trouble'[s] # "none"

\* A step of s does not disturb what holds of the other sagas.
LEMMA KeptFrame ==
  ASSUME KeptInv, IInv', NEW s \in Sagas, Others(s), Spared(s), trouble'[s] # "more" => Kept(s)'
  PROVE  KeptInv'
<1>1. ASSUME NEW t \in Sagas, trouble'[t] # "more" PROVE Kept(t)'
  <2>1. CASE t = s
    BY <1>1, <2>1
  <2>2. CASE t # s
    <3>1. /\ request'[t] = request[t] /\ status'[t] = status[t] /\ effects'[t] = effects[t]
          /\ trouble'[t] = trouble[t]
      BY <2>2 DEF Others, Spared
    <3>2. /\ RowsTrue(t) /\ FailedOnce(t) /\ Advancing(t) /\ Undoing(t)
          /\ Reversed(t) /\ Refunded(t)
      BY <1>1, <3>1 DEF KeptInv, Kept
    <3>3. RowsTrue(t)' /\ FailedOnce(t)' /\ Advancing(t)'
      BY <3>1, <3>2 DEF RowsTrue, FailedOnce, Advancing, Busy, Spent, Step
    <3>4. Undoing(t)' /\ Reversed(t)' /\ Refunded(t)'
      BY <3>1, <3>2 DEF Undoing, Reversed, Refunded, Spent, Step
    <3> QED
      BY <3>3, <3>4 DEF Kept
  <2> QED
    BY <2>1, <2>2
<1> QED
  BY <1>1 DEF KeptInv

LEMMA SpentSpares ==
  ASSUME TypeOK, NEW s \in Sagas
  PROVE  /\ Calm => Spared(s) /\ trouble'[s] = trouble[s]
         /\ \A kind : Spend(s, kind) =>
              /\ Spared(s)
              /\ trouble'[s] = IF kind = "failure" /\ trouble[s] = "none" THEN "refused" ELSE "more"
  BY DEF TypeOK, Calm, Spend, Spared

\* What every step of a request leaves alone.
LEMMA StepFrame ==
  ASSUME IInv, NEW s \in Sagas, Submit(s) \/ Proceed(s)
  PROVE  Others(s) /\ Spared(s)
<1>0. TypeOK
  BY DEF IInv
<1> USE <1>0
<1>1. ASSUME NEW op \in Operations, Answer(s, op)
      PROVE  Others(s) /\ Spared(s)
  <2>1. /\ effects' = effects \/ effects' = [effects EXCEPT ![s] = @ \cup {op}]
        /\ \E ok \in BOOLEAN : Phase(s, "save", ok)
        /\ status' = status
        /\ Calm \/ \E kind : Spend(s, kind)
    BY <1>1 DEF Answer
  <2>2. Spared(s)
    BY <2>1, SpentSpares
  <2> QED
    BY <2>1, <2>2 DEF Others, Phase, TypeOK, RequestOK
<1>2. CASE CallPort(s) \/ CallUndo(s)
  <2>1. PICK op \in Operations : Answer(s, op)
    BY <1>2, Working DEF CallPort, CallUndo, At
  <2> QED
    BY <1>1, <2>1
<1>3. CASE ~(CallPort(s) \/ CallUndo(s))
  <2>1. /\ Calm
        /\ \E mode, x : Continue(s, mode, x) \/ \E phase, ok : Phase(s, phase, ok)
        /\ status' = status \/ \E value : Set(s, value)
        /\ effects' = effects
    BY <1>3 DEF Submit, Proceed, Skip, Refuse, Enter, SaveCommitted, SaveFailed, BeginUndo,
                SaveUndone, Advance, Retreat
  <2>2. \A t \in Sagas \ {s} : request'[t] = request[t]
    BY <2>1 DEF Continue, Phase, TypeOK, RequestOK
  <2>3. \A t \in Sagas \ {s} : status'[t] = status[t]
    BY <2>1 DEF Set, TypeOK, StatusOK
  <2> QED
    BY <2>1, <2>2, <2>3, SpentSpares DEF Others
<1> QED
  BY <1>2, <1>3

\* The steps of a request.
LEMMA KeptStep ==
  ASSUME KeptInv, IInv', NEW s \in Sagas, Submit(s) \/ Proceed(s)
  PROVE  KeptInv'
<1>b. Others(s) /\ Spared(s)
  BY StepFrame DEF KeptInv
<1> SUFFICES ASSUME trouble'[s] # "more" PROVE Kept(s)'
  BY <1>b, KeptFrame
<1>0. TypeOK /\ SagaInv(s) /\ Kept(s) /\ (Spent(s) => Spent(s)')
  <2>1. trouble[s] # "more"
    BY <1>b DEF Spared
  <2>2. TypeOK /\ TypeOK' /\ SagaInv(s)
    BY DEF KeptInv, IInv
  <2>3. Spent(s) => Spent(s)'
    BY <1>b, <2>2 DEF Spared, Spent, TypeOK
  <2> QED
    BY <2>1, <2>2, <2>3 DEF KeptInv
<1>a. /\ RowsTrue(s) /\ FailedOnce(s) /\ Advancing(s) /\ Undoing(s) /\ Reversed(s) /\ Refunded(s)
      /\ Tracked(s) /\ Recorded(s) /\ Ordered(s)
  BY <1>0 DEF Kept, SagaInv
<1> USE <1>0
<1>1. CASE Submit(s)
  <2>1. /\ request'[s].mode = "forward" /\ request'[s].phase = "begin"
        /\ request'[s].step = "deduct" /\ UNCHANGED <<status, effects, trouble>>
        /\ request[s].mode = "idle"
    BY <1>1 DEF Submit, Calm, Continue, TypeOK, RequestOK
  <2>2. RowsTrue(s)' /\ FailedOnce(s)' /\ Advancing(s)' /\ Undoing(s)'
    BY <1>a, <2>1 DEF RowsTrue, FailedOnce, Advancing, Undoing, Busy, Spent, Step
  <2>3. Reversed(s)' /\ Refunded(s)'
    BY <1>a, <2>1 DEF Reversed, Refunded
  <2> QED
    BY <2>2, <2>3 DEF Kept
<1>2. CASE Skip(s)
  <2>1. /\ request[s].mode = "forward" /\ request[s].phase = "begin" /\ status[s][Step(s)] = "committed"
        /\ request'[s].step = Following[Step(s)] /\ request'[s].phase = "begin"
        /\ request'[s].mode \in {"idle", "forward"}
        /\ UNCHANGED <<status, effects, trouble>> /\ Step(s) \in Steps
    BY <1>2, Moves DEF Skip, Calm, At
  <2>2. RowsTrue(s)' /\ FailedOnce(s)' /\ Undoing(s)'
    BY <1>a, <2>1 DEF RowsTrue, FailedOnce, Undoing, Busy, Spent, Step
  <2>3. Advancing(s)'
    BY <1>a, <2>1 DEF Advancing, Step
  <2>4. Reversed(s)' /\ Refunded(s)'
    BY <1>a, <2>1 DEF Reversed, Refunded
  <2> QED
    BY <2>2, <2>3, <2>4 DEF Kept
<1>3. CASE Refuse(s)
  <2>1. /\ request[s].mode = "forward" /\ request[s].phase = "begin"
        /\ status[s][Step(s)] \in {"escalated", "compensated"}
        /\ request'[s].step = UndoFrom[Step(s)] /\ request'[s].phase = "begin"
        /\ request'[s].mode = IF UndoFrom[Step(s)] = "end" THEN "idle" ELSE "undo"
        /\ UNCHANGED <<status, effects, trouble>> /\ Step(s) \in Steps
    BY <1>3, Moves DEF Refuse, Calm, At
  <2>2. RowsTrue(s)' /\ FailedOnce(s)' /\ Advancing(s)'
    BY <1>a, <2>1 DEF RowsTrue, FailedOnce, Advancing, Busy, Spent, Step
  <2>3. Reversed(s)' /\ Refunded(s)'
    BY <1>a, <2>1 DEF Reversed, Refunded
  <2>4. Undoing(s)'
    <3>1. CASE Step(s) \in {"hold", "topup", "commit"}
      <4>1. status[s]["deduct"] = "committed" /\ \A x \in DOMAIN Undo : Undo[x] \notin effects[s]
        BY <1>a, <2>1, <3>1 DEF Advancing, Reversed
      <4>2. status[s][Step(s)] = "escalated"
        BY <1>a, <2>1, <3>1, <4>1 DEF RowsTrue
      <4>3. Spent(s) /\ Step(s) \notin effects[s]
        BY <1>a, <2>1, <3>1, <4>2 DEF RowsTrue, FailedOnce, Busy
      <4>4. "commit" \notin effects[s] /\ UndoFrom[Step(s)] \in effects[s]
        BY <1>a, <2>1, <3>1, <4>3 DEF Tracked, Behind, Ordered, Step
      <4>5. UndoFrom[Step(s)] \in {"hold", "deduct"} => "topup" \notin effects[s]
        BY <1>a, <3>1, <4>3 DEF Ordered
      <4> QED
        BY <2>1, <4>1, <4>3, <4>4, <4>5 DEF Undoing, Spent, Step
    <3>2. CASE Step(s) \in {"deduct", "log"}
      BY <2>1, <3>2 DEF Undoing
    <3> QED
      BY <2>1, <3>1, <3>2
  <2> QED
    BY <2>2, <2>3, <2>4 DEF Kept
<1>4. CASE Enter(s)
  <2>1. /\ request[s].mode = "forward" /\ request[s].phase = "begin"
        /\ status[s][Step(s)] \in {"none", "in_progress", "failed"}
        /\ request'[s].step = Step(s) /\ request'[s].phase = "call" /\ request'[s].mode = "forward"
        /\ UNCHANGED <<effects, trouble>> /\ Step(s) \in Steps
        /\ \A x \in Steps : status'[s][x] = IF x = Step(s) THEN "in_progress" ELSE status[s][x]
    <3>1. Phase(s, "call", TRUE) /\ Set(s, "in_progress")
      BY <1>4 DEF Enter, Calm
    <3>2. request[s].mode = "forward" /\ request[s].phase = "begin" /\ UNCHANGED <<effects, trouble>>
          /\ status[s][Step(s)] \in {"none", "in_progress", "failed"}
      BY <1>4 DEF Enter, Calm, At
    <3>3. /\ Step(s) \in Steps
          /\ \A x \in Steps : status'[s][x] = IF x = Step(s) THEN "in_progress" ELSE status[s][x]
      BY <3>1, <3>2, Moves
    <3>4. request'[s].step = Step(s) /\ request'[s].phase = "call" /\ request'[s].mode = request[s].mode
      BY <3>1, PhaseMoves
    <3> QED
      BY <3>2, <3>3, <3>4
  <2>2. Step(s) \notin effects[s]
    BY <1>a, <2>1 DEF RowsTrue, Busy
  <2>3. RowsTrue(s)'
    BY <1>a, <2>1, <2>2 DEF RowsTrue, Busy, Step
  <2>4. FailedOnce(s)' /\ Advancing(s)' /\ Undoing(s)'
    BY <1>a, <2>1 DEF FailedOnce, Advancing, Undoing, Busy, Spent, Step
  <2>5. Reversed(s)' /\ Refunded(s)'
    BY <1>a, <2>1 DEF Reversed, Refunded, Advancing, Step
  <2> QED
    BY <2>3, <2>4, <2>5 DEF Kept
<1>5. CASE CallPort(s)
  <2>1. PICK x \in Steps : x = Step(s)
    BY <1>5, Moves DEF CallPort, At
  <2>2. PICK ok \in BOOLEAN :
          /\ Phase(s, "save", ok) /\ status' = status
          /\ \/ ok /\ Feasible(s, x) /\ effects' = [effects EXCEPT ![s] = @ \cup {x}]
             \/ /\ ~ok /\ effects' = effects
                /\ Feasible(s, x) => trouble'[s] = "refused"
    <3>1. ~Spend(s, "unknown") /\ (Spend(s, "failure") => trouble'[s] = "refused")
      BY SpentSpares
    <3>2. Answer(s, x)
      BY <1>5, <2>1 DEF CallPort
    <3>3. CASE Feasible(s, x) /\ effects' = [effects EXCEPT ![s] = @ \cup {x}] /\ Phase(s, "save", TRUE)
      BY <3>2, <3>3 DEF Answer
    <3>4. CASE /\ Phase(s, "save", FALSE) /\ effects' = effects
               /\ Feasible(s, x) => Spend(s, "failure")
      BY <3>1, <3>2, <3>4 DEF Answer
    <3> QED
      BY <3>1, <3>2, <3>3, <3>4 DEF Answer
  <2>3. /\ request[s].mode = "forward" /\ request[s].phase = "call"
        /\ request'[s].step = x /\ request'[s].phase = "save" /\ request'[s].mode = "forward"
        /\ request'[s].ok = ok
        /\ effects'[s] = IF ok THEN effects[s] \cup {x} ELSE effects[s]
    <3>1. effects'[s] = IF ok THEN effects[s] \cup {x} ELSE effects[s]
      BY <2>2 DEF TypeOK
    <3> QED
      BY <1>5, <2>1, <2>2, <3>1, PhaseMoves DEF CallPort, At
  <2>4. \A y \in DOMAIN Undo : Undo[y] \notin effects[s]
    BY <1>a, <2>3 DEF Reversed, Advancing
  <2>5. RowsTrue(s)'
    BY <1>a, <2>1, <2>2, <2>3 DEF RowsTrue, Busy, Step
  <2>6. FailedOnce(s)'
    <3>1. x # "deduct" /\ ~ok => Spent(s)'
      BY <2>2, <2>4 DEF Feasible, Spent
    <3> QED
      BY <1>a, <1>b, <2>1, <2>2, <2>3, <3>1 DEF FailedOnce, Busy, Step
  <2>7. Advancing(s)' /\ Undoing(s)'
    BY <1>a, <2>1, <2>2, <2>3 DEF Advancing, Undoing, Step
  <2>8. Reversed(s)' /\ Refunded(s)'
    BY <2>3, <2>4 DEF Reversed, Refunded
  <2> QED
    BY <2>5, <2>6, <2>7, <2>8 DEF Kept
<1>6. CASE SaveCommitted(s)
  <2>1. /\ request[s].mode = "forward" /\ request[s].phase = "save" /\ request[s].ok
        /\ request'[s].step = Following[Step(s)] /\ request'[s].phase = "begin"
        /\ request'[s].mode \in {"idle", "forward"}
        /\ UNCHANGED <<effects, trouble>> /\ Step(s) \in Steps
        /\ \A x \in Steps : status'[s][x] = IF x = Step(s) THEN "committed" ELSE status[s][x]
    BY <1>6, Moves DEF SaveCommitted, Calm, At
  <2>2. RowsTrue(s)'
    BY <1>a, <2>1 DEF RowsTrue, Busy, Step
  <2>3. FailedOnce(s)' /\ Undoing(s)'
    BY <1>a, <2>1 DEF FailedOnce, Undoing, Busy, Spent, Step
  <2>4. Advancing(s)'
    BY <1>a, <2>1 DEF Advancing, Step
  <2>5. Reversed(s)' /\ Refunded(s)'
    BY <1>a, <2>1 DEF Reversed, Refunded, Advancing, Step
  <2> QED
    BY <2>2, <2>3, <2>4, <2>5 DEF Kept
<1>7. CASE SaveFailed(s)
  <2>1. PICK value \in {"failed", "escalated"} : Set(s, value) /\ Retreat(s)
    BY <1>7 DEF SaveFailed, Calm
  <2>2. /\ request[s].mode = "forward" /\ request[s].phase = "save" /\ ~request[s].ok
        /\ request'[s].step = UndoFrom[Step(s)] /\ request'[s].phase = "begin"
        /\ request'[s].mode = IF UndoFrom[Step(s)] = "end" THEN "idle" ELSE "undo"
        /\ UNCHANGED <<effects, trouble>> /\ Step(s) \in Steps
        /\ \A x \in Steps : status'[s][x] = IF x = Step(s) THEN value ELSE status[s][x]
    BY <1>7, <2>1, Moves DEF SaveFailed, Calm, At
  <2>3. Step(s) \notin effects[s] /\ \A x \in DOMAIN Undo : Undo[x] \notin effects[s]
    <3>1. status[s]["deduct"] # "compensated"
      BY <1>a, <2>2 DEF Advancing
    <3>2. \A x \in DOMAIN Undo : Undo[x] \notin effects[s]
      BY <1>a, <2>2, <3>1 DEF Reversed
    <3> QED
      BY <1>a, <2>2, <3>2 DEF RowsTrue, Busy
  <2>4. RowsTrue(s)' /\ FailedOnce(s)' /\ Advancing(s)'
    BY <1>a, <2>2, <2>3 DEF RowsTrue, FailedOnce, Advancing, Busy, Spent, Step
  <2>5. Undoing(s)'
    <3>1. CASE Step(s) \in {"hold", "topup", "commit"}
      <4>1. status'[s]["deduct"] = "committed" /\ Spent(s)
        BY <1>a, <2>2, <3>1 DEF Advancing, FailedOnce, Busy
      <4>2. "commit" \notin effects[s] /\ UndoFrom[Step(s)] \in effects[s]
        BY <1>a, <2>2, <2>3, <3>1 DEF Tracked, Behind, Ordered, Step
      <4>3. UndoFrom[Step(s)] \in {"hold", "deduct"} => "topup" \notin effects[s]
        BY <1>a, <2>3, <3>1 DEF Ordered
      <4> QED
        BY <2>2, <4>1, <4>2, <4>3 DEF Undoing, Spent, Step
    <3>2. CASE Step(s) \in {"deduct", "log"}
      BY <2>2, <3>2 DEF Undoing
    <3> QED
      BY <2>2, <3>1, <3>2
  <2>6. Reversed(s)' /\ Refunded(s)'
    BY <2>2, <2>3 DEF Reversed, Refunded
  <2> QED
    BY <2>4, <2>5, <2>6 DEF Kept
<1>8. CASE BeginUndo(s)
  <2>0. /\ request[s].mode = "undo" /\ request[s].phase = "begin" /\ UNCHANGED <<status, effects, trouble>>
        /\ Step(s) \in DOMAIN Undo
    BY <1>8, Working DEF BeginUndo, Calm, At
  <2>1. CASE status[s][Step(s)] = "committed"
    <3>1. /\ request'[s].step = Step(s) /\ request'[s].phase = "call" /\ request'[s].mode = "undo"
      <4>1. Phase(s, "call", TRUE)
        BY <1>8, <2>1 DEF BeginUndo, Calm
      <4> QED
        BY <2>0, <4>1, PhaseMoves
    <3>2. RowsTrue(s)' /\ FailedOnce(s)' /\ Advancing(s)'
      BY <1>a, <2>0, <3>1 DEF RowsTrue, FailedOnce, Advancing, Busy, Spent, Step
    <3>3. Undoing(s)' /\ Reversed(s)' /\ Refunded(s)'
      BY <1>a, <2>0, <3>1 DEF Undoing, Reversed, Refunded, Spent, Step
    <3> QED
      BY <3>2, <3>3 DEF Kept
  <2>2. CASE status[s][Step(s)] # "committed"
    <3>1. /\ request'[s].step = UndoFrom[Step(s)] /\ request'[s].phase = "begin"
          /\ request'[s].mode = IF UndoFrom[Step(s)] = "end" THEN "idle" ELSE "undo"
      BY <1>8, <2>0, <2>2, Moves DEF BeginUndo, Calm
    <3>2. Step(s) # "deduct" /\ Undo[Step(s)] \in effects[s]
      BY <1>a, <2>0, <2>2 DEF Undoing, RowsTrue, Busy
    <3>3. RowsTrue(s)' /\ FailedOnce(s)' /\ Advancing(s)'
      BY <1>a, <2>0, <3>1, <3>2 DEF RowsTrue, FailedOnce, Advancing, Busy, Spent, Step
    <3>4. Undoing(s)' /\ Reversed(s)' /\ Refunded(s)'
      BY <1>a, <2>0, <3>1, <3>2 DEF Undoing, Reversed, Refunded, Ordered, Spent, Step
    <3> QED
      BY <3>3, <3>4 DEF Kept
  <2> QED
    BY <2>1, <2>2
<1>9. CASE CallUndo(s)
  <2>1. PICK x \in DOMAIN Undo : x = Step(s)
    BY <1>9, Working DEF CallUndo, At
  <2>2. /\ request[s].mode = "undo" /\ request[s].phase = "call" /\ status' = status /\ Spent(s)
        /\ "commit" \notin effects[s] /\ x \in effects[s]
    BY <1>9, <1>a, <2>1 DEF CallUndo, At, Answer, Undoing
  <2>3. Feasible(s, Undo[x])
    BY <2>2 DEF Feasible
  <2>4. Phase(s, "save", TRUE) /\ effects' = [effects EXCEPT ![s] = @ \cup {Undo[x]}]
    <3>1. ~Spend(s, "unknown") /\ ~Spend(s, "failure")
      BY <2>2, SpentSpares DEF Spent
    <3>2. Answer(s, Undo[x])
      BY <1>9, <2>1 DEF CallUndo
    <3> QED
      BY <2>3, <3>1, <3>2 DEF Answer
  <2>5. /\ request'[s].step = x /\ request'[s].phase = "save" /\ request'[s].mode = "undo"
        /\ request'[s].ok /\ effects'[s] = effects[s] \cup {Undo[x]}
    <3>1. effects'[s] = effects[s] \cup {Undo[x]}
      BY <2>4 DEF TypeOK
    <3> QED
      BY <2>1, <2>2, <2>4, <3>1, PhaseMoves
  <2>6. RowsTrue(s)' /\ FailedOnce(s)' /\ Advancing(s)'
    BY <1>a, <1>b, <2>1, <2>2, <2>5 DEF RowsTrue, FailedOnce, Advancing, Busy, Step
  <2>7. Undoing(s)'
    BY <1>a, <1>b, <2>1, <2>2, <2>5 DEF Undoing, Step
  <2>8. Reversed(s)' /\ Refunded(s)'
    BY <1>a, <2>1, <2>2, <2>5 DEF Reversed, Refunded, Undoing, Step
  <2> QED
    BY <2>6, <2>7, <2>8 DEF Kept
<1>10. CASE SaveUndone(s)
  <2>1. /\ request[s].mode = "undo" /\ request[s].phase = "save" /\ Step(s) \in DOMAIN Undo
        /\ request[s].ok /\ Undo[Step(s)] \in effects[s]
        /\ request'[s].step = UndoFrom[Step(s)] /\ request'[s].phase = "begin"
        /\ request'[s].mode = IF UndoFrom[Step(s)] = "end" THEN "idle" ELSE "undo"
        /\ UNCHANGED <<effects, trouble>>
    BY <1>10, <1>a, Moves, Working DEF SaveUndone, Calm, At, Undoing
  <2>2. \A x \in Steps : status'[s][x] = IF x = Step(s) THEN "compensated" ELSE status[s][x]
    BY <1>10, <2>1, Moves DEF SaveUndone, Calm
  <2>3. RowsTrue(s)'
    BY <1>a, <2>1, <2>2 DEF RowsTrue, Busy, Step
  <2>4. FailedOnce(s)' /\ Advancing(s)'
    BY <1>a, <2>1, <2>2 DEF FailedOnce, Advancing, Busy, Spent, Step
  <2>5. Undoing(s)'
    BY <1>a, <2>1, <2>2 DEF Undoing, Ordered, Spent, Step
  <2>6. Reversed(s)' /\ Refunded(s)'
    BY <1>a, <2>1, <2>2 DEF Reversed, Refunded, Undoing, Step
  <2> QED
    BY <2>3, <2>4, <2>5, <2>6 DEF Kept
<1> QED
  BY <1>1, <1>2, <1>3, <1>4, <1>5, <1>6, <1>7, <1>8, <1>9, <1>10 DEF Proceed

\* A row is escalated only behind the refused call, or late: then it is more.
LEMMA KeptEscalate ==
  ASSUME KeptInv, IInv', NEW s \in Sagas, NEW x \in Steps, SweepEscalate(s, x)
  PROVE  KeptInv'
<1>0. TypeOK
  BY DEF KeptInv, IInv
<1>1. /\ UNCHANGED <<request, effects>>
      /\ trouble'[s] # "more" => /\ trouble'[s] = trouble[s]
                                 /\ status[s][x] \notin {"committed", "compensated"}
      /\ \A y \in Steps : status'[s][y] = IF y = x THEN "escalated" ELSE status[s][y]
  BY <1>0, SpentSpares DEF SweepEscalate, TypeOK, StatusOK
<1>2. Others(s) /\ Spared(s)
  BY <1>0, SpentSpares DEF SweepEscalate, Others, TypeOK, StatusOK
<1>3. ASSUME trouble'[s] # "more" PROVE Kept(s)'
  <2>0. Kept(s) /\ status[s][x] \in {"in_progress", "failed", "escalated"}
    BY <1>0, <1>1, <1>3 DEF KeptInv, SweepEscalate, TypeOK, StatusOK
  <2>1. x \notin effects[s] \/ Busy(s, x)
    BY <2>0 DEF Kept, RowsTrue
  <2>2. RowsTrue(s)' /\ FailedOnce(s)'
    BY <1>1, <1>3, <2>0, <2>1 DEF Kept, RowsTrue, FailedOnce, Busy, Spent, Step
  <2>3. Advancing(s)' /\ Undoing(s)' /\ Reversed(s)' /\ Refunded(s)'
    BY <1>1, <1>3, <2>0 DEF Kept, Advancing, Undoing, Reversed, Refunded, Spent, Step
  <2> QED
    BY <2>2, <2>3 DEF Kept
<1> QED
  BY <1>2, <1>3, KeptFrame

\* A repository error or a crash is more than a refused call.
LEMMA KeptTrouble ==
  ASSUME KeptInv, IInv', NEW s \in Sagas, RepoError(s) \/ Crash(s)
  PROVE  KeptInv'
<1>0. TypeOK
  BY DEF KeptInv, IInv
<1>1. Spared(s) /\ trouble'[s] = "more"
  BY <1>0, SpentSpares DEF RepoError, Crash
<1>2. Others(s)
  BY <1>0 DEF RepoError, Crash, Retreat, Continue, Others, TypeOK, RequestOK
<1> QED
  BY <1>1, <1>2, KeptFrame

\* Every step keeps the second invariant.
LEMMA KeptInductive ==
  ASSUME KeptInv, [Next]_vars
  PROVE  KeptInv'
<1>1. IInv'
  BY InvStep DEF KeptInv
<1>2. CASE UNCHANGED vars
  BY <1>1, <1>2 DEF vars, KeptInv, Kept, RowsTrue, FailedOnce, Advancing, Undoing, Reversed,
                    Refunded, Busy, Spent, Step
<1> QED
  BY <1>1, <1>2, KeptStep, KeptEscalate, KeptTrouble DEF Next

\* The second invariant holds of sagas not begun.
LEMMA KeptInitially == Init => KeptInv
<1> SUFFICES ASSUME Init PROVE KeptInv
  OBVIOUS
<1>1. IInv
  BY InvInit
<1>2. \A s \in Sagas : /\ request[s].mode = "idle" /\ effects[s] = {}
                       /\ \A x \in Steps : status[s][x] = "none"
  BY DEF Init, Idle
<1> QED
  BY <1>1, <1>2 DEF KeptInv, Kept, RowsTrue, FailedOnce, Advancing, Undoing, Reversed, Refunded, Busy

\* An allocation whose log was written stays charged, credited and committed,
\* unless more befell it than one refused call; for any sagas, capital, faults,
\* escalations and resubmissions ("committed step 自动跳过", service.go:100).
THEOREM BookedStaysCorrect == Spec => []BookedStays
<1>1. KeptInv => BookedStays
  <2> SUFFICES ASSUME KeptInv, NEW s \in Sagas, trouble[s] # "more", status[s]["log"] = "committed"
               PROVE  Charged(s) /\ Credited(s) /\ "commit" \in effects[s]
    BY DEF BookedStays
  <2>1. Recorded(s) /\ Ordered(s) /\ Reversed(s)
    BY DEF KeptInv, IInv, SagaInv, Kept
  <2>2. {"deduct", "hold", "topup", "commit", "log"} \subseteq effects[s]
    BY <2>1 DEF Recorded, Ordered
  <2>3. \A x \in DOMAIN Undo : Undo[x] \notin effects[s]
    BY <2>1, <2>2 DEF Reversed
  <2> QED
    BY <2>2, <2>3 DEF Charged, Credited
<1> QED
  BY <1>1, KeptInitially, KeptInductive, PTL DEF Spec

\* What a saga has taken effect of, and the transfer it stands for.
LEMMA TransferShape ==
  ASSUME KeptInv, NEW s \in Sagas
  PROVE  /\ trouble[s] = "more" <=> TransferOf(s) = "excused"
         /\ trouble[s] # "more" =>
              /\ "deduct" \notin effects[s] => TransferOf(s) = "none"
              /\ Charged(s) => TransferOf(s) = IF Credited(s) THEN "credited" ELSE "charged"
              /\ "refund" \in effects[s] => TransferOf(s) = "void"
              /\ Credited(s) => Charged(s)
         /\ TransferOf(s) \in {"charged", "credited"} => Charged(s)
<1>1. CASE trouble[s] = "more"
  BY <1>1 DEF TransferOf
<1>2. CASE trouble[s] # "more"
  <2>1. Ordered(s) /\ Refunded(s)
    BY <1>2 DEF KeptInv, IInv, SagaInv, Kept
  <2>2. /\ "refund" \in effects[s] => "deduct" \in effects[s] /\ ~Credited(s)
        /\ Credited(s) => "deduct" \in effects[s]
    BY <2>1 DEF Ordered, Refunded, Credited
  <2> QED
    BY <1>2, <2>2 DEF TransferOf, Charged
<1> QED
  BY <1>1, <1>2

\* Transfer counts as Allocate does.
LEMMA SameCount == ASSUME NEW S PROVE Promise!Cardinality(S) = Cardinality(S)
BY DEF Promise!Cardinality, Cardinality

\* One operation of one saga is a step of Transfer, or none.
LEMMA EffectMoves ==
  ASSUME KeptInv, KeptInv', IsFiniteSet(Sagas), NEW s \in Sagas, NEW op \in Operations,
         Feasible(s, op), effects' = [effects EXCEPT ![s] = @ \cup {op}],
         Spared(s), trouble'[s] # "more"
  PROVE  [Promise!Next]_([t \in Sagas |-> TransferOf(t)])
<1> DEFINE old == [t \in Sagas |-> TransferOf(t)]
           new == [t \in Sagas |-> TransferOf(t)']
<1>1. TypeOK /\ effects'[s] = effects[s] \cup {op}
  BY DEF KeptInv, IInv, TypeOK
<1>2. \A t \in Sagas \ {s} : effects'[t] = effects[t] /\ trouble'[t] = trouble[t]
  BY <1>1 DEF TypeOK, Spared
<1>3. \A t \in Sagas \ {s} : TransferOf(t)' = TransferOf(t)
  BY <1>2 DEF TransferOf, Charged, Credited
<1>4. new = [old EXCEPT ![s] = TransferOf(s)']
  BY <1>3
<1>5. CASE op \in effects[s]
  <2>1. TransferOf(s)' = TransferOf(s)
    BY <1>1, <1>5 DEF Spared, TransferOf, Charged, Credited
  <2> QED
    BY <1>3, <2>1
<1>6. CASE op \notin effects[s]
  <2>1. Ordered(s) /\ Ordered(s)' /\ Refunded(s)' /\ trouble[s] # "more"
    BY DEF KeptInv, IInv, SagaInv, Kept, Spared
  <2>2. CASE op = "deduct"
    <3>1. "refund" \notin effects'[s] /\ ~Credited(s)' /\ "deduct" \in effects'[s]
      BY <1>1, <1>6, <2>1, <2>2 DEF Ordered, Credited
    <3>2. old[s] = "none" /\ new[s] = "charged"
      BY <1>6, <2>1, <2>2, <3>1, TransferShape DEF TransferOf, Charged
    <3>3. Balance > 0
      BY <1>6, <2>2 DEF Feasible
    <3>4. {t \in Sagas : old[t] \in {"charged", "credited"}} \subseteq {t \in Sagas : Charged(t)}
      BY TransferShape
    <3>5. /\ Cardinality({t \in Sagas : Charged(t)}) \in Nat
          /\ Cardinality({t \in Sagas : old[t] \in {"charged", "credited"}}) \in Nat
          /\ Cardinality({t \in Sagas : old[t] \in {"charged", "credited"}})
               <= Cardinality({t \in Sagas : Charged(t)})
      <4>1. IsFiniteSet({t \in Sagas : Charged(t)})
        BY FS_Subset
      <4> QED
        BY <3>4, <4>1, FS_Subset, FS_CardinalityType
    <3>6. PICK n \in Nat, k \in Nat :
            /\ n = Cardinality({t \in Sagas : Charged(t)})
            /\ k = Cardinality({t \in Sagas : old[t] \in {"charged", "credited"}})
      BY <3>5
    <3>7. Capital \in Nat /\ Capital - n > 0 /\ k <= n
      BY <3>3, <3>5, <3>6, AllocateAssumption DEF Balance
    <3>8. Promise!Spent = k
      BY <3>6, SameCount DEF Promise!Spent
    <3>9. Promise!Spent < Capital
      BY <3>7, <3>8
    <3> QED
      BY <1>4, <3>2, <3>9 DEF Promise!Next, Promise!Charge, Promise!Move
  <2>3. CASE op = "topup"
    <3>1. "deduct" \in effects'[s] /\ "refundCustomer" \notin effects'[s] /\ "refund" \notin effects'[s]
      BY <1>1, <1>6, <2>1, <2>3 DEF Ordered, Refunded
    <3>2. old[s] = "charged" /\ new[s] = "credited"
      BY <1>1, <1>6, <2>1, <2>3, <3>1 DEF TransferOf, Charged, Credited
    <3> QED
      BY <1>4, <3>2 DEF Promise!Next, Promise!Credit, Promise!Move
  <2>4. CASE op = "refundCustomer"
    <3>1. Credited(s) /\ Charged(s)
      BY <1>1, <1>6, <2>1, <2>4, TransferShape DEF Ordered, Credited
    <3>2. old[s] = "credited" /\ new[s] = "charged"
      BY <1>1, <2>1, <2>4, <3>1 DEF TransferOf, Charged, Credited
    <3> QED
      BY <1>4, <3>2 DEF Promise!Next, Promise!TakeBack, Promise!Move
  <2>5. CASE op = "refund"
    <3>1. "deduct" \in effects[s] /\ ~Credited(s)'
      BY <1>1, <2>1, <2>5 DEF Ordered, Refunded, Credited
    <3>2. old[s] = "charged" /\ new[s] = "void"
      BY <1>1, <1>6, <2>1, <2>5, <3>1 DEF TransferOf, Charged, Credited
    <3> QED
      BY <1>4, <3>2 DEF Promise!Next, Promise!Discharge, Promise!Move
  <2>6. CASE op \in {"hold", "commit", "log", "release"}
    <3>1. TransferOf(s)' = TransferOf(s)
      BY <1>1, <2>1, <2>6 DEF TransferOf, Charged, Credited
    <3> QED
      BY <1>3, <3>1
  <2> QED
    BY <2>2, <2>3, <2>4, <2>5, <2>6
<1> QED
  BY <1>5, <1>6

\* Every step of a saga is a step of Transfer or changes nothing the parties see
\* ("失败补偿对称（4→1 反向）", service.go:11), until more befalls it than one refused
\* call: for finitely many allocations, any capital, faults, escalations and
\* resubmissions.
THEOREM ImplementsTransferCorrect ==
  ASSUME IsFiniteSet(Sagas)
  PROVE  Spec => ImplementsTransfer
<1>1. Init => Promise!Init
  <2> SUFFICES ASSUME Init PROVE Promise!Init
    OBVIOUS
  <2>1. \A s \in Sagas : effects[s] = {} /\ trouble[s] = "none"
    BY DEF Init
  <2>2. \A s \in Sagas : TransferOf(s) = "none"
    BY <2>1 DEF TransferOf, Charged, Credited
  <2> QED
    BY <2>2 DEF Promise!Init
<1>2. KeptInv /\ KeptInv' /\ [Next]_vars => [Promise!Next]_([s \in Sagas |-> TransferOf(s)])
  <2> SUFFICES ASSUME KeptInv, KeptInv', [Next]_vars
               PROVE  [Promise!Next]_([s \in Sagas |-> TransferOf(s)])
    OBVIOUS
  <2>0. TypeOK
    BY DEF KeptInv, IInv
  <2>1. CASE UNCHANGED <<effects, trouble>>
    BY <2>1 DEF TransferOf, Charged, Credited
  <2>2. CASE ~UNCHANGED <<effects, trouble>>
    <3> DEFINE Late(s) == /\ \E x \in Steps : SweepEscalate(s, x)
                          /\ trouble'[s] = "more"
    <3>0. ASSUME NEW s \in Sagas, NEW x \in Steps, SweepEscalate(s, x) PROVE Late(s)
      <4>1. Spend(s, "late")
        BY <2>2, <3>0 DEF SweepEscalate, Calm
      <4> QED
        BY <2>0, <3>0, <4>1, SpentSpares
    <3>1. PICK s \in Sagas :
            CallPort(s) \/ CallUndo(s) \/ RepoError(s) \/ Crash(s) \/ Late(s)
      BY <2>2, <3>0 DEF Next, vars, Calm, Proceed, Submit, Skip, Refuse, Enter, SaveCommitted,
                        SaveFailed, BeginUndo, SaveUndone
    <3>2. /\ Spared(s) /\ Others(s)
          /\ ~(CallPort(s) \/ CallUndo(s)) => trouble'[s] = "more"
      <4>1. CASE CallPort(s) \/ CallUndo(s)
        BY <4>1, StepFrame DEF KeptInv, Proceed
      <4>2. CASE RepoError(s) \/ Crash(s)
        <5>1. Spared(s) /\ trouble'[s] = "more"
          BY <2>0, <4>2, SpentSpares DEF RepoError, Crash
        <5> QED
          BY <2>0, <4>2, <5>1 DEF RepoError, Crash, Retreat, Continue, Others, TypeOK, RequestOK
      <4>3. CASE Late(s)
        BY <2>0, <4>3, SpentSpares DEF SweepEscalate, Others, TypeOK, StatusOK
      <4> QED
        BY <3>1, <4>1, <4>2, <4>3
    <3> HIDE DEF Late
    <3>3. CASE trouble'[s] = "more"
      <4>1. /\ TransferOf(s)' = "excused"
            /\ \A t \in Sagas \ {s} : TransferOf(t)' = TransferOf(t)
        BY <3>2, <3>3 DEF TransferOf, Charged, Credited, Others, Spared
      <4> DEFINE old == [t \in Sagas |-> TransferOf(t)]
                 new == [t \in Sagas |-> TransferOf(t)']
      <4>2. new = [old EXCEPT ![s] = "excused"]
        BY <4>1
      <4> QED
        BY <4>2 DEF Promise!Next, Promise!Excuse
    <3>4. CASE trouble'[s] # "more"
      <4>1. PICK op \in Operations : Answer(s, op)
        BY <2>0, <3>1, <3>2, <3>4, Working DEF CallPort, CallUndo, At
      <4>2. CASE effects' = effects
        <5>1. trouble[s] # "more"
          BY <3>2, <3>4 DEF Spared
        <5>2. \A t \in Sagas : TransferOf(t)' = TransferOf(t)
          BY <3>2, <3>4, <4>2, <5>1 DEF TransferOf, Charged, Credited, Spared
        <5> QED
          BY <5>2
      <4>3. CASE effects' # effects
        <5>1. Feasible(s, op) /\ effects' = [effects EXCEPT ![s] = @ \cup {op}]
          BY <4>1, <4>3 DEF Answer
        <5> QED
          BY <3>2, <3>4, <5>1, EffectMoves
      <4> QED
        BY <4>2, <4>3
    <3> QED
      BY <3>3, <3>4
  <2> QED
    BY <2>1, <2>2
<1> QED
  BY <1>1, <1>2, KeptInitially, KeptInductive, PTL DEF Spec, ImplementsTransfer, Promise!Spec
=============================================================================
