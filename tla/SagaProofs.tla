----------------------------- MODULE SagaProofs -----------------------------
(* Theorems about Saga for every value of its constants.                   *)
EXTENDS Saga, TLAPS

USE DEF Workers, Forward, Backward, Shape

-----------------------------------------------------------------------------
(* The inductive invariants.  Each says what a call in flight implies about *)
(* the effects of its step, which the stored row alone does not show.      *)

Knows(w) ==
  LET c == call[w] IN
  /\ c.pc = "starting" => c.snap.status = "in_progress"
  /\ c.pc = "committing" => done[c.step] > 0
  /\ c.pc \in Backward => done[c.step] > 0 \/ "forced" \in trouble[c.step]
  /\ c.pc = "compensating" => undone[c.step] > 0

Backed(s) ==
  "forced" \notin trouble[s] =>
    /\ row[s].status = "committed" => done[s] > 0
    /\ row[s].status = "compensated" => done[s] > 0 /\ undone[s] > 0

EffectInv ==
  /\ TypeOK
  /\ \A w \in Workers : Knows(w)
  /\ \A s \in Steps : Backed(s)

\* Unless calls on s overlapped, one call at most is in flight on it.
OneCall(s) ==
  "overlap" \notin trouble[s] => \A v, w \in InFlight(s) : v = w

Clean(s) == trouble[s] \cap {"lostCommit", "overlap", "undoFailed", "forced"} = {}

\* While s is clean, a call about to execute finds nothing executed, and an
\* executed step is closed or about to be saved as committed.
ForwardGuarded(s) ==
  Clean(s) =>
    /\ done[s] <= 1
    /\ \A w \in InFlight(s) : call[w].pc \in Forward => done[s] = 0
    /\ done[s] > 0 /\ row[s].status \notin Closed =>
         \E w \in InFlight(s) : call[w].pc = "committing"

UndoClean(s) == trouble[s] \cap {"lostUndo", "overlap", "forced"} = {}

UndoGuarded(s) ==
  UndoClean(s) =>
    /\ undone[s] <= 1
    /\ \A w \in InFlight(s) : call[w].pc # "compensating" => undone[s] = 0
    /\ undone[s] > 0 =>
         \/ row[s].status \in {"compensated", "escalated"}
         \/ \E w \in InFlight(s) : call[w].pc = "compensating"

OnceInv ==
  \A s \in Steps : OneCall(s) /\ ForwardGuarded(s) /\ UndoGuarded(s)

-----------------------------------------------------------------------------
(* Types.                                                                  *)

LEMMA IdleCallType == IdleCall \in Call
  BY StepsAssumption, BoundsAssumption DEF IdleCall, Call, NoRow, Row, Status

LEMMA WriteType ==
  ASSUME TypeOK, NEW s \in Steps, NEW r \in Row, Write(s, r)
  PROVE  row' \in [Steps -> Row] /\ older' \subseteq Steps \X Steps
  BY DEF TypeOK, Write

LEMMA MarkType ==
  ASSUME TypeOK, NEW s \in Steps, NEW x \in Status \ {"none"}, Mark(s, x),
         row[s].status # "none"
  PROVE  row' \in [Steps -> Row] /\ older' \subseteq Steps \X Steps
<1> [row[s] EXCEPT !.status = x] \in Row
  BY DEF TypeOK, Row
<1> QED  BY WriteType DEF Mark

LEMMA ReportType ==
  ASSUME TypeOK, NEW s \in Steps, NEW x \in SUBSET Trouble, Report(s, x)
  PROVE  trouble' \in [Steps -> SUBSET Trouble]
  BY DEF TypeOK, Report

LEMMA StartingType ==
  ASSUME NEW r \in Row
  PROVE  Starting(r) \in Row /\ Starting(r).status = "in_progress"
<1> r.attempts \in 0 .. MaxAttempts /\ MaxAttempts \in Nat \ {0}
  BY BoundsAssumption DEF Row
<1> QED  BY DEF Starting, NextAttempt, Row, Status

LEMMA BeginType ==
  ASSUME TypeOK, NEW w \in Workers, NEW s \in Steps, Begin(w, s)
  PROVE  call' \in [Workers -> Call] /\ trouble' \in [Steps -> SUBSET Trouble]
<1>1. row[s] \in Row  BY DEF TypeOK
<1>2. Starting(row[s]) \in Row  BY <1>1, StartingType
<1>3. call' \in [Workers -> Call]  BY <1>2 DEF Begin, TypeOK, Call
<1>4. Overlap(s) \in SUBSET Trouble  BY DEF Overlap, Trouble
<1>5. trouble' \in [Steps -> SUBSET Trouble]  BY <1>4, ReportType DEF Begin
<1> QED  BY <1>3, <1>5

LEMMA LoadType ==
  ASSUME TypeOK
  PROVE  Load \subseteq [step : Steps, row : Row]
<1> SUFFICES ASSUME NEW v \in Load
             PROVE  v \in [step : Steps, row : Row]
  OBVIOUS
<1>1. \E s \in Due : v = [step |-> s, row |-> row[s]]
  BY DEF Load
<1>2. PICK s \in Due : v = [step |-> s, row |-> row[s]]
  BY <1>1
<1> QED  BY <1>2 DEF TypeOK, Due

LEMMA TypeInit == Init => TypeOK
<1> SUFFICES ASSUME Init
             PROVE  TypeOK
  OBVIOUS
<1>1. \A w \in Workers : InStore(w)
  BY DEF Init, InStore, IdleCall
<1> QED  BY <1>1, IdleCallType, BoundsAssumption DEF Init, TypeOK, NoRow, Row, Status

LEMMA ShapeStep == TypeOK /\ [Next]_vars => Shape'
<1> SUFFICES ASSUME TypeOK, [Next]_vars
             PROVE  Shape'
  OBVIOUS
<1> USE IdleCallType
<1>1. ASSUME NEW h \in Handles, NEW s \in Steps, Run(h, s)
      PROVE  Shape'
  BY <1>1, BeginType DEF Run, Begin, TypeOK
<1>2. ASSUME NEW h \in Handles, NEW s \in Steps, Compensate(h, s)
      PROVE  Shape'
  <2>1. call' \in [Workers -> Call]
    BY <1>2 DEF Compensate, TypeOK, Call
  <2>2. trouble' \in [Steps -> SUBSET Trouble]
    BY <1>2, ReportType DEF Compensate, Overlap, Trouble
  <2> QED  BY <1>2, <2>1, <2>2 DEF Compensate, TypeOK
<1>3. ASSUME NEW w \in Workers, Proceed(w)
      PROVE  Shape'
  <2> DEFINE c == call[w]
  <2>1. c \in Call /\ c.step \in Steps /\ c.snap \in Row
    BY DEF TypeOK, Call
  <2>2. c.pc # "idle" =>
          \A x \in Status \ {"none"} : [c.snap EXCEPT !.status = x] \in Row
    BY <2>1 DEF TypeOK, InStore, Row
  <2>3. ASSUME NEW pc \in {"idle", "committing"} \cup Forward \cup Backward,
               Goto(w, pc)
        PROVE  call' \in [Workers -> Call]
    BY <2>3 DEF Goto, TypeOK, Call
  <2>4. Return(w) => call' \in [Workers -> Call]
    BY DEF Return, TypeOK
  <2>5. CASE SaveStarting(w)
    BY <2>5, <2>1, <2>3, WriteType DEF SaveStarting, TypeOK
  <2>6. CASE TxCommits(w)
    BY <2>6, <2>1, <2>3 DEF TxCommits, TypeOK, Many
  <2>7. CASE TxFails(w)
    BY <2>7, <2>1, <2>3 DEF TxFails, TypeOK
  <2>8. CASE SaveFailed(w)
    <3>1. [c.snap EXCEPT !.status = "failed"] \in Row  BY <2>2, <2>8 DEF Status, SaveFailed
    <3>2. call' \in [Workers -> Call]  BY <2>8, <2>3, <2>4 DEF SaveFailed
    <3> QED  BY <2>8, <2>1, <3>1, <3>2, WriteType DEF SaveFailed, TypeOK
  <2>9. CASE EscalateOwn(w)
    BY <2>9, <2>1, <2>4, MarkType DEF EscalateOwn, TypeOK, InStore, Status
  <2>10. CASE SaveCommitted(w)
    <3>1. [c.snap EXCEPT !.status = "committed"] \in Row  BY <2>2, <2>10 DEF Status, SaveCommitted
    <3> QED  BY <2>10, <2>1, <2>4, <3>1, WriteType DEF SaveCommitted, TypeOK
  <2>11. CASE UndoCommits(w)
    BY <2>11, <2>1, <2>3 DEF UndoCommits, TypeOK, Many
  <2>12. CASE UndoFails(w)
    BY <2>12, <2>1, <2>3 DEF UndoFails, TypeOK
  <2>13. CASE SaveCompensated(w)
    <3>1. [c.snap EXCEPT !.status = "compensated"] \in Row  BY <2>2, <2>13 DEF Status, SaveCompensated
    <3> QED  BY <2>13, <2>1, <2>4, <3>1, WriteType DEF SaveCompensated, TypeOK
  <2>14. CASE SaveUndoFailed(w)
    <3>1. [c.snap EXCEPT !.status = "failed"] \in Row  BY <2>2, <2>14 DEF Status, SaveUndoFailed
    <3>2. trouble' \in [Steps -> SUBSET Trouble]
      BY <2>14, <2>1, ReportType DEF SaveUndoFailed, Trouble
    <3> QED  BY <2>14, <2>1, <2>4, <3>1, <3>2, WriteType DEF SaveUndoFailed, TypeOK
  <2> QED  BY <1>3, <2>5, <2>6, <2>7, <2>8, <2>9, <2>10, <2>11, <2>12,
              <2>13, <2>14 DEF Proceed
<1>4. ASSUME NEW w \in Sweepers, Sweep(w)
      PROVE  Shape'
  <2>1. CASE SweepLoad(w)
    BY <2>1, LoadType DEF SweepLoad, TypeOK
  <2>2. ASSUME NEW v \in todo[w], SweepEscalate(w, v)
        PROVE  Shape'
    <3>1. v.step \in Steps  BY DEF TypeOK
    <3> QED  BY <2>2, <3>1, MarkType DEF SweepEscalate, Visit, TypeOK, InStore, Status
  <2>3. ASSUME NEW v \in todo[w], SweepRetry(w, v)
        PROVE  Shape'
    <3>1. v.step \in Steps  BY DEF TypeOK
    <3> QED  BY <2>3, <3>1, BeginType DEF SweepRetry, Visit, Begin, TypeOK
  <2>4. ASSUME NEW v \in todo[w], SweepSkip(w, v)
        PROVE  Shape'
    BY <2>4 DEF SweepSkip, Visit, TypeOK
  <2> QED  BY <1>4, <2>1, <2>2, <2>3, <2>4 DEF Sweep
<1>5. ASSUME NEW s \in Steps, NEW t \in ForceTargets, ForceResolve(s, t)
      PROVE  Shape'
  <2>1. t \in Status \ {"none"}  BY ForceTargetsAssumption DEF Status
  <2>2. trouble' \in [Steps -> SUBSET Trouble]
    BY <1>5, ReportType DEF ForceResolve, Trouble
  <2> QED  BY <1>5, <2>1, <2>2, MarkType DEF ForceResolve, TypeOK
<1>6. ASSUME NEW s \in Steps, Age(s)
      PROVE  Shape'
  BY <1>6 DEF Age, TypeOK
<1>7. ASSUME NEW w \in Workers, RepoError(w) \/ Crash(w)
      PROVE  Shape'
  <2>1. call[w].step \in Steps  BY DEF TypeOK, Call
  <2>2. call' \in [Workers -> Call]
    BY <1>7 DEF RepoError, Crash, Goto, Return, TypeOK, Call
  <2>3. trouble' \in [Steps -> SUBSET Trouble]
    <3>1. Lost(w) \in SUBSET Trouble  BY DEF Lost, Trouble
    <3> QED  BY <1>7, <2>1, <3>1, ReportType DEF RepoError, Crash
  <2>4. faults' \in 0 .. MaxFaults
    BY <1>7, BoundsAssumption DEF RepoError, Crash, TypeOK
  <2>5. todo' \in [Workers -> SUBSET [step : Steps, row : Row]]
    BY <1>7 DEF RepoError, Crash, TypeOK
  <2> QED  BY <1>7, <2>2, <2>3, <2>4, <2>5 DEF RepoError, Crash, TypeOK
<1>8. ASSUME NEW w \in Sweepers, NEW v \in todo[w], SweepError(w, v)
      PROVE  Shape'
  BY <1>8, BoundsAssumption DEF SweepError, Visit, TypeOK
<1>9. ASSUME NEW w \in Workers, AnswerLost(w)
      PROVE  Shape'
  <2>1. call[w].step \in Steps  BY DEF TypeOK, Call
  <2>2. call' \in [Workers -> Call]
    BY <1>9 DEF AnswerLost, Goto, TypeOK, Call
  <2>3. trouble' \in [Steps -> SUBSET Trouble]
    BY <1>9, <2>1, ReportType DEF AnswerLost, Trouble
  <2>4. faults' \in 0 .. MaxFaults
    BY <1>9, BoundsAssumption DEF AnswerLost, TypeOK
  <2>5. done' \in [Steps -> 0 .. 2] /\ undone' \in [Steps -> 0 .. 2]
    BY <1>9, <2>1 DEF AnswerLost, TypeOK, Many
  <2> QED  BY <1>9, <2>2, <2>3, <2>4, <2>5 DEF AnswerLost, TypeOK
<1>10. CASE UNCHANGED vars
  BY <1>10 DEF vars, TypeOK
<1> QED  BY <1>1, <1>2, <1>3, <1>4, <1>5, <1>6, <1>7, <1>8, <1>9,
            <1>10 DEF Next

\* No stored row is ever lost.
LEMMA StoredStays ==
  ASSUME TypeOK, [Next]_vars, NEW s \in Steps, row[s].status # "none"
  PROVE  row'[s].status # "none"
<1>1. \/ UNCHANGED row
      \/ \E t \in Steps, r \in Row : r.status # "none" /\ Write(t, r)
  <2>1. ASSUME NEW w \in Workers, Proceed(w)
        PROVE  \/ UNCHANGED row
               \/ \E t \in Steps, r \in Row : r.status # "none" /\ Write(t, r)
    <3> PICK c \in Call : c = call[w]  BY DEF TypeOK
    <3>1. c.step \in Steps /\ c.snap \in Row /\ InStore(w)
      BY DEF TypeOK, Call
    <3>2. c.pc # "idle" => \A x \in Status \ {"none"} :
            /\ [c.snap EXCEPT !.status = x] \in Row
            /\ [c.snap EXCEPT !.status = x].status # "none"
      BY <3>1 DEF InStore, Row
    <3>3. CASE SaveStarting(w)
      BY <3>1, <3>3 DEF SaveStarting, InStore
    <3>4. CASE SaveFailed(w)
      BY <3>1, <3>2, <3>4 DEF SaveFailed, Status
    <3>5. CASE EscalateOwn(w)
      <4>1. row[c.step] \in Row /\ row[c.step].status # "none"
        BY <3>1, <3>5 DEF EscalateOwn, InStore, TypeOK
      <4>2. /\ [row[c.step] EXCEPT !.status = "escalated"] \in Row
            /\ [row[c.step] EXCEPT !.status = "escalated"].status # "none"
        BY <4>1 DEF Row, Status
      <4> QED  BY <3>1, <3>5, <4>2 DEF EscalateOwn, Mark
    <3>6. CASE SaveCommitted(w)
      BY <3>1, <3>2, <3>6 DEF SaveCommitted, Status
    <3>7. CASE SaveCompensated(w)
      BY <3>1, <3>2, <3>7 DEF SaveCompensated, Status
    <3>8. CASE SaveUndoFailed(w)
      BY <3>1, <3>2, <3>8 DEF SaveUndoFailed, Status
    <3> QED  BY <2>1, <3>3, <3>4, <3>5, <3>6, <3>7, <3>8
             DEF Proceed, TxCommits, TxFails, UndoCommits, UndoFails
  <2>2. ASSUME NEW t \in Steps, NEW x \in Status \ {"none"}, Mark(t, x),
               row[t].status # "none"
        PROVE  \E r \in Row : r.status # "none" /\ Write(t, r)
    <3>1. row[t] \in Row  BY DEF TypeOK
    <3>2. /\ [row[t] EXCEPT !.status = x] \in Row
          /\ [row[t] EXCEPT !.status = x].status # "none"
      BY <2>2, <3>1 DEF Row
    <3> QED  BY <2>2, <3>2 DEF Mark
  <2>3. ASSUME NEW w \in Sweepers, NEW v \in todo[w], SweepEscalate(w, v)
        PROVE  \E t \in Steps, r \in Row : r.status # "none" /\ Write(t, r)
    <3>1. v.step \in Steps /\ row[v.step].status # "none"
      BY DEF TypeOK, InStore
    <3> QED  BY <2>2, <2>3, <3>1 DEF SweepEscalate, Status
  <2>4. ASSUME NEW t \in Steps, NEW x \in ForceTargets, ForceResolve(t, x)
        PROVE  \E r \in Row : r.status # "none" /\ Write(t, r)
    <3>1. x \in Status \ {"none"}  BY ForceTargetsAssumption DEF Status
    <3> QED  BY <2>2, <2>4, <3>1 DEF ForceResolve
  <2> QED  BY <2>1, <2>3, <2>4
           DEF Next, Run, Begin, Compensate, Sweep, SweepLoad, SweepRetry,
               SweepSkip, Age, RepoError, AnswerLost, Crash, SweepError, vars
<1>2. ASSUME NEW t \in Steps, NEW r \in Row, r.status # "none", Write(t, r)
      PROVE  row'[s].status # "none"
  BY <1>2 DEF Write, TypeOK
<1> QED  BY <1>1, <1>2

LEMMA InStoreStep ==
  ASSUME TypeOK, [Next]_vars, NEW w \in Workers
  PROVE  InStore(w)'
<1>1. InStore(w) /\ call[w] \in Call /\ todo[w] \in SUBSET [step : Steps, row : Row]
  BY DEF TypeOK
<1>2. ASSUME call'[w] = call[w] \/ call'[w].pc = "idle",
             todo'[w] \subseteq todo[w]
      PROVE  InStore(w)'
  <2>1. call[w].step \in Steps /\ \A v \in todo[w] : v.step \in Steps
    BY <1>1 DEF Call
  <2> QED  BY <1>1, <1>2, <2>1, StoredStays DEF InStore
<1>3. ASSUME NEW u \in Workers, NEW s \in Steps, Begin(u, s), todo'[w] \subseteq todo[w]
      PROVE  InStore(w)'
  <2>1. CASE u # w
    BY <1>2, <1>3, <2>1 DEF Begin, TypeOK
  <2>2. CASE u = w
    <3>1. call'[w].pc = "starting" /\ call'[w].snap.status = "in_progress"
      BY <1>3, <2>2, StartingType DEF Begin, TypeOK
    <3>2. \A v \in todo[w] : v.step \in Steps
      BY <1>1
    <3> QED  BY <1>1, <1>3, <3>1, <3>2, StoredStays DEF InStore
  <2> QED  BY <2>1, <2>2
<1>4. ASSUME NEW h \in Handles, NEW s \in Steps, Compensate(h, s)
      PROVE  InStore(w)'
  <2>1. CASE h # w
    BY <1>2, <1>4, <2>1 DEF Compensate, TypeOK
  <2>2. CASE h = w
    <3>1. /\ call'[w].snap = row[s] /\ call'[w].step = s
          /\ row[s].status = "committed" /\ UNCHANGED <<row, todo>>
      BY <1>4, <2>2 DEF Compensate, TypeOK
    <3> QED  BY <1>1, <3>1 DEF InStore
  <2> QED  BY <2>1, <2>2
<1>5. ASSUME NEW u \in Workers, Proceed(u)
      PROVE  InStore(w)'
  <2>1. todo' = todo
    BY <1>5 DEF Proceed, SaveStarting, TxCommits, TxFails, SaveFailed, EscalateOwn,
         SaveCommitted, UndoCommits, UndoFails, SaveCompensated, SaveUndoFailed
  <2>2. CASE u # w
    <3>1. call'[w] = call[w]
      BY <1>5, <2>2
         DEF Proceed, SaveStarting, TxCommits, TxFails, SaveFailed, EscalateOwn,
             SaveCommitted, UndoCommits, UndoFails, SaveCompensated,
             SaveUndoFailed, Goto, Return, TypeOK
    <3> QED  BY <1>2, <2>1, <3>1
  <2>3. CASE u = w
    <3> PICK c \in Call : c = call[w]  BY <1>1
    <3>1. c.step \in Steps /\ c.snap \in Row  BY DEF Call
    <3>2. CASE SaveStarting(w)
      <4>1. c.pc = "starting" /\ Write(c.step, c.snap) /\ Goto(w, "tx")
        BY <3>2 DEF SaveStarting
      <4>2. c.snap.status # "none"  BY <1>1, <4>1 DEF InStore
      <4>3. /\ call'[w].snap = c.snap /\ call'[w].step = c.step
            /\ row'[c.step].status # "none"
        BY <3>1, <4>1, <4>2 DEF Goto, Write, TypeOK, Call
      <4>4. \A v \in todo[w] : v.step \in Steps  BY <1>1
      <4> QED  BY <1>1, <2>1, <4>2, <4>3, <4>4, StoredStays DEF InStore
    <3>3. CASE ~SaveStarting(w)
      <4>1. \/ call'[w].pc = "idle"
            \/ /\ c.pc \notin {"idle", "starting"}
               /\ call'[w].snap = c.snap /\ call'[w].step = c.step
        BY <1>5, <2>3, <3>3
           DEF Proceed, TxCommits, TxFails, SaveFailed, EscalateOwn,
               SaveCommitted, UndoCommits, UndoFails, SaveCompensated,
               SaveUndoFailed, Goto, Return, IdleCall, TypeOK, Call
      <4>2. CASE call'[w].pc = "idle"
        BY <1>2, <2>1, <4>2
      <4>3. CASE c.pc \notin {"idle", "starting"}
        <5>1. c.snap.status # "none" /\ row[c.step].status # "none"
          BY <1>1, <4>3 DEF InStore
        <5>2. \A v \in todo[w] : v.step \in Steps  BY <1>1
        <5> QED  BY <1>1, <2>1, <3>1, <4>1, <5>1, <5>2, StoredStays DEF InStore
      <4> QED  BY <4>1, <4>2, <4>3
    <3> QED  BY <3>2, <3>3
  <2> QED  BY <2>2, <2>3
<1>6. ASSUME NEW u \in Sweepers, SweepLoad(u)
      PROVE  InStore(w)'
  <2>1. \A v \in Load : row[v.step].status # "none"
    <3> SUFFICES ASSUME NEW v \in Load
                 PROVE  row[v.step].status # "none"
      OBVIOUS
    <3>1. \E s \in Due : v = [step |-> s, row |-> row[s]]
      BY DEF Load
    <3>2. PICK s \in Due : v = [step |-> s, row |-> row[s]]
      BY <3>1
    <3> QED  BY <3>2 DEF Due, Retryable
  <2>2. UNCHANGED <<row, call>> /\ (todo'[w] = todo[w] \/ todo'[w] = Load)
    BY <1>6 DEF SweepLoad, TypeOK
  <2> QED  BY <1>1, <2>1, <2>2 DEF InStore
<1>7. ASSUME NEW u \in Sweepers, NEW v \in todo[u], Visit(u, v)
      PROVE  todo'[w] \subseteq todo[w]
  BY <1>7 DEF Visit, TypeOK
<1>8. ASSUME NEW u \in Sweepers, NEW v \in todo[u], SweepRetry(u, v)
      PROVE  InStore(w)'
  <2>1. v.step \in Steps  BY DEF TypeOK
  <2> QED  BY <1>3, <1>7, <1>8, <2>1 DEF SweepRetry
<1>9. ASSUME NEW u \in Workers, RepoError(u) \/ AnswerLost(u) \/ Crash(u)
      PROVE  InStore(w)'
  <2>1. todo'[w] \subseteq todo[w] /\ UNCHANGED row
    BY <1>9 DEF RepoError, AnswerLost, Crash, TypeOK
  <2>2. \/ call'[w] = call[w] \/ call'[w].pc = "idle"
        \/ /\ call[w].pc \in {"tx", "undo", "refusing"}
           /\ call'[w].snap = call[w].snap /\ call'[w].step = call[w].step
    BY <1>9 DEF RepoError, AnswerLost, Crash, Goto, Return, IdleCall, TypeOK, Call
  <2> QED  BY <1>1, <1>2, <2>1, <2>2 DEF InStore
<1>10. CASE UNCHANGED <<call, todo>>
  BY <1>2, <1>10
<1> QED  BY <1>2, <1>3, <1>4, <1>5, <1>6, <1>7, <1>8, <1>9, <1>10
         DEF Next, Run, Sweep, SweepEscalate, SweepSkip, ForceResolve, Age,
             SweepError, vars

LEMMA TypeStep == TypeOK /\ [Next]_vars => TypeOK'
  BY ShapeStep, InStoreStep DEF TypeOK

\* Every variable of the engine keeps its shape in every behaviour.
THEOREM TypeCorrect == Spec => []TypeOK
  BY TypeInit, TypeStep, PTL DEF Spec

-----------------------------------------------------------------------------
(* Effects behind closing statuses.                                        *)

Grows ==
  \A s \in Steps :
    /\ done[s] > 0 => done'[s] > 0
    /\ undone[s] > 0 => undone'[s] > 0
    /\ trouble[s] \subseteq trouble'[s]

LEMMA EffectsOnlyGrow == TypeOK /\ [Next]_vars => Grows
<1> SUFFICES ASSUME TypeOK, [Next]_vars
             PROVE  Grows
  OBVIOUS
<1>1. CASE UNCHANGED <<done, undone, trouble>>
  BY <1>1 DEF Grows
<1>2. ASSUME NEW s \in Steps, NEW x, Report(s, x), UNCHANGED <<done, undone>>
      PROVE  Grows
  BY <1>2 DEF Grows, Report, TypeOK
<1>3. ASSUME NEW h \in Handles, NEW s \in Steps, Run(h, s) \/ Compensate(h, s)
      PROVE  Grows
  BY <1>3, <1>2 DEF Run, Begin, Compensate
<1>4. ASSUME NEW w \in Workers, Proceed(w)
      PROVE  Grows
  <2>1. call[w].step \in Steps  BY DEF TypeOK, Call
  <2>2. CASE TxCommits(w)
    BY <2>1, <2>2 DEF TxCommits, Grows, TypeOK, Many
  <2>3. CASE UndoCommits(w)
    BY <2>1, <2>3 DEF UndoCommits, Grows, TypeOK, Many
  <2>4. CASE SaveUndoFailed(w)
    BY <2>1, <2>4, <1>2 DEF SaveUndoFailed
  <2> QED  BY <1>1, <1>4, <2>2, <2>3, <2>4
             DEF Proceed, SaveStarting, TxFails, SaveFailed, EscalateOwn,
                 SaveCommitted, UndoFails, SaveCompensated
<1>5. ASSUME NEW w \in Sweepers, NEW v \in todo[w], SweepRetry(w, v)
      PROVE  Grows
  <2>1. v.step \in Steps  BY DEF TypeOK
  <2> QED  BY <1>5, <1>2, <2>1 DEF SweepRetry, Begin
<1>6. ASSUME NEW s \in Steps, NEW t \in ForceTargets, ForceResolve(s, t)
      PROVE  Grows
  BY <1>6, <1>2 DEF ForceResolve
<1>7. ASSUME NEW w \in Workers, RepoError(w) \/ Crash(w)
      PROVE  Grows
  <2>1. call[w].step \in Steps  BY DEF TypeOK, Call
  <2> QED  BY <1>7, <1>2, <2>1 DEF RepoError, Crash
<1>8. ASSUME NEW w \in Workers, AnswerLost(w)
      PROVE  Grows
  <2>1. call[w].step \in Steps  BY DEF TypeOK, Call
  <2> QED  BY <1>8, <2>1 DEF AnswerLost, Report, Grows, TypeOK, Many
<1> QED  BY <1>1, <1>3, <1>4, <1>5, <1>6, <1>7, <1>8
         DEF Next, Sweep, SweepLoad, SweepEscalate, SweepSkip, Age, SweepError, vars

\* What a step must show of the calls and rows it changes.
LEMMA EffectFrame ==
  ASSUME EffectInv, TypeOK', Grows,
         \A w \in Workers : call'[w] = call[w] \/ Knows(w)',
         \A s \in Steps : row'[s] = row[s] \/ Backed(s)'
  PROVE  EffectInv'
<1>1. ASSUME NEW w \in Workers, call'[w] = call[w]
      PROVE  Knows(w)'
  <2>1. call[w].step \in Steps  BY DEF EffectInv, TypeOK, Call
  <2>2. Knows(w)  BY DEF EffectInv
  <2> QED  BY <1>1, <2>1, <2>2 DEF Knows, Grows
<1>2. ASSUME NEW s \in Steps, row'[s] = row[s]
      PROVE  Backed(s)'
  <2>1. Backed(s)  BY DEF EffectInv
  <2> QED  BY <1>2, <2>1 DEF Backed, Grows
<1> QED  BY <1>1, <1>2 DEF EffectInv

LEMMA EffectInit == Init => EffectInv
<1> SUFFICES ASSUME Init
             PROVE  EffectInv
  OBVIOUS
<1>1. TypeOK  BY TypeInit
<1>2. \A w \in Workers : Knows(w)
  BY DEF Init, Knows, IdleCall
<1>3. \A s \in Steps : Backed(s)
  BY DEF Init, Backed, NoRow
<1> QED  BY <1>1, <1>2, <1>3 DEF EffectInv

LEMMA EffectStep == EffectInv /\ [Next]_vars => EffectInv'
<1> SUFFICES ASSUME EffectInv, [Next]_vars
             PROVE  EffectInv'
  OBVIOUS
<1> TypeOK /\ TypeOK' /\ Grows
  BY TypeStep, EffectsOnlyGrow DEF EffectInv
<1>1. ASSUME NEW w \in Workers, NEW s \in Steps, Begin(w, s)
      PROVE  EffectInv'
  <2>1. row[s] \in Row  BY DEF TypeOK
  <2>2. Knows(w)'
    BY <1>1, <2>1, StartingType DEF Begin, Knows, TypeOK
  <2>3. \A u \in Workers \ {w} : call'[u] = call[u]
    BY <1>1 DEF Begin, TypeOK
  <2> QED  BY <1>1, <2>2, <2>3, EffectFrame DEF Begin
<1>2. ASSUME NEW h \in Handles, NEW s \in Steps, Compensate(h, s)
      PROVE  EffectInv'
  <2>1. Backed(s) /\ row[s].status = "committed"
    BY <1>2 DEF EffectInv, Compensate
  <2>2. Knows(h)'
    BY <1>2, <2>1 DEF Compensate, Knows, Backed, Report, TypeOK
  <2>3. \A u \in Workers \ {h} : call'[u] = call[u]
    BY <1>2 DEF Compensate, TypeOK
  <2> QED  BY <1>2, <2>2, <2>3, EffectFrame DEF Compensate
<1>3. ASSUME NEW w \in Workers, Proceed(w)
      PROVE  EffectInv'
  <2> PICK c \in Call : c = call[w]
    BY DEF TypeOK
  <2> PICK s \in Steps : s = c.step
    BY DEF Call
  <2>1. s \in Steps /\ c.snap \in Row /\ Knows(w)
    BY DEF EffectInv, TypeOK, Call
  <2>2. ASSUME \A u \in Workers \ {w} : call'[u] = call[u],
               \A t \in Steps \ {s} : row'[t] = row[t],
               Knows(w)', Backed(s)'
        PROVE  EffectInv'
    BY <2>1, <2>2, EffectFrame
  <2>3. ASSUME NEW pc \in {"idle", "committing"} \cup Forward \cup Backward,
               Goto(w, pc)
        PROVE  /\ \A u \in Workers \ {w} : call'[u] = call[u]
               /\ call'[w] = [c EXCEPT !.pc = pc]
               /\ call'[w].pc = pc /\ call'[w].step = s
    BY <2>3 DEF Goto, TypeOK, Call
  <2>4. ASSUME Return(w)
        PROVE  (\A u \in Workers \ {w} : call'[u] = call[u]) /\ Knows(w)'
    BY <2>4 DEF Return, TypeOK, Knows, IdleCall
  <2>5. ASSUME NEW r \in Row, Write(s, r)
        PROVE  row'[s] = r /\ \A t \in Steps \ {s} : row'[t] = row[t]
    BY <2>1, <2>5 DEF Write, TypeOK
  <2>6. c.pc # "idle" =>
          \A x \in Status \ {"none"} : [c.snap EXCEPT !.status = x] \in Row
    BY <2>1 DEF TypeOK, InStore, Row
  <2>7. ASSUME UNCHANGED row
        PROVE  Backed(s)' /\ \A t \in Steps \ {s} : row'[t] = row[t]
    <3>1. Backed(s)  BY <2>1 DEF EffectInv
    <3> QED  BY <2>1, <2>7, <3>1 DEF Backed, Grows
  <2>8. CASE SaveStarting(w)
    <3>1. c.snap.status = "in_progress"  BY <2>1, <2>8 DEF SaveStarting, Knows
    <3>2. Backed(s)'  BY <3>1, <2>1, <2>5, <2>8 DEF SaveStarting, Backed
    <3> QED  BY <2>1, <2>2, <2>3, <2>5, <2>8, <3>2 DEF SaveStarting, Knows
  <2>9. CASE TxCommits(w)
    <3>1. done'[s] > 0  BY <2>1, <2>9 DEF TxCommits, TypeOK, Many
    <3>2. Knows(w)'  BY <3>1, <2>3, <2>9 DEF TxCommits, Knows
    <3> QED  BY <2>2, <2>3, <2>7, <2>9, <3>2 DEF TxCommits
  <2>10. CASE TxFails(w)
    <3>1. Knows(w)'  BY <2>3, <2>10 DEF TxFails, Knows
    <3> QED  BY <2>2, <2>3, <2>7, <2>10, <3>1 DEF TxFails
  <2>11. CASE SaveFailed(w)
    <3>1. [c.snap EXCEPT !.status = "failed"] \in Row  BY <2>6, <2>11 DEF Status, SaveFailed
    <3>2. [c.snap EXCEPT !.status = "failed"].status = "failed"  BY <2>1 DEF Row
    <3>3. Backed(s)'  BY <3>1, <3>2, <2>5, <2>11 DEF SaveFailed, Backed
    <3>4. Goto(w, "escalating") \/ Return(w)  BY <2>11 DEF SaveFailed
    <3>5. (\A u \in Workers \ {w} : call'[u] = call[u]) /\ Knows(w)'
      BY <3>4, <2>3, <2>4 DEF Knows
    <3> QED  BY <2>2, <2>5, <2>11, <3>1, <3>3, <3>5 DEF SaveFailed
  <2>12. CASE EscalateOwn(w)
    <3>1. [row[s] EXCEPT !.status = "escalated"] \in Row
      BY <2>1, <2>12 DEF EscalateOwn, TypeOK, InStore, Row, Status
    <3>2. [row[s] EXCEPT !.status = "escalated"].status = "escalated"
      BY <2>1 DEF TypeOK, Row
    <3>3. Backed(s)'  BY <3>1, <3>2, <2>5, <2>12 DEF EscalateOwn, Mark, Backed
    <3> QED  BY <2>2, <2>4, <2>5, <2>12, <3>1, <3>3 DEF EscalateOwn, Mark
  <2>13. CASE SaveCommitted(w)
    <3>1. [c.snap EXCEPT !.status = "committed"] \in Row  BY <2>6, <2>13 DEF Status, SaveCommitted
    <3>2. [c.snap EXCEPT !.status = "committed"].status = "committed"
      BY <2>1 DEF Row
    <3>3. done[s] > 0  BY <2>1, <2>13 DEF SaveCommitted, Knows
    <3>4. Backed(s)'
      BY <2>1, <3>1, <3>2, <3>3, <2>5, <2>13 DEF SaveCommitted, Backed, Grows
    <3> QED  BY <2>2, <2>4, <2>5, <2>13, <3>1, <3>4 DEF SaveCommitted
  <2>14. CASE UndoCommits(w)
    <3>1. undone'[s] > 0  BY <2>1, <2>14 DEF UndoCommits, TypeOK, Many
    <3>2. done[s] > 0 \/ "forced" \in trouble[s]
      BY <2>1, <2>14 DEF UndoCommits, Knows
    <3>3. Knows(w)'  BY <2>1, <3>1, <3>2, <2>3, <2>14 DEF UndoCommits, Knows
    <3> QED  BY <2>2, <2>3, <2>7, <2>14, <3>3 DEF UndoCommits
  <2>15. CASE UndoFails(w)
    <3>1. done[s] > 0 \/ "forced" \in trouble[s]
      BY <2>1, <2>15 DEF UndoFails, Knows
    <3>2. Knows(w)'  BY <3>1, <2>3, <2>15 DEF UndoFails, Knows
    <3> QED  BY <2>2, <2>3, <2>7, <2>15, <3>2 DEF UndoFails
  <2>16. CASE SaveCompensated(w)
    <3>1. [c.snap EXCEPT !.status = "compensated"] \in Row  BY <2>6, <2>16 DEF Status, SaveCompensated
    <3>2. [c.snap EXCEPT !.status = "compensated"].status = "compensated"
      BY <2>1 DEF Row
    <3>3. /\ done[s] > 0 \/ "forced" \in trouble[s]
          /\ undone[s] > 0
      BY <2>1, <2>16 DEF SaveCompensated, Knows
    <3>4. Backed(s)'
      BY <2>1, <3>1, <3>2, <3>3, <2>5, <2>16 DEF SaveCompensated, Backed, Grows
    <3> QED  BY <2>2, <2>4, <2>5, <2>16, <3>1, <3>4 DEF SaveCompensated
  <2>17. CASE SaveUndoFailed(w)
    <3>1. [c.snap EXCEPT !.status = "failed"] \in Row  BY <2>6, <2>17 DEF Status, SaveUndoFailed
    <3>2. [c.snap EXCEPT !.status = "failed"].status = "failed"  BY <2>1 DEF Row
    <3>3. Backed(s)'  BY <3>1, <3>2, <2>5, <2>17 DEF SaveUndoFailed, Backed
    <3> QED  BY <2>2, <2>4, <2>5, <2>17, <3>1, <3>3 DEF SaveUndoFailed
  <2> QED  BY <1>3, <2>8, <2>9, <2>10, <2>11, <2>12, <2>13, <2>14, <2>15,
              <2>16, <2>17 DEF Proceed
<1>4. ASSUME NEW s \in Steps, NEW x \in Status, Mark(s, x), UNCHANGED call,
             x \in {"committed", "compensated"} => "forced" \in trouble'[s]
      PROVE  EffectInv'
  <2>1. row'[s].status = x  BY <1>4 DEF Mark, Write, TypeOK, Row
  <2>2. \A t \in Steps \ {s} : row'[t] = row[t]
    BY <1>4 DEF Mark, Write, TypeOK
  <2>3. Backed(s)'  BY <1>4, <2>1 DEF Backed
  <2> QED  BY <1>4, <2>2, <2>3, EffectFrame
<1>5. ASSUME NEW w \in Sweepers, NEW v \in todo[w], SweepEscalate(w, v)
      PROVE  EffectInv'
  <2>1. v.step \in Steps  BY DEF TypeOK
  <2> QED  BY <1>4, <1>5, <2>1 DEF SweepEscalate, Status
<1>6. ASSUME NEW w \in Sweepers, NEW v \in todo[w], SweepRetry(w, v)
      PROVE  EffectInv'
  <2>1. v.step \in Steps  BY DEF TypeOK
  <2> QED  BY <1>1, <1>6, <2>1 DEF SweepRetry
<1>7. ASSUME NEW s \in Steps, NEW t \in ForceTargets, ForceResolve(s, t)
      PROVE  EffectInv'
  <2>1. t \in Status  BY ForceTargetsAssumption DEF Status
  <2>2. "forced" \in trouble'[s]  BY <1>7 DEF ForceResolve, Report, TypeOK
  <2> QED  BY <1>4, <1>7, <2>1, <2>2 DEF ForceResolve
<1>8. ASSUME NEW w \in Workers, RepoError(w) \/ Crash(w)
      PROVE  EffectInv'
  <2>1. \A u \in Workers \ {w} : call'[u] = call[u]
    BY <1>8 DEF RepoError, Crash, Goto, Return, TypeOK
  <2>2. Goto(w, "escalating") \/ Return(w)
    BY <1>8 DEF RepoError, Crash
  <2>3. Knows(w)'
    BY <2>2 DEF Goto, Return, Knows, IdleCall, TypeOK, Call
  <2> QED  BY <1>8, <2>1, <2>3, EffectFrame DEF RepoError, Crash
<1>9. ASSUME NEW w \in Workers, AnswerLost(w)
      PROVE  EffectInv'
  <2>1. \A u \in Workers \ {w} : call'[u] = call[u]
    BY <1>9 DEF AnswerLost, Goto, TypeOK
  <2>2. Knows(w)
    BY DEF EffectInv
  <2>3. Knows(w)'
    <3>1. CASE call[w].pc = "tx"
      BY <1>9, <3>1 DEF AnswerLost, Goto, Knows, TypeOK, Call
    <3>2. CASE call[w].pc = "undo"
      <4>1. /\ call'[w].pc = "undoFailing" /\ call'[w].step = call[w].step
            /\ call[w].step \in Steps
        BY <1>9, <3>2 DEF AnswerLost, Goto, TypeOK, Call
      <4> QED  BY <2>2, <3>2, <4>1 DEF Knows, Grows
    <3> QED  BY <1>9, <3>1, <3>2 DEF AnswerLost
  <2> QED  BY <1>9, <2>1, <2>3, EffectFrame DEF AnswerLost
<1>10. CASE UNCHANGED <<row, call>>
  BY <1>10, EffectFrame
<1> QED  BY <1>1, <1>2, <1>3, <1>5, <1>6, <1>7, <1>8, <1>9, <1>10
         DEF Next, Run, Sweep, SweepLoad, SweepSkip, Age, SweepError, vars

\* A status that closes a step is backed by its committed transactions in
\* every behaviour, whatever handles, sweeps, crashes and errors interleave.
THEOREM EffectBehindStatusCorrect == Spec => []EffectBehindStatus
<1>1. EffectInv => EffectBehindStatus
  BY DEF EffectInv, EffectBehindStatus, Backed
<1> QED  BY <1>1, EffectInit, EffectStep, PTL DEF Spec

-----------------------------------------------------------------------------
(* Once only.                                                              *)

Guarded(s) == OneCall(s) /\ ForwardGuarded(s) /\ UndoGuarded(s)

LEMMA OnceInit == Init => OnceInv
<1> SUFFICES ASSUME Init, NEW s \in Steps
             PROVE  Guarded(s)
  BY DEF OnceInv, Guarded
<1>1. InFlight(s) = {}  BY DEF Init, InFlight, IdleCall
<1>2. done[s] = 0 /\ undone[s] = 0  BY DEF Init
<1> QED  BY <1>1, <1>2 DEF Guarded, OneCall, ForwardGuarded, UndoGuarded

\* A step that no call, row, effect or trouble of a transition concerns.
LEMMA OnceUntouched ==
  ASSUME NEW s \in Steps, Guarded(s),
         row'[s] = row[s], done'[s] = done[s], undone'[s] = undone[s],
         trouble'[s] = trouble[s],
         \A w \in Workers :
           \/ call'[w] = call[w]
           \/ w \notin InFlight(s) /\ w \notin InFlight(s)'
  PROVE  Guarded(s)'
<1>1. \A w : w \in InFlight(s)' <=> w \in InFlight(s)
  BY DEF InFlight
<1>2. \A w \in InFlight(s) : call'[w] = call[w]
  BY DEF InFlight
<1>3. InFlight(s)' = InFlight(s)
  BY <1>1
<1>4. OneCall(s)'
  BY <1>3 DEF Guarded, OneCall
<1>5. ForwardGuarded(s)'
  BY <1>1, <1>2 DEF Guarded, ForwardGuarded, Clean
<1>6. UndoGuarded(s)'
  BY <1>1, <1>2 DEF Guarded, UndoGuarded, UndoClean
<1> QED  BY <1>4, <1>5, <1>6 DEF Guarded

\* A step on which calls have overlapped has nothing to keep.
LEMMA OnceOverlapped ==
  ASSUME NEW s \in Steps, "overlap" \in trouble'[s]
  PROVE  Guarded(s)'
  BY DEF Guarded, OneCall, ForwardGuarded, UndoGuarded, Clean, UndoClean

\* The calls in flight on s are known: none but w.
LEMMA OnceAlone ==
  ASSUME NEW s \in Steps, NEW w \in Workers,
         \A u \in InFlight(s)' : u = w,
         Clean(s)' =>
           /\ done'[s] <= 1
           /\ w \in InFlight(s)' /\ call'[w].pc \in Forward => done'[s] = 0
           /\ done'[s] > 0 /\ row'[s].status \notin Closed =>
                w \in InFlight(s)' /\ call'[w].pc = "committing",
         UndoClean(s)' =>
           /\ undone'[s] <= 1
           /\ w \in InFlight(s)' /\ call'[w].pc # "compensating" => undone'[s] = 0
           /\ undone'[s] > 0 =>
                \/ row'[s].status \in {"compensated", "escalated"}
                \/ w \in InFlight(s)' /\ call'[w].pc = "compensating"
  PROVE  Guarded(s)'
<1>1. OneCall(s)'  BY DEF OneCall
<1>2. ForwardGuarded(s)'
  <2> SUFFICES ASSUME Clean(s)'
               PROVE  /\ done'[s] <= 1
                      /\ \A u \in InFlight(s)' : call'[u].pc \in Forward => done'[s] = 0
                      /\ done'[s] > 0 /\ row'[s].status \notin Closed =>
                           \E u \in InFlight(s)' : call'[u].pc = "committing"
    BY DEF ForwardGuarded, Closed
  <2> QED  OBVIOUS
<1>3. UndoGuarded(s)'
  <2> SUFFICES ASSUME UndoClean(s)'
               PROVE  /\ undone'[s] <= 1
                      /\ \A u \in InFlight(s)' : call'[u].pc # "compensating" => undone'[s] = 0
                      /\ undone'[s] > 0 =>
                           \/ row'[s].status \in {"compensated", "escalated"}
                           \/ \E u \in InFlight(s)' : call'[u].pc = "compensating"
    BY DEF UndoGuarded
  <2> QED  OBVIOUS
<1> QED  BY <1>1, <1>2, <1>3 DEF Guarded

\* One call moves, on one step; the others keep theirs.
LEMMA OnceCall ==
  ASSUME TypeOK, OnceInv, NEW w \in Workers, NEW s \in Steps,
         w \in InFlight(s) \/ call[w].pc = "idle",
         call'[w].step = s \/ call'[w].pc = "idle",
         \A u \in Workers \ {w} : call'[u] = call[u],
         \A t \in Steps \ {s} :
           /\ row'[t] = row[t] /\ done'[t] = done[t]
           /\ undone'[t] = undone[t] /\ trouble'[t] = trouble[t],
         Guarded(s)'
  PROVE  OnceInv'
<1> SUFFICES ASSUME NEW t \in Steps \ {s}
             PROVE  Guarded(t)'
  BY DEF OnceInv, Guarded
<1>1. Guarded(t)  BY DEF OnceInv, Guarded
<1>2. w \notin InFlight(t) /\ w \notin InFlight(t)'
  BY DEF InFlight
<1> QED  BY <1>1, <1>2, OnceUntouched

LEMMA OnceBegin ==
  ASSUME TypeOK, TypeOK', OnceInv, NEW w \in Workers, NEW s \in Steps, Begin(w, s)
  PROVE  OnceInv'
<1>1. /\ \A u \in Workers \ {w} : call'[u] = call[u]
      /\ call'[w].pc = "starting" /\ call'[w].step = s
      /\ call[w].pc = "idle" /\ row[s].status \notin Closed
      /\ UNCHANGED <<row, done, undone>>
      /\ trouble' = [trouble EXCEPT ![s] = @ \cup Overlap(s)]
  BY DEF Begin, TypeOK, Report
<1>2. Guarded(s)'
  <2>1. CASE InFlight(s) # {}
    BY <1>1, <2>1, OnceOverlapped DEF Overlap, TypeOK
  <2>2. CASE InFlight(s) = {}
    <3>1. trouble'[s] = trouble[s]  BY <1>1, <2>2 DEF Overlap, TypeOK
    <3>2. \A u \in InFlight(s)' : u = w  BY <1>1, <2>2 DEF InFlight
    <3>3. ForwardGuarded(s) /\ UndoGuarded(s)  BY DEF OnceInv
    <3>4. Clean(s)' => Clean(s) /\ done[s] = 0
      BY <1>1, <2>2, <3>1, <3>3 DEF Clean, ForwardGuarded, TypeOK
    <3>5. UndoClean(s)' => UndoClean(s) /\ undone[s] = 0
      BY <1>1, <2>2, <3>1, <3>3 DEF UndoClean, UndoGuarded, TypeOK, Closed
    <3> QED  BY <1>1, <3>2, <3>4, <3>5, OnceAlone
  <2> QED  BY <2>1, <2>2
<1>3. \A t \in Steps \ {s} : trouble'[t] = trouble[t]
  BY <1>1 DEF TypeOK
<1> QED  BY <1>1, <1>2, <1>3, OnceCall

LEMMA OnceCompensate ==
  ASSUME TypeOK, TypeOK', OnceInv, NEW w \in Workers, NEW s \in Steps, Compensate(w, s)
  PROVE  OnceInv'
<1>1. /\ \A u \in Workers \ {w} : call'[u] = call[u]
      /\ call'[w].pc = "undo" /\ call'[w].step = s
      /\ call[w].pc = "idle" /\ row[s].status = "committed"
      /\ UNCHANGED <<row, done, undone>>
      /\ trouble' = [trouble EXCEPT ![s] = @ \cup Overlap(s)]
  BY DEF Compensate, TypeOK, Report
<1>2. Guarded(s)'
  <2>1. CASE InFlight(s) # {}
    BY <1>1, <2>1, OnceOverlapped DEF Overlap, TypeOK
  <2>2. CASE InFlight(s) = {}
    <3>1. trouble'[s] = trouble[s]  BY <1>1, <2>2 DEF Overlap, TypeOK
    <3>2. \A u \in InFlight(s)' : u = w  BY <1>1, <2>2 DEF InFlight
    <3>3. ForwardGuarded(s) /\ UndoGuarded(s)  BY DEF OnceInv
    <3>4. Clean(s)' => Clean(s) /\ done[s] <= 1
      BY <3>1, <3>3 DEF Clean, ForwardGuarded
    <3>5. UndoClean(s)' => UndoClean(s) /\ undone[s] = 0
      BY <1>1, <2>2, <3>1, <3>3 DEF UndoClean, UndoGuarded, TypeOK
    <3> QED  BY <1>1, <3>2, <3>4, <3>5, OnceAlone DEF Closed
  <2> QED  BY <2>1, <2>2
<1>3. \A t \in Steps \ {s} : trouble'[t] = trouble[t]
  BY <1>1 DEF TypeOK
<1> QED  BY <1>1, <1>2, <1>3, OnceCall

\* A status written over a row by someone who has no call on the step.
LEMMA OnceMark ==
  ASSUME TypeOK, TypeOK', OnceInv, NEW s \in Steps, NEW x \in Status, Mark(s, x),
         UNCHANGED <<call, done, undone>>,
         \/ x = "escalated" /\ UNCHANGED trouble
         \/ trouble' = [trouble EXCEPT ![s] = @ \cup {"forced"}]
  PROVE  OnceInv'
<1> SUFFICES ASSUME NEW t \in Steps
             PROVE  Guarded(t)'
  BY DEF OnceInv, Guarded
<1>1. Guarded(t) /\ InFlight(t)' = InFlight(t)
  BY DEF OnceInv, Guarded, InFlight
<1>2. t # s => row'[t] = row[t] /\ trouble'[t] = trouble[t]
  BY DEF Mark, Write, TypeOK
<1>3. row'[s].status = x
  BY DEF Mark, Write, TypeOK, Row
<1>4. CASE t # s
  BY <1>1, <1>2, <1>4, OnceUntouched
<1>5. CASE t = s
  <2>1. OneCall(s)'  BY <1>1, <1>5 DEF Guarded, OneCall, TypeOK
  <2>2. ForwardGuarded(s)'
    BY <1>1, <1>3, <1>5 DEF Guarded, ForwardGuarded, Clean, Closed, TypeOK
  <2>3. UndoGuarded(s)'
    BY <1>1, <1>3, <1>5 DEF Guarded, UndoGuarded, UndoClean, TypeOK
  <2> QED  BY <1>5, <2>1, <2>2, <2>3 DEF Guarded
<1> QED  BY <1>4, <1>5

LEMMA OnceProceed ==
  ASSUME TypeOK, TypeOK', OnceInv, NEW w \in Workers, Proceed(w)
  PROVE  OnceInv'
<1> PICK c \in Call : c = call[w]
  BY DEF TypeOK
<1> PICK s \in Steps : s = c.step
  BY DEF Call
<1>1. c.pc # "idle" /\ w \in InFlight(s)
  BY DEF Proceed, SaveStarting, TxCommits, TxFails, SaveFailed, EscalateOwn,
         SaveCommitted, UndoCommits, UndoFails, SaveCompensated,
         SaveUndoFailed, InFlight, Forward, Backward
<1>2. Guarded(s)  BY DEF OnceInv, Guarded
<1>3. ASSUME NEW pc \in {"idle", "committing"} \cup Forward \cup Backward,
             Goto(w, pc)
      PROVE  /\ \A u \in Workers \ {w} : call'[u] = call[u]
             /\ call'[w].pc = pc /\ call'[w].step = s
  BY <1>3 DEF Goto, TypeOK, Call
<1>4. ASSUME Return(w)
      PROVE  /\ \A u \in Workers \ {w} : call'[u] = call[u]
             /\ call'[w].pc = "idle"
  BY <1>4 DEF Return, TypeOK, IdleCall
<1>5. ASSUME NEW x \in Status, Write(s, [c.snap EXCEPT !.status = x])
      PROVE  row'[s].status = x /\ \A t \in Steps \ {s} : row'[t] = row[t]
  BY <1>5 DEF Write, TypeOK, Call, Row
<1>6. /\ \A u \in Workers \ {w} : call'[u] = call[u]
      /\ call'[w].step = s \/ call'[w].pc = "idle"
  BY <1>3, <1>4
     DEF Proceed, SaveStarting, TxCommits, TxFails, SaveFailed, EscalateOwn,
         SaveCommitted, UndoCommits, UndoFails, SaveCompensated, SaveUndoFailed
<1>7. \A t \in Steps \ {s} :
        /\ row'[t] = row[t] /\ done'[t] = done[t]
        /\ undone'[t] = undone[t] /\ trouble'[t] = trouble[t]
  BY DEF Proceed, SaveStarting, TxCommits, TxFails, SaveFailed, EscalateOwn,
         SaveCommitted, UndoCommits, UndoFails, SaveCompensated, SaveUndoFailed,
         Mark, Write, Report, TypeOK
<1>8. trouble[s] \subseteq trouble'[s]
  BY EffectsOnlyGrow DEF Next, Grows
<1>9. CASE "overlap" \in trouble[s]
  BY <1>1, <1>6, <1>7, <1>8, <1>9, OnceOverlapped, OnceCall
<1>10. CASE "overlap" \notin trouble[s]
  <2>1. \A u \in InFlight(s) : u = w
    BY <1>1, <1>2, <1>10 DEF Guarded, OneCall
  <2>2. \A u \in InFlight(s)' : u = w
    BY <1>6, <2>1 DEF InFlight
  <2>3. Clean(s) =>
          /\ done[s] <= 1
          /\ c.pc \in Forward => done[s] = 0
          /\ done[s] > 0 /\ row[s].status \notin Closed => c.pc = "committing"
    <3>1. ASSUME Clean(s)
          PROVE  /\ done[s] <= 1
                 /\ \A u \in InFlight(s) : call[u].pc \in Forward => done[s] = 0
                 /\ done[s] > 0 /\ row[s].status \notin Closed =>
                      \E u \in InFlight(s) : call[u].pc = "committing"
      BY <1>2, <3>1 DEF Guarded, ForwardGuarded
    <3> QED  BY <1>1, <2>1, <3>1
  <2>4. UndoClean(s) =>
          /\ undone[s] <= 1
          /\ c.pc # "compensating" => undone[s] = 0
    BY <1>1, <1>2 DEF Guarded, UndoGuarded
  <2>5. trouble'[s] = trouble[s] => (Clean(s)' => Clean(s))
    BY DEF Clean
  <2>6. UndoClean(s)' => UndoClean(s)
    BY <1>8 DEF UndoClean
  <2>7. done[s] \in 0 .. 2 /\ undone[s] \in 0 .. 2
    BY DEF TypeOK
  <2> SUFFICES Guarded(s)'
    BY <1>1, <1>6, <1>7, OnceCall
  <2>8. CASE SaveStarting(w)
    <3>1. Goto(w, "tx") /\ c.pc = "starting" /\ UNCHANGED <<done, undone, trouble>>
      BY <2>8 DEF SaveStarting
    <3> QED  BY <1>3, <2>2, <2>3, <2>4, <2>5, <2>6, <2>7, <3>1, OnceAlone
  <2>9. CASE TxCommits(w)
    <3>1. /\ Goto(w, "committing") /\ c.pc = "tx" /\ UNCHANGED <<undone, trouble>>
          /\ done'[s] = Many(done[s])
      BY <2>9 DEF TxCommits, TypeOK
    <3>2. w \in InFlight(s)' /\ call'[w].pc = "committing"
      BY <1>3, <3>1 DEF InFlight
    <3> QED  BY <2>2, <2>3, <2>4, <2>5, <2>6, <2>7, <3>1, <3>2, OnceAlone DEF Many
  <2>10. CASE TxFails(w)
    <3>1. /\ Goto(w, "failing") \/ Goto(w, "refusing")
          /\ c.pc = "tx" /\ UNCHANGED <<done, undone, trouble>>
      BY <2>10 DEF TxFails
    <3> QED  BY <1>3, <2>2, <2>3, <2>4, <2>5, <2>6, <2>7, <3>1, OnceAlone
  <2>11. CASE SaveFailed(w)
    <3>1. /\ c.pc \in {"failing", "refusing"} /\ UNCHANGED <<done, undone, trouble>>
          /\ Goto(w, "escalating") \/ Return(w)
      BY <2>11 DEF SaveFailed
    <3> QED  BY <1>3, <1>4, <2>2, <2>3, <2>4, <2>5, <2>6, <2>7, <3>1, OnceAlone
  <2>12. CASE EscalateOwn(w)
    <3>1. c.pc = "escalating" /\ Return(w) /\ UNCHANGED <<done, undone, trouble>>
      BY <2>12 DEF EscalateOwn
    <3> QED  BY <1>4, <2>2, <2>3, <2>4, <2>5, <2>6, <2>7, <3>1, OnceAlone
  <2>13. CASE SaveCommitted(w)
    <3>1. /\ c.pc = "committing" /\ Return(w) /\ UNCHANGED <<done, undone, trouble>>
          /\ row'[s].status \in Closed
      BY <1>5, <2>13 DEF SaveCommitted, Status, Closed
    <3>2. w \notin InFlight(s)'  BY <1>4, <3>1 DEF InFlight
    <3>3. Closed' = Closed  BY DEF Closed
    <3> QED  BY <2>2, <2>3, <2>4, <2>5, <2>6, <2>7, <3>1, <3>2, <3>3, OnceAlone
  <2>14. CASE UndoCommits(w)
    <3>1. /\ c.pc = "undo" /\ Goto(w, "compensating")
          /\ UNCHANGED <<row, done, trouble>>
          /\ undone'[s] = Many(undone[s])
      BY <2>14 DEF UndoCommits, TypeOK
    <3>2. w \in InFlight(s)' /\ call'[w].pc = "compensating"
      BY <1>3, <3>1 DEF InFlight
    <3> QED  BY <2>2, <2>3, <2>4, <2>5, <2>6, <2>7, <3>1, <3>2, OnceAlone DEF Many, Closed
  <2>15. CASE UndoFails(w)
    <3>1. /\ c.pc = "undo" /\ Goto(w, "undoFailing")
          /\ UNCHANGED <<row, done, undone, trouble>>
      BY <2>15 DEF UndoFails
    <3> QED  BY <1>3, <2>2, <2>3, <2>4, <2>5, <2>6, <2>7, <3>1, OnceAlone DEF Closed
  <2>16. CASE SaveCompensated(w)
    <3>1. /\ c.pc = "compensating" /\ Return(w) /\ UNCHANGED <<done, undone, trouble>>
          /\ row'[s].status = "compensated"
      BY <1>5, <2>16 DEF SaveCompensated, Status
    <3>2. w \notin InFlight(s)'  BY <1>4, <3>1 DEF InFlight
    <3> QED  BY <2>2, <2>3, <2>4, <2>5, <2>6, <2>7, <3>1, <3>2, OnceAlone DEF Closed
  <2>17. CASE SaveUndoFailed(w)
    <3>1. /\ c.pc = "undoFailing" /\ Return(w) /\ UNCHANGED <<done, undone>>
          /\ ~Clean(s)'
      BY <2>17 DEF SaveUndoFailed, Report, Clean, TypeOK
    <3>2. w \notin InFlight(s)'  BY <1>4, <3>1 DEF InFlight
    <3> QED  BY <2>2, <2>4, <2>6, <2>7, <3>1, <3>2, OnceAlone
  <2> QED  BY <2>8, <2>9, <2>10, <2>11, <2>12, <2>13, <2>14, <2>15, <2>16,
              <2>17 DEF Proceed
<1> QED  BY <1>9, <1>10

\* A call ends early, or goes on to escalate after a failed save.
LEMMA OnceFault ==
  ASSUME TypeOK, TypeOK', OnceInv, NEW w \in Workers, RepoError(w) \/ Crash(w)
  PROVE  OnceInv'
<1> PICK c \in Call : c = call[w]
  BY DEF TypeOK
<1> PICK s \in Steps : s = c.step
  BY DEF Call
<1>1. /\ \A u \in Workers \ {w} : call'[u] = call[u]
      /\ \/ call'[w].pc = "idle"
         \/ c.pc = "refusing" /\ call'[w].pc = "escalating" /\ call'[w].step = s
      /\ UNCHANGED <<row, done, undone>>
      /\ trouble' = [trouble EXCEPT ![s] = @ \cup Lost(w)]
  BY DEF RepoError, Crash, Goto, Return, IdleCall, Report, TypeOK, Call
<1>2. Guarded(s) /\ (w \in InFlight(s) \/ c.pc = "idle")
  BY DEF OnceInv, Guarded, InFlight
<1>3. trouble[s] \subseteq trouble'[s] /\ \A t \in Steps \ {s} : trouble'[t] = trouble[t]
  BY <1>1 DEF TypeOK
<1> SUFFICES Guarded(s)'
  BY <1>1, <1>2, <1>3, OnceCall
<1>4. CASE c.pc = "idle"
  <2>1. call'[w].pc = "idle" /\ Lost(w) = {}
    BY <1>1, <1>4 DEF Lost
  <2>2. \A u \in Workers : call'[u] = call[u] \/ (u \notin InFlight(s) /\ u \notin InFlight(s)')
    BY <1>1, <1>4, <2>1 DEF InFlight
  <2> QED  BY <1>1, <1>2, <2>1, <2>2, OnceUntouched DEF TypeOK
<1>5. CASE "overlap" \in trouble[s]
  BY <1>3, <1>5, OnceOverlapped
<1>6. CASE c.pc # "idle" /\ "overlap" \notin trouble[s]
  <2>1. w \in InFlight(s) /\ \A u \in InFlight(s) : u = w
    BY <1>2, <1>6 DEF Guarded, OneCall
  <2>2. \A u \in InFlight(s)' : u = w
    BY <1>1, <2>1 DEF InFlight
  <2>3. Clean(s)' => Clean(s) /\ c.pc # "committing"
    BY <1>1, <1>3 DEF Clean, Lost, TypeOK
  <2>4. UndoClean(s)' => UndoClean(s) /\ c.pc # "compensating"
    BY <1>1, <1>3 DEF UndoClean, Lost, TypeOK
  <2>5. Clean(s) =>
          /\ done[s] <= 1
          /\ c.pc \in Forward => done[s] = 0
          /\ done[s] > 0 /\ row[s].status \notin Closed => c.pc = "committing"
    <3>1. ASSUME Clean(s)
          PROVE  /\ done[s] <= 1
                 /\ \A u \in InFlight(s) : call[u].pc \in Forward => done[s] = 0
                 /\ done[s] > 0 /\ row[s].status \notin Closed =>
                      \E u \in InFlight(s) : call[u].pc = "committing"
      BY <1>2, <3>1 DEF Guarded, ForwardGuarded
    <3> QED  BY <2>1, <3>1
  <2>6. UndoClean(s) => undone[s] <= 1 /\ (c.pc # "compensating" => undone[s] = 0)
    BY <1>2, <2>1 DEF Guarded, UndoGuarded
  <2> QED  BY <1>1, <2>2, <2>3, <2>4, <2>5, <2>6, OnceAlone DEF InFlight, Closed
<1> QED  BY <1>4, <1>5, <1>6

\* An answer lost is trouble of its own, which excuses what it hides.
LEMMA OnceAnswerLost ==
  ASSUME TypeOK, TypeOK', OnceInv, NEW w \in Workers, AnswerLost(w)
  PROVE  OnceInv'
<1> PICK c \in Call : c = call[w]
  BY DEF TypeOK
<1> PICK s \in Steps : s = c.step
  BY DEF Call
<1>1. /\ \A u \in Workers \ {w} : call'[u] = call[u]
      /\ call'[w].step = s /\ w \in InFlight(s) /\ UNCHANGED row
      /\ \A t \in Steps \ {s} :
           done'[t] = done[t] /\ undone'[t] = undone[t] /\ trouble'[t] = trouble[t]
  BY DEF AnswerLost, Goto, Report, InFlight, TypeOK, Call
<1>2. Guarded(s)
  BY DEF OnceInv, Guarded
<1> SUFFICES Guarded(s)'
  BY <1>1, OnceCall
<1>3. trouble[s] \subseteq trouble'[s]
  BY EffectsOnlyGrow DEF Next, Grows
<1>4. CASE "overlap" \in trouble[s]
  BY <1>3, <1>4, OnceOverlapped
<1>5. CASE "overlap" \notin trouble[s]
  <2>1. \A u \in InFlight(s) : u = w
    BY <1>1, <1>2, <1>5 DEF Guarded, OneCall
  <2>2. \A u \in InFlight(s)' : u = w
    BY <1>1, <2>1 DEF InFlight
  <2>3. CASE c.pc = "tx"
    <3>1. /\ UNCHANGED undone /\ "lostCommit" \in trouble'[s]
          /\ call'[w].pc = "failing"
      BY <2>3 DEF AnswerLost, Goto, Report, TypeOK, Call
    <3>2. UndoClean(s)' => UndoClean(s)
      BY <1>3 DEF UndoClean
    <3>3. UndoClean(s) => undone[s] = 0
      BY <1>1, <1>2, <2>3 DEF Guarded, UndoGuarded
    <3> QED  BY <2>2, <3>1, <3>2, <3>3, OnceAlone DEF Clean
  <2>4. CASE c.pc = "undo"
    <3>1. /\ UNCHANGED <<row, done>> /\ "lostUndo" \in trouble'[s]
          /\ call'[w].pc = "undoFailing"
          /\ trouble' = [trouble EXCEPT ![s] = @ \cup {"lostUndo"}]
      BY <2>4 DEF AnswerLost, Goto, Report, TypeOK, Call
    <3>2. Clean(s)' => Clean(s)
      BY <1>3 DEF Clean
    <3>3. Clean(s) => done[s] <= 1 /\ (done[s] > 0 => row[s].status \in Closed)
      BY <1>2, <2>1, <2>4 DEF Guarded, ForwardGuarded
    <3> QED  BY <2>2, <3>1, <3>2, <3>3, OnceAlone DEF UndoClean, Closed
  <2> QED  BY <2>3, <2>4 DEF AnswerLost
<1> QED  BY <1>4, <1>5

LEMMA OnceStep == TypeOK /\ OnceInv /\ [Next]_vars => OnceInv'
<1> SUFFICES ASSUME TypeOK, OnceInv, [Next]_vars
             PROVE  OnceInv'
  OBVIOUS
<1> TypeOK'
  BY TypeStep
<1>1. ASSUME NEW h \in Handles, NEW s \in Steps, Run(h, s)
      PROVE  OnceInv'
  BY <1>1, OnceBegin DEF Run
<1>2. ASSUME NEW h \in Handles, NEW s \in Steps, Compensate(h, s)
      PROVE  OnceInv'
  BY <1>2, OnceCompensate
<1>3. ASSUME NEW w \in Workers, Proceed(w)
      PROVE  OnceInv'
  BY <1>3, OnceProceed
<1>4. ASSUME NEW w \in Sweepers, NEW v \in todo[w], SweepEscalate(w, v)
      PROVE  OnceInv'
  <2>1. v.step \in Steps  BY DEF TypeOK
  <2> QED  BY <1>4, <2>1, OnceMark DEF SweepEscalate, Status
<1>5. ASSUME NEW w \in Sweepers, NEW v \in todo[w], SweepRetry(w, v)
      PROVE  OnceInv'
  <2>1. v.step \in Steps  BY DEF TypeOK
  <2> QED  BY <1>5, <2>1, OnceBegin DEF SweepRetry
<1>6. ASSUME NEW s \in Steps, NEW t \in ForceTargets, ForceResolve(s, t)
      PROVE  OnceInv'
  <2>1. t \in Status  BY ForceTargetsAssumption DEF Status
  <2> QED  BY <1>6, <2>1, OnceMark DEF ForceResolve, Report
<1>7. ASSUME NEW w \in Workers, RepoError(w) \/ Crash(w)
      PROVE  OnceInv'
  BY <1>7, OnceFault
<1>8. ASSUME NEW w \in Workers, AnswerLost(w)
      PROVE  OnceInv'
  BY <1>8, OnceAnswerLost
<1>9. CASE UNCHANGED <<row, call, done, undone, trouble>>
  <2> SUFFICES ASSUME NEW t \in Steps
               PROVE  Guarded(t)'
    BY DEF OnceInv, Guarded
  <2> QED  BY <1>9, OnceUntouched DEF OnceInv, Guarded
<1> QED  BY <1>1, <1>2, <1>3, <1>4, <1>5, <1>6, <1>7, <1>8, <1>9
         DEF Next, Sweep, SweepLoad, SweepSkip, Age, SweepError, vars

\* A forward transaction, or a compensation, commits a second time only after
\* one of the troubles the property names, for any number of handles, sweeps,
\* steps, attempts and faults.
THEOREM OnceCorrect == Spec => []RunsOnce
<1>1. TypeOK /\ OnceInv => RunsOnce
  <2> SUFFICES ASSUME TypeOK, OnceInv
               PROVE  ForwardOnce /\ UndoOnce
    BY DEF RunsOnce
  <2>1. \A s \in Steps : ForwardGuarded(s) /\ UndoGuarded(s)
    BY DEF OnceInv
  <2>2. ForwardOnce
    BY <2>1 DEF ForwardOnce, ForwardGuarded, Clean, TypeOK
  <2>3. UndoOnce
    BY <2>1 DEF UndoOnce, UndoGuarded, UndoClean, TypeOK
  <2> QED  BY <2>2, <2>3
<1> QED  BY <1>1, TypeInit, TypeStep, OnceInit, OnceStep, PTL DEF Spec
=============================================================================
