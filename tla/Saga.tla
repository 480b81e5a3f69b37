-------------------------------- MODULE Saga --------------------------------
(***************************************************************************)
(* The saga engine of apps/partner-api/internal/saga: the step store       *)
(* (MemRepo, the only Repository in the tree), the handles on which        *)
(* services call Run, RunWithInput and Compensate, the retry sweep and     *)
(* the storage half of a force-resolve.                                    *)
(*                                                                         *)
(* A call is broken where the code leaves the step unprotected: the        *)
(* repository read, each repository write and the business transaction     *)
(* are separate atomic steps, so other handles, the sweep, a crash or a    *)
(* repository error can fall between any two of them.  The mutex of the    *)
(* code belongs to one handle (instance.mu), so a handle has at most one   *)
(* call in flight while two handles on the same saga exclude nothing.      *)
(*                                                                         *)
(* The rows are those of one saga: sagas share nothing but the batch.      *)
(***************************************************************************)
EXTENDS Naturals, FiniteSets

CONSTANTS
  Steps,        \* step names of the saga
  Handles,      \* handles held by service calls (NewSaga / Resume)
  Sweepers,     \* replicas that run the retry sweep
  WithInput,    \* steps their service advances with RunWithInput, not Run:
                \* only these have a payload, hence something to replay
  Registered,   \* steps RegisterStep knows
  Compensable,  \* steps their service knows how to compensate
  MaxAttempts,  \* saga.MaxAttempts (30 in the code)
  Batch,        \* the sweep's batch size (100 in the code)
  ForceTargets, \* targets an administrator may force a step to
  MaxFaults     \* bound: crashes and repository errors in a behaviour

ASSUME StepsAssumption == Steps # {}
ASSUME WorkersAssumption == Handles \cap Sweepers = {}
ASSUME BoundsAssumption ==
  MaxAttempts \in Nat \ {0} /\ Batch \in Nat \ {0} /\ MaxFaults \in Nat
ASSUME ForceTargetsAssumption ==
  ForceTargets \subseteq {"committed", "compensated", "released_pessimistic"}

VARIABLES
  row,      \* step -> its stored row
  aged,     \* steps whose StartedAt lies MaxWallClock or more in the past
  older,    \* pairs <<s, t>> with s.UpdatedAt before t.UpdatedAt
  call,     \* worker -> the call it has in flight
  todo,     \* worker -> copies of the rows its sweep still has to visit
  faults,   \* crashes and repository errors so far
  done,     \* step -> committed forward transactions, 2 meaning several
  undone,   \* step -> committed compensations, 2 meaning several
  trouble   \* step -> what has gone wrong around it (history)

vars == <<row, aged, older, call, todo, faults, done, undone, trouble>>

Workers == Handles \cup Sweepers

Status == {"none", "in_progress", "committed", "compensated", "failed",
           "escalated", "released_pessimistic"}

\* Mutants (a fault seeded into the definition that follows) end in "Bug".
ClosedBug == {"escalated", "compensated"}
RetryableBug == {"failed"}

\* Run and RunWithInput refuse (or skip) a step in one of these states.
Closed == {"committed", "escalated", "compensated"}
Retryable == {"in_progress", "failed"}

\* Every start of a step counts an attempt, so a stored row has one at least.
Row == {r \in [status : Status, attempts : 0 .. MaxAttempts] :
          r.status = "none" <=> r.attempts = 0}
NoRow == [status |-> "none", attempts |-> 0]

Trouble == {"overlap", "lostCommit", "lostUndo", "undoFailed", "forced"}

Forward == {"starting", "tx", "failing", "refusing", "escalating"}
Backward == {"undo", "compensating", "undoFailing"}
Call == [pc : {"idle", "committing"} \cup Forward \cup Backward,
         step : Steps, snap : Row, old : BOOLEAN]
IdleCall == [pc |-> "idle", step |-> CHOOSE s \in Steps : TRUE,
             snap |-> NoRow, old |-> FALSE]

InFlight(s) == {w \in Workers : call[w].pc # "idle" /\ call[w].step = s}
Many(n) == IF n = 0 THEN 1 ELSE 2

-----------------------------------------------------------------------------
(* The pure parts of a call.                                               *)

\* attempts past MaxAttempts are not told apart: only >= MaxAttempts is read
NextAttempt(n) == IF n < MaxAttempts THEN n + 1 ELSE n

\* the attempt that starts is not counted
StartingBug(r) ==
  [status |-> "in_progress", attempts |-> r.attempts]

\* snapshotStarting
Starting(r) ==
  [status |-> "in_progress", attempts |-> NextAttempt(r.attempts)]

ShouldEscalate(r, old) == r.attempts >= MaxAttempts \/ old

Write(s, r) ==
  /\ row' = [row EXCEPT ![s] = r]
  /\ older' = {p \in older : p[1] # s /\ p[2] # s}
                \cup {<<t, s>> : t \in Steps \ {s}}

Mark(s, status) == Write(s, [row[s] EXCEPT !.status = status])

Goto(w, pc) == call' = [call EXCEPT ![w].pc = pc]
Return(w) == call' = [call EXCEPT ![w] = IdleCall]
Report(s, what) == trouble' = [trouble EXCEPT ![s] = @ \cup what]
Overlap(s) == IF InFlight(s) # {} THEN {"overlap"} ELSE {}

-----------------------------------------------------------------------------
(* Run and RunWithInput, one after the other in the source, alike but for  *)
(* the payload and for ErrPermanent.                                       *)

\* GetStep and the status switch; `now` is taken here, once, for the call.
Begin(w, s) ==
  /\ call[w].pc = "idle"
  /\ row[s].status \notin Closed
  /\ call' = [call EXCEPT ![w] =
                [pc |-> "starting", step |-> s,
                 snap |-> Starting(row[s]), old |-> s \in aged]]
  /\ Report(s, Overlap(s))
  /\ UNCHANGED <<row, aged, older, faults, done, undone>>

Run(h, s) == Begin(h, s) /\ UNCHANGED todo

SaveStarting(w) ==
  /\ call[w].pc = "starting"
  /\ Write(call[w].step, call[w].snap)
  /\ Goto(w, "tx")
  /\ UNCHANGED <<aged, todo, faults, done, undone, trouble>>

\* the transaction's error is swallowed
TxFailsBug(w) ==
  /\ call[w].pc = "tx"
  /\ Goto(w, "committing")
  /\ UNCHANGED <<row, aged, older, todo, faults, done, undone, trouble>>

\* The business transaction commits, fails, or fails for good (ErrPermanent,
\* which only RunWithInput looks at).
TxCommits(w) ==
  /\ call[w].pc = "tx"
  /\ done' = [done EXCEPT ![call[w].step] = Many(@)]
  /\ Goto(w, "committing")
  /\ UNCHANGED <<row, aged, older, todo, faults, undone, trouble>>

TxFails(w) ==
  /\ call[w].pc = "tx"
  /\ \/ Goto(w, "failing")
     \/ call[w].step \in WithInput /\ Goto(w, "refusing")
  /\ UNCHANGED <<row, aged, older, todo, faults, done, undone, trouble>>

SaveFailed(w) ==
  LET c == call[w] IN
  /\ c.pc \in {"failing", "refusing"}
  /\ Write(c.step, [c.snap EXCEPT !.status = "failed"])
  /\ IF c.pc = "refusing" \/ ShouldEscalate(c.snap, c.old)
       THEN Goto(w, "escalating")
       ELSE Return(w)
  /\ UNCHANGED <<aged, todo, faults, done, undone, trouble>>

EscalateOwn(w) ==
  /\ call[w].pc = "escalating"
  /\ Mark(call[w].step, "escalated")
  /\ Return(w)
  /\ UNCHANGED <<aged, todo, faults, done, undone, trouble>>

SaveCommitted(w) ==
  /\ call[w].pc = "committing"
  /\ Write(call[w].step, [call[w].snap EXCEPT !.status = "committed"])
  /\ Return(w)
  /\ UNCHANGED <<aged, todo, faults, done, undone, trouble>>

-----------------------------------------------------------------------------
(* Compensate.                                                             *)

Compensate(h, s) ==
  /\ s \in Compensable
  /\ call[h].pc = "idle"
  /\ row[s].status = "committed"
  /\ call' = [call EXCEPT ![h] =
                [pc |-> "undo", step |-> s,
                 snap |-> row[s], old |-> FALSE]]
  /\ Report(s, Overlap(s))
  /\ UNCHANGED <<row, aged, older, todo, faults, done, undone>>

UndoCommits(w) ==
  /\ call[w].pc = "undo"
  /\ undone' = [undone EXCEPT ![call[w].step] = Many(@)]
  /\ Goto(w, "compensating")
  /\ UNCHANGED <<row, aged, older, todo, faults, done, trouble>>

UndoFails(w) ==
  /\ call[w].pc = "undo"
  /\ Goto(w, "undoFailing")
  /\ UNCHANGED <<row, aged, older, todo, faults, done, undone, trouble>>

\* the snapshot is saved with the status it was read with
SaveCompensatedBug(w) ==
  /\ call[w].pc = "compensating"
  /\ Write(call[w].step, call[w].snap)
  /\ Return(w)
  /\ UNCHANGED <<aged, todo, faults, done, undone, trouble>>

SaveCompensated(w) ==
  /\ call[w].pc = "compensating"
  /\ Write(call[w].step, [call[w].snap EXCEPT !.status = "compensated"])
  /\ Return(w)
  /\ UNCHANGED <<aged, todo, faults, done, undone, trouble>>

\* A failed compensation leaves the step "failed", like a failed forward run.
SaveUndoFailed(w) ==
  /\ call[w].pc = "undoFailing"
  /\ Write(call[w].step, [call[w].snap EXCEPT !.status = "failed"])
  /\ Return(w)
  /\ Report(call[w].step, {"undoFailed"})
  /\ UNCHANGED <<aged, todo, faults, done, undone>>

-----------------------------------------------------------------------------
(* The retry sweep.                                                        *)

\* LoadPendingRetries: copies of the Batch least recently updated rows.  The
\* sweep decides on these copies; it visits them in that order, which the
\* model leaves open.
Due == {s \in Steps : row[s].status \in Retryable}
Load == {[step |-> s, row |-> row[s]] :
           s \in {t \in Due : Cardinality({u \in Due : <<u, t>> \in older}) < Batch}}

SweepLoad(w) ==
  /\ call[w].pc = "idle" /\ todo[w] = {}
  /\ Load # {}
  /\ todo' = [todo EXCEPT ![w] = Load]
  /\ UNCHANGED <<row, aged, older, call, faults, done, undone, trouble>>

Visit(w, v) ==
  /\ call[w].pc = "idle"
  /\ v \in todo[w]
  /\ todo' = [todo EXCEPT ![w] = @ \ {v}]
Expired(v) == ShouldEscalate(v.row, v.step \in aged)

\* MarkEscalated looks at nothing the row has become since it was loaded.
SweepEscalate(w, v) ==
  /\ Visit(w, v) /\ Expired(v)
  /\ Mark(v.step, "escalated")
  /\ UNCHANGED <<aged, call, faults, done, undone, trouble>>

Replayable(v) == v.step \in WithInput \cap Registered

\* RunWithInput on a fresh instance, which reads the row again.
SweepRetry(w, v) ==
  /\ Visit(w, v) /\ ~Expired(v) /\ Replayable(v)
  /\ Begin(w, v.step)

\* Backoff not elapsed (any row may be that young), nothing to replay, or
\* RunWithInput finding the step closed in the meantime.
SweepSkip(w, v) ==
  /\ Visit(w, v) /\ ~Expired(v)
  /\ UNCHANGED <<row, aged, older, call, faults, done, undone, trouble>>

-----------------------------------------------------------------------------
(* Force-resolve, time, faults.                                            *)

\* Repository.ForceResolve: no condition on the current status.
ForceResolve(s, target) ==
  /\ row[s].status # "none"
  /\ Mark(s, target)
  /\ Report(s, {"forced"})
  /\ UNCHANGED <<aged, call, todo, faults, done, undone>>

\* An hour has passed since the first attempt of s.
Age(s) ==
  /\ row[s].status # "none" /\ s \notin aged
  /\ aged' = aged \cup {s}
  /\ UNCHANGED <<row, older, call, todo, faults, done, undone, trouble>>

\* What is lost with a call that ends before its last save.
Lost(w) == CASE call[w].pc = "committing" -> {"lostCommit"}
             [] call[w].pc = "compensating" -> {"lostUndo"}
             [] OTHER -> {}

\* A Save or MarkEscalated of the call returns an error.
RepoError(w) ==
  /\ call[w].pc \notin {"idle", "tx", "undo"}
  /\ faults < MaxFaults
  /\ faults' = faults + 1
  /\ IF call[w].pc = "refusing" THEN Goto(w, "escalating") ELSE Return(w)
  /\ Report(call[w].step, Lost(w))
  /\ UNCHANGED <<row, aged, older, todo, done, undone>>

\* MarkEscalated fails in the sweep: the row is skipped until the next tick.
SweepError(w, v) ==
  /\ Visit(w, v) /\ Expired(v)
  /\ faults < MaxFaults
  /\ faults' = faults + 1
  /\ UNCHANGED <<row, aged, older, call, done, undone, trouble>>

\* The business transaction commits, and the answer is lost on the way:
\* WithTx returns the error of the commit, and the call takes it for a failure.
AnswerLost(w) ==
  /\ faults < MaxFaults
  /\ faults' = faults + 1
  /\ \/ /\ call[w].pc = "tx"
        /\ done' = [done EXCEPT ![call[w].step] = Many(@)]
        /\ Goto(w, "failing")
        /\ Report(call[w].step, {"lostCommit"})
        /\ UNCHANGED undone
     \/ /\ call[w].pc = "undo"
        /\ undone' = [undone EXCEPT ![call[w].step] = Many(@)]
        /\ Goto(w, "undoFailing")
        /\ Report(call[w].step, {"lostUndo"})
        /\ UNCHANGED done
  /\ UNCHANGED <<row, aged, older, todo>>

\* The process holding the handle dies; its transaction, if open, rolls back.
Crash(w) ==
  /\ call[w].pc # "idle" \/ todo[w] # {}
  /\ faults < MaxFaults
  /\ faults' = faults + 1
  /\ Return(w)
  /\ todo' = [todo EXCEPT ![w] = {}]
  /\ Report(call[w].step, Lost(w))
  /\ UNCHANGED <<row, aged, older, done, undone>>

-----------------------------------------------------------------------------
Init ==
  /\ row = [s \in Steps |-> NoRow]
  /\ aged = {}
  /\ older = {}
  /\ call = [w \in Workers |-> IdleCall]
  /\ todo = [w \in Workers |-> {}]
  /\ faults = 0
  /\ done = [s \in Steps |-> 0]
  /\ undone = [s \in Steps |-> 0]
  /\ trouble = [s \in Steps |-> {}]

Proceed(w) ==
  \/ SaveStarting(w) \/ TxCommits(w) \/ TxFails(w) \/ SaveFailed(w)
  \/ EscalateOwn(w) \/ SaveCommitted(w) \/ UndoCommits(w) \/ UndoFails(w)
  \/ SaveCompensated(w) \/ SaveUndoFailed(w)

Sweep(w) ==
  \/ SweepLoad(w)
  \/ \E v \in todo[w] : SweepEscalate(w, v) \/ SweepRetry(w, v) \/ SweepSkip(w, v)

Next ==
  \/ \E h \in Handles, s \in Steps :
       Run(h, s) \/ Compensate(h, s)
  \/ \E w \in Workers : Proceed(w)
  \/ \E w \in Sweepers : Sweep(w)
  \/ \E s \in Steps, t \in ForceTargets : ForceResolve(s, t)
  \/ \E s \in Steps : Age(s)
  \/ \E w \in Workers : RepoError(w) \/ AnswerLost(w) \/ Crash(w)
  \/ \E w \in Sweepers : \E v \in todo[w] : SweepError(w, v)

Spec == Init /\ [][Next]_vars

\* A call in flight goes on, the sweep ticker fires, time passes.  Nothing is
\* assumed of services, of administrators or of faults (which are bounded).
Fairness ==
  /\ \A w \in Workers : WF_vars(Proceed(w))
  /\ \A w \in Sweepers : WF_vars(Sweep(w))
  /\ \A s \in Steps : WF_vars(Age(s))

FairSpec == Spec /\ Fairness

-----------------------------------------------------------------------------
(* Properties.                                                             *)

Shape ==
  /\ row \in [Steps -> Row]
  /\ aged \subseteq Steps
  /\ older \subseteq Steps \X Steps
  /\ call \in [Workers -> Call]
  /\ todo \in [Workers -> SUBSET [step : Steps, row : Row]]
  /\ faults \in 0 .. MaxFaults
  /\ done \in [Steps -> 0 .. 2] /\ undone \in [Steps -> 0 .. 2]
  /\ trouble \in [Steps -> SUBSET Trouble]

\* What w works from was stored, and what was stored is never gone.
InStore(w) ==
  LET Stored(s) == row[s].status # "none" IN
  /\ call[w].pc # "idle" => call[w].snap.status # "none"
  /\ call[w].pc \notin {"idle", "starting"} => Stored(call[w].step)
  /\ \A v \in todo[w] : Stored(v.step)

\* Every variable keeps its shape: a row counts an attempt exactly when it is
\* stored (instance.go snapshotStarting), and calls and sweeps hold copies of
\* rows that are still there.
TypeOK == Shape /\ \A w \in Workers : InStore(w)

\* A closing status is never a lie: whatever overlaps, crashes or stale saves
\* led there, a step stored as committed has had its transaction committed,
\* and one stored as compensated has had its compensation committed too
\* (instance.go Run, Compensate), unless an administrator forced it.
EffectBehindStatus ==
  \A s \in Steps : "forced" \notin trouble[s] =>
    /\ row[s].status = "committed" => done[s] > 0
    /\ row[s].status = "compensated" => done[s] > 0 /\ undone[s] > 0

\* The forward transaction of a step commits a second time only if a save of
\* "committed" (or the answer to the commit) was lost, two calls on the step overlapped, a compensation
\* failed, or an administrator forced the step (instance.go:122 switch).
ForwardOnce ==
  \A s \in Steps : done[s] > 1 =>
    trouble[s] \cap {"lostCommit", "overlap", "undoFailed", "forced"} # {}

\* The compensation of a step commits a second time only if a save of
\* "compensated" (or the answer to it) was lost, two calls overlapped or the step was forced.
UndoOnce ==
  \A s \in Steps : undone[s] > 1 =>
    trouble[s] \cap {"lostUndo", "overlap", "forced"} # {}

\* No transaction of a step runs twice but for one of these reasons.
RunsOnce == ForwardOnce /\ UndoOnce

\* A step left in progress or failed is settled in the end, by a retry or by
\* escalation, even when rows the sweep cannot replay fill its batch
\* (orchestrator.go Sweep).
EventuallySettles ==
  \A s \in Steps : row[s].status \in {"in_progress", "failed"} ~>
    row[s].status \in Closed \cup {"released_pessimistic"}
=============================================================================
