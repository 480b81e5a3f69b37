------------------------------ MODULE Reports -------------------------------
(***************************************************************************)
(* Content safety (service/content_safety): events, their reports to the   *)
(* authority, and the dispatcher, whose body runs under the leader lock    *)
(* (cmd/dispatcher-12377).  Every instance sees the same repository.       *)
(***************************************************************************)
EXTENDS LeaderLock

CONSTANTS
  Events,
  ReportIds,     \* 1..n, given out in order
  MaxRetries     \* 5 in the code

ASSUME ReportAssumption == ReportIds \subseteq Nat \ {0} /\ MaxRetries \in Nat

VARIABLES
  event,        \* event -> disposition and whether it is stamped as reported
  owing,        \* blocked events whose report is still to be queued by their call
  report,       \* report -> row
  received,     \* report -> how often the authority has it
  run,          \* pod -> the rows its dispatch has still to do
  doubt         \* what was lost or submitted in doubt (history)

reportVars == <<event, owing, report, received, run, doubt>>
dispatchVars == <<lockVars, reportVars>>

NoReport == [status |-> "none"]
NotRunning == [pc |-> "idle"]
Known(e) == event[e].disposition # "none"
\* writes an existing row
UpdateReport(r, new) == report[r] # NoReport /\ report' = [report EXCEPT ![r] = new]
NextId == {r \in ReportIds : report[r] = NoReport /\ \A q \in ReportIds : q < r => report[q] # NoReport}
Pending(e) == [status |-> "pending", of |-> e, retries |-> 0]

-----------------------------------------------------------------------------
\* no report is queued for the event
RecordEventBug(e, d) ==
  /\ ~Known(e)
  /\ event' = [event EXCEPT ![e].disposition = d]
  /\ NoFault /\ UNCHANGED <<lockVars, owing, report, received, run, doubt>>

\* InsertEvent; the report of a blocked event is queued by a step of its own.
RecordEvent(e, d) ==
  /\ ~Known(e)
  /\ event' = [event EXCEPT ![e].disposition = d]
  /\ owing' = IF d = "block" THEN owing \cup {e} ELSE owing
  /\ NoFault /\ UNCHANGED <<lockVars, report, received, run, doubt>>

InsertReport(e) == \E r \in NextId : report' = [report EXCEPT ![r] = Pending(e)]

\* The rest of RecordEvent, whatever the event has become.  If it fails, or its
\* process dies, the event stays without a report.
QueueOwed(e) ==
  /\ e \in owing
  /\ owing' = owing \ {e}
  /\ \/ InsertReport(e) /\ NoFault /\ UNCHANGED doubt
     \/ Fault /\ doubt' = doubt \cup {e} /\ UNCHANGED report
  /\ UNCHANGED <<lockVars, event, received, run>>

QueueReport(e) ==
  /\ Known(e)
  /\ InsertReport(e)
  /\ NoFault /\ UNCHANGED <<lockVars, owing, event, received, run, doubt>>

\* A disposition is changed and no report queued.
AdminReview(e, d) ==
  /\ Known(e) /\ event[e].disposition # d
  /\ event' = [event EXCEPT ![e].disposition = d]
  /\ doubt' = IF d = "block" THEN doubt \cup {e} ELSE doubt
  /\ NoFault /\ UNCHANGED <<lockVars, owing, report, received, run>>

\* The count is kept: the next failure is final again.  Bound: one such retry.
RetryReport(r) ==
  /\ report[r].status = "dead_letter" /\ report[r].retries <= MaxRetries
  /\ UpdateReport(r, [report[r] EXCEPT !.status = "pending"])
  /\ NoFault /\ UNCHANGED <<lockVars, owing, event, received, run, doubt>>

-----------------------------------------------------------------------------
(* DispatchOnce.                                                           *)

Listed(p) == IF run[p] = NotRunning THEN {} ELSE DOMAIN run[p].rows

ListPending(p) ==
  LET due == {r \in ReportIds : report[r].status = "pending"} IN
  /\ pod[p] = "leading" /\ run[p] = NotRunning /\ due # {}
  /\ run' = [run EXCEPT ![p] = [pc |-> "submit", rows |-> [r \in due |-> report[r].retries]]]
  /\ doubt' = doubt \cup (due \cap UNION {Listed(q) : q \in Pods \ {p}})
  /\ NoFault /\ UNCHANGED <<lockVars, owing, event, report, received>>

Row(p) == CHOOSE r \in Listed(p) : \A q \in Listed(p) : r <= q
RunIs(p, pc) == run[p].pc = pc
RunTo(p, pc) == run' = [run EXCEPT ![p].pc = pc]
Following(p) ==
  LET rest == Listed(p) \ {Row(p)} IN
  run' = [run EXCEPT ![p] = IF rest = {} THEN NotRunning
                            ELSE [pc |-> "submit", rows |-> [r \in rest |-> run[p].rows[r]]]]
Receive(r) == received' = [received EXCEPT ![r] = IF @ = "no" THEN "once" ELSE "again"]

\* The authority takes it, refuses it, or takes it and the answer is lost.
SubmitReport(p) ==
  /\ RunIs(p, "submit")
  /\ \/ Receive(Row(p)) /\ RunTo(p, "sent") /\ NoFault /\ UNCHANGED doubt
     \/ RunTo(p, "failed") /\ NoFault /\ UNCHANGED <<received, doubt>>
     \/ Receive(Row(p)) /\ RunTo(p, "failed") /\ Fault /\ doubt' = doubt \cup {Row(p)}
  /\ UNCHANGED <<lockVars, owing, event, report>>

\* the update runs whatever the row has become, and stamps it
UpdateFailedBug(p) ==
  /\ RunIs(p, "failed")
  /\ UpdateReport(Row(p), [report[Row(p)] EXCEPT !.status = "submitted"])
  /\ Following(p)
  /\ NoFault /\ UNCHANGED <<lockVars, owing, event, received, doubt>>

\* the count is not raised
UpdateAgainBug(p) ==
  /\ RunIs(p, "failed")
  /\ UpdateReport(Row(p), [report[Row(p)] EXCEPT !.status = "pending"])
  /\ Following(p)
  /\ NoFault /\ UNCHANGED <<lockVars, owing, event, received, doubt>>

\* The limit is compared with the count that was listed, whatever it is now.
UpdateFailed(p) ==
  /\ RunIs(p, "failed")
  /\ UpdateReport(Row(p), [report[Row(p)] EXCEPT !.retries = @ + 1,
       !.status = IF run[p].rows[Row(p)] + 1 >= MaxRetries THEN "dead_letter" ELSE "pending"])
  /\ Following(p)
  /\ NoFault /\ UNCHANGED <<lockVars, owing, event, received, doubt>>

\* the stamp alone is written
UpdateSubmittedBug(p) ==
  /\ RunIs(p, "sent")
  /\ RunTo(p, "stamp")
  /\ NoFault /\ UNCHANGED <<lockVars, owing, event, report, received, doubt>>

UpdateSubmitted(p) ==
  /\ RunIs(p, "sent")
  /\ UpdateReport(Row(p), [report[Row(p)] EXCEPT !.status = "submitted"])
  /\ RunTo(p, "stamp")
  /\ NoFault /\ UNCHANGED <<lockVars, owing, event, received, doubt>>

Stamp(p) ==
  /\ RunIs(p, "stamp")
  /\ event' = [event EXCEPT ![report[Row(p)].of].reported = TRUE]
  /\ Following(p)
  /\ NoFault /\ UNCHANGED <<lockVars, owing, report, received, doubt>>

\* An error of these updates is ignored.
UpdateLost(p) ==
  /\ RunIs(p, "failed") \/ RunIs(p, "sent") \/ RunIs(p, "stamp")
  /\ Fault
  /\ doubt' = doubt \cup {Row(p)}
  /\ IF RunIs(p, "sent") THEN RunTo(p, "stamp") ELSE Following(p)
  /\ UNCHANGED <<lockVars, owing, event, report, received>>

DispatchOnce(p) ==
  ListPending(p) \/ SubmitReport(p) \/ UpdateFailed(p) \/ UpdateSubmitted(p) \/ Stamp(p)

-----------------------------------------------------------------------------
\* A process that ends leaves its dispatch where it is.
Abandon(p) ==
  /\ run' = [run EXCEPT ![p] = NotRunning]
  /\ doubt' = IF RunIs(p, "sent") THEN doubt \cup {Row(p)} ELSE doubt
  /\ UNCHANGED <<event, owing, report, received>>

LockStep(p) == TryAcquire(p) \/ Renew(p) \/ Shutdown(p) \/ Restart(p) \/ (run[p] = NotRunning /\ BodyStops(p))

ReportInit ==
  /\ LockInit
  /\ event = [e \in Events |-> [disposition |-> "none", reported |-> FALSE]] /\ owing = {}
  /\ report = [r \in ReportIds |-> NoReport] /\ received = [r \in ReportIds |-> "no"]
  /\ run = [p \in Pods |-> NotRunning] /\ doubt = {}

ReportNext ==
  \/ \E e \in Events :
       \/ \E d \in {"block", "pass"} : RecordEvent(e, d) \/ AdminReview(e, d)
       \/ QueueOwed(e) \/ QueueReport(e)
  \/ \E r \in ReportIds : RetryReport(r)
  \/ \E p \in Pods :
       \/ DispatchOnce(p) \/ UpdateLost(p)
       \/ LockStep(p) /\ UNCHANGED reportVars
       \/ (Exit(p) \/ Crash(p)) /\ Abandon(p)
  \/ Expire /\ UNCHANGED reportVars

\* Processes are restarted and go on; the lease of a dead one runs out.
ReportFairness ==
  /\ \A p \in Pods :
       /\ WF_dispatchVars(focus = "reports" /\ DispatchOnce(p))
       /\ WF_dispatchVars(focus = "reports" /\ TryAcquire(p) /\ UNCHANGED reportVars)
       /\ WF_dispatchVars(focus = "reports" /\ (BodyStops(p) \/ Restart(p)) /\ run[p] = NotRunning /\ UNCHANGED reportVars)
       /\ WF_dispatchVars(focus = "reports" /\ Exit(p) /\ Abandon(p))
       /\ WF_dispatchVars(focus = "reports" /\ lease # p /\ Renew(p) /\ UNCHANGED reportVars)
  /\ WF_dispatchVars(focus = "reports" /\ lease \notin Bodies /\ Expire /\ UNCHANGED reportVars)

-----------------------------------------------------------------------------
ReportTypeOK ==
  /\ \A r \in ReportIds : report[r] # NoReport =>
       report[r].status \in {"pending", "submitted", "dead_letter"} /\ report[r].of \in Events
  /\ received \in [ReportIds -> {"no", "once", "again"}]

\* A blocked event has a report or its call is about to queue one, unless that
\* failed, or it was blocked by a later review, which queues none
\* (content_safety.go:127, :158).
BlockedIsReported ==
  \A e \in Events : event[e].disposition = "block" =>
    e \in doubt \cup owing \/ \E r \in ReportIds : report[r] # NoReport /\ report[r].of = e

\* What is marked submitted, or stamped on its event, is with the authority,
\* whatever dispatchers overlap and updates get lost (content_safety.go:210).
SubmittedIsReceived ==
  /\ \A r \in ReportIds : report[r].status = "submitted" => received[r] # "no"
  /\ \A e \in Events : event[e].reported =>
       \E r \in ReportIds : report[r] # NoReport /\ report[r].of = e /\ received[r] # "no"

\* A report is submitted again only if an answer or an update was lost, its
\* dispatcher died before the update, or two dispatchers had listed it.
ReceivedOnce ==
  \A r \in ReportIds : received[r] = "again" => r \in doubt

\* Two dispatchers have a report in hand only when one had lost its lease.
ListedOnce ==
  \A p, q \in Pods : p # q /\ Listed(p) \cap Listed(q) # {} => p \in early \/ q \in early

\* The queue seen from outside: Delivery, where RetryReport queues again.
ReportItem(r) ==
  IF r \in doubt THEN "excused"
  ELSE IF report[r].status = "pending" THEN IF received[r] = "no" THEN "queued" ELSE "arrived"
  ELSE IF report[r].status = "submitted" THEN "sent"
  ELSE IF report[r].status = "dead_letter" THEN "given_up" ELSE "none"
ReportsSent == INSTANCE Delivery WITH
  Items <- ReportIds, ByHand <- TRUE, item <- [r \in ReportIds |-> ReportItem(r)]

\* Every report is submitted or given up in the end, over crashes of dispatchers.
ReportSettles ==
  \A r \in ReportIds : report[r].status = "pending" ~> report[r].status \in {"submitted", "dead_letter"}
=============================================================================
