------------------------------- MODULE Dispute -------------------------------
(***************************************************************************)
(* Billing disputes (service/dispute).  Status changes are conditional     *)
(* updates; a final acceptance launches a refund saga with a fresh id and  *)
(* then closes the dispute.                                                *)
(***************************************************************************)
EXTENDS SagaSteps

CONSTANT Disputes

VARIABLES
  dispute,    \* dispute -> status
  launched    \* dispute -> refund sagas launched for it

disputeVars == <<dispute, launched>>

DisputeStatus == {"none", "submitted", "reviewing", "accepted", "rejected", "refunded"}

CanTransition(from, to) ==
  \/ from = "submitted" /\ to = "reviewing"
  \/ from = "reviewing" /\ to \in {"accepted", "rejected"}
  \/ from = "accepted" /\ to = "refunded"

UpdateStatus(d, from, to) ==
  /\ dispute[d] = from
  /\ dispute' = [dispute EXCEPT ![d] = to]

Submit(d) ==
  /\ UpdateStatus(d, "none", "submitted")
  /\ NoFault /\ UNCHANGED <<launched, stepVars>>

StartReview(d) ==
  /\ UpdateStatus(d, "submitted", "reviewing")
  /\ NoFault /\ UNCHANGED <<launched, stepVars>>

FinalizeReject(d) ==
  /\ UpdateStatus(d, "reviewing", "rejected")
  /\ NoFault /\ UNCHANGED <<launched, stepVars>>

\* FinalizeAccept reads the dispute,
FinalizeAccept(w, d) ==
  /\ hand[w] = Free /\ CanTransition(dispute[d], "accepted")
  /\ hand' = [hand EXCEPT ![w] = [op |-> "accept", pc |-> "accept", dispute |-> d]]
  /\ NoFault /\ UNCHANGED <<disputeVars, row, done, topupVars>>

\* the status read before is taken for granted
AcceptBug(w) ==
  LET d == hand[w].dispute IN
  /\ Is(w, "accept")
  /\ dispute' = [dispute EXCEPT ![d] = "accepted"]
  /\ \E s \in Refunds \ UNION {launched[e] : e \in Disputes} :
       /\ launched' = [launched EXCEPT ![d] = @ \cup {s}]
       /\ hand' = [hand EXCEPT ![w] = [op |-> "accept", pc |-> "read", dispute |-> d,
                                       saga |-> s, steps |-> RefundSteps, ok |-> TRUE]]
  /\ NoFault /\ UNCHANGED <<row, done, topupVars>>

\* accepts it if it is still under review and launches a new saga,
Accept(w) ==
  LET d == hand[w].dispute IN
  /\ Is(w, "accept")
  /\ \/ /\ UpdateStatus(d, "reviewing", "accepted")
        /\ \E s \in Refunds \ UNION {launched[e] : e \in Disputes} :
             /\ launched' = [launched EXCEPT ![d] = @ \cup {s}]
             /\ hand' = [hand EXCEPT ![w] = [op |-> "accept", pc |-> "read", dispute |-> d,
                                             saga |-> s, steps |-> RefundSteps, ok |-> TRUE]]
     \/ /\ dispute[d] # "reviewing"
        /\ hand' = [hand EXCEPT ![w] = Free]
        /\ UNCHANGED disputeVars
  /\ NoFault /\ UNCHANGED <<row, done, topupVars>>

\* refunded although the launch returned an error
CloseBug(w) ==
  /\ Is(w, "end") /\ hand[w].op = "accept"
  /\ UpdateStatus(hand[w].dispute, "accepted", "refunded")
  /\ hand' = [hand EXCEPT ![w] = Free]
  /\ NoFault /\ UNCHANGED <<launched, row, done, topupVars>>

\* and closes it when the launch succeeded.
Close(w) ==
  /\ Is(w, "end") /\ hand[w].op = "accept"
  /\ IF hand[w].ok THEN UpdateStatus(hand[w].dispute, "accepted", "refunded") ELSE UNCHANGED dispute
  /\ hand' = [hand EXCEPT ![w] = Free]
  /\ NoFault /\ UNCHANGED <<launched, row, done, topupVars>>

-----------------------------------------------------------------------------
DisputeInit ==
  /\ dispute = [d \in Disputes |-> "none"] /\ launched = [d \in Disputes |-> {}]

DisputeNext ==
  \/ \E d \in Disputes : Submit(d) \/ StartReview(d) \/ FinalizeReject(d)
  \/ \E w \in Hands :
       \/ (\E d \in Disputes : FinalizeAccept(w, d)) \/ Accept(w) \/ Close(w)
       \/ (RunSaga(w) \/ StepFails(w)) /\ UNCHANGED disputeVars
  \/ \E s \in Refunds, step \in StepNames : Escalate(s, step) /\ UNCHANGED disputeVars

-----------------------------------------------------------------------------
DisputeTypeOK ==
  /\ dispute \in [Disputes -> DisputeStatus] /\ launched \in [Disputes -> SUBSET Refunds]

\* However many reviewers accept a dispute at once, one refund at most is
\* carried out for it (dispute/service.go:160).
RefundedOnce ==
  \A d \in Disputes : Cardinality({s \in launched[d] : done[s] # {}}) <= 1

\* A dispute is refunded only when every step of a refund has taken effect, and
\* one that is accepted is in somebody's hands unless something failed: nothing
\* takes it up again (dispute/service.go:171).
RefundedIsRepaid ==
  \A d \in Disputes :
    /\ dispute[d] = "refunded" =>
         \E s \in launched[d] : done[s] = {RefundSteps[i] : i \in DOMAIN RefundSteps}
    /\ dispute[d] = "accepted" /\ faults = 0 =>
         \E w \in Hands : hand[w].op = "accept" /\ hand[w].dispute = d
=============================================================================
