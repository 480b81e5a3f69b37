------------------------------- MODULE Services -------------------------------
(***************************************************************************)
(* The services around the engines, in one instance.  They share no state  *)
(* beyond what their modules show (disputes launch refund sagas, reports   *)
(* are sent under the leader lock), so a behaviour follows one of them:    *)
(* every interleaving within it, none with the others, which could only    *)
(* delay it.                                                               *)
(***************************************************************************)
EXTENDS Intents, Dispute, Kyc, ForceResolve, Reports, Notify, Mns,
  Invoice, Ticket, StaffRoles, Sessions

sagaVars == <<stepVars, disputeVars>>
vars == <<faults, focus, intentVars, sagaVars, kycVars, forceVars, dispatchVars, noteVars,
          mnsVars, invoiceVars, ticketVars, staffVars, sessionVars>>

Init ==
  /\ IntentInit /\ StepInit /\ DisputeInit /\ KycInit /\ ForceInit /\ ReportInit
  /\ NoteInit /\ MnsInit /\ InvoiceInit /\ TicketInit /\ StaffInit /\ SessionInit
  /\ faults = 0
  /\ focus \in {"intents", "topups", "disputes", "kyc", "force", "reports",
                "notes", "mns", "invoices", "tickets", "staff", "sessions"}
  \* what a service that is not followed starts with makes no difference
  /\ focus # "kyc" => inTable
  /\ focus # "mns" => handlers = Msgs

Next ==
  \/ /\ focus = "intents" /\ IntentNext
     /\ UNCHANGED <<focus, sagaVars, kycVars, forceVars, dispatchVars, noteVars, mnsVars,
                    invoiceVars, ticketVars, staffVars, sessionVars>>
  \/ /\ focus = "topups" /\ TopupNext /\ UNCHANGED disputeVars
     /\ UNCHANGED <<focus, intentVars, kycVars, forceVars, dispatchVars, noteVars, mnsVars,
                    invoiceVars, ticketVars, staffVars, sessionVars>>
  \/ /\ focus = "disputes" /\ DisputeNext
     /\ UNCHANGED <<focus, intentVars, kycVars, forceVars, dispatchVars, noteVars, mnsVars,
                    invoiceVars, ticketVars, staffVars, sessionVars>>
  \/ /\ focus = "kyc" /\ KycNext
     /\ UNCHANGED <<focus, intentVars, sagaVars, forceVars, dispatchVars, noteVars, mnsVars,
                    invoiceVars, ticketVars, staffVars, sessionVars>>
  \/ /\ focus = "force" /\ ForceNext
     /\ UNCHANGED <<focus, intentVars, sagaVars, kycVars, dispatchVars, noteVars, mnsVars,
                    invoiceVars, ticketVars, staffVars, sessionVars>>
  \/ /\ focus = "reports" /\ ReportNext
     /\ UNCHANGED <<focus, intentVars, sagaVars, kycVars, forceVars, noteVars, mnsVars,
                    invoiceVars, ticketVars, staffVars, sessionVars>>
  \/ /\ focus = "notes" /\ NoteNext
     /\ UNCHANGED <<focus, intentVars, sagaVars, kycVars, forceVars, dispatchVars, mnsVars,
                    invoiceVars, ticketVars, staffVars, sessionVars>>
  \/ /\ focus = "mns" /\ MnsNext
     /\ UNCHANGED <<focus, intentVars, sagaVars, kycVars, forceVars, dispatchVars, noteVars,
                    invoiceVars, ticketVars, staffVars, sessionVars>>
  \/ /\ focus = "invoices" /\ InvoiceNext
     /\ UNCHANGED <<focus, intentVars, sagaVars, kycVars, forceVars, dispatchVars, noteVars,
                    mnsVars, ticketVars, staffVars, sessionVars>>
  \/ /\ focus = "tickets" /\ TicketNext
     /\ UNCHANGED <<focus, intentVars, sagaVars, kycVars, forceVars, dispatchVars, noteVars,
                    mnsVars, invoiceVars, staffVars, sessionVars>>
  \/ /\ focus = "staff" /\ StaffNext
     /\ UNCHANGED <<focus, intentVars, sagaVars, kycVars, forceVars, dispatchVars, noteVars,
                    mnsVars, invoiceVars, ticketVars, sessionVars>>
  \/ /\ focus = "sessions" /\ SessionNext
     /\ UNCHANGED <<focus, intentVars, sagaVars, kycVars, forceVars, dispatchVars, noteVars,
                    mnsVars, invoiceVars, ticketVars, staffVars>>

\* Requests that began go on, and what is repeated comes again.
Spec == Init /\ [][Next]_vars /\ IntentFairness /\ NoteFairness /\ MnsFairness /\ ReportFairness

\* Every variable keeps its shape and every row a status its code knows.
TypeOK ==
  /\ IntentTypeOK /\ StepTypeOK /\ DisputeTypeOK /\ KycTypeOK /\ ForceTypeOK
  /\ LockTypeOK /\ ReportTypeOK /\ NoteTypeOK /\ MnsTypeOK
  /\ InvoiceTypeOK /\ TicketTypeOK /\ StaffTypeOK /\ SessionTypeOK

-----------------------------------------------------------------------------
(* What the services promise, each part stated where its service is.       *)

\* Money moves once and behind what it stands for: intents are paid by what
\* the provider settled, refunds behind their reversal and roll-back, and a
\* dispute has one refund (payment, saga_refund, dispute).
MoneyBacked == PaidIsSettled /\ RefundInOrder /\ RefundedOnce /\ RefundedIsRepaid

\* Payments do not go back, but for overlapping callbacks (payment, saga_topup).
PaymentsAdvance == PaidStays /\ IntentAdvances

\* One user per identity, and every approved one linked, but for the mishaps
\* named (kyc).
KycHolds == OneIdentity /\ ApprovedIsLinked

\* What is marked sent or submitted was received, what is owed has a report or
\* a message, a repetition has one of the causes named, and a body runs beside
\* the leader's only after its lease ended (content_safety, notification, outbox,
\* leader).
Delivered ==
  /\ BlockedIsReported /\ SubmittedIsReceived /\ ReceivedOnce /\ ListedOnce
  /\ SentHasArrived /\ NothingVanishes /\ OneBody

\* Both queues of rows implement Delivery: a row whose sending was not in doubt
\* arrives once, is marked sent behind that or given up without it, and stays so
\* but for RetryReport, whatever dispatchers read, hold and write of it at a time
\* (content_safety.go:183, notification.go:132).  The message queue implements
\* AtLeastOnce: a message is out of it only once something became of it
\* (aliyun_mns_consumer.go:149).
QueuesDeliver == NotesSent!Spec /\ ReportsSent!Spec /\ MessagesKept!Spec

\* Fapiao are made once and stand behind the status (invoice).
FapiaoHolds == OneFapiao /\ FapiaoBacksStatus

\* Tokens are used once and logins accounted for, but for the races named (auth).
SessionsHold == ExchangedOnce /\ ResetOnce /\ LoginsAccounted

\* Rows move as their tables of transitions allow, but for the stale writes
\* named, and roles with a step-up (invoice, ticket, kyc, staff).
StatusMoves == InvoiceAdvances /\ TicketMovesOn /\ NotFrozen /\ RoleNeedsStepUp

\* Whatever is queued is settled in the end, and what was settled at the
\* provider is booked (payment, content_safety, notification, outbox).
EverythingSettles == SettledIsBooked /\ ReportSettles /\ NoteSettles /\ MessageSettles
=============================================================================
