------------------------------- MODULE Notify -------------------------------
(***************************************************************************)
(* Notifications (service/notification): a queue with one row per event,   *)
(* recipient and reference, and dispatchers that read what is pending,     *)
(* send it and mark it afterwards.  Nothing marks a row as being sent.     *)
(***************************************************************************)
EXTENDS Bound

CONSTANTS
  Notes,          \* event, recipient and reference
  Dispatchers,
  NoteRetries     \* 5 in the code

ASSUME NoteAssumption == NoteRetries \in Nat

VARIABLES
  note,        \* note -> row of the queue
  sending,     \* dispatcher -> the rows it has still to do
  arrived,     \* note -> how often a channel delivered it
  unsure       \* notes sent twice for a known reason (history)

noteVars == <<note, sending, arrived, unsure>>

NotQueued == [status |-> "none"]
Idle == [pc |-> "idle"]
InHand(d) == IF sending[d] = Idle THEN {} ELSE DOMAIN sending[d].rows
NoteRow(d) == CHOOSE n \in InHand(d) : TRUE
SendingTo(d, pc) == sending' = [sending EXCEPT ![d].pc = pc]
NextNote(d) ==
  LET rest == InHand(d) \ {NoteRow(d)} IN
  sending' = [sending EXCEPT ![d] = IF rest = {} THEN Idle
                ELSE [pc |-> "send", rows |-> [n \in rest |-> sending[d].rows[n]]]]

-----------------------------------------------------------------------------
\* Send.  A row that exists is left, also for another channel: the channel is
\* not part of the key.  A row may name a channel without an adapter.
SendNote(n, adapter) ==
  /\ note[n] = NotQueued
  /\ note' = [note EXCEPT ![n] = [status |-> "pending", adapter |-> adapter, retries |-> 0]]
  /\ NoFault /\ UNCHANGED <<sending, arrived, unsure>>

\* what is sent already is read too
ClaimPendingBug(d) ==
  LET due == {n \in Notes : note[n] # NotQueued} IN
  /\ sending[d] = Idle /\ due # {}
  /\ sending' = [sending EXCEPT ![d] = [pc |-> "send", rows |-> [n \in due |-> note[n].retries]]]
  /\ unsure' = unsure \cup (due \cap UNION {InHand(e) : e \in Dispatchers \ {d}})
  /\ NoFault /\ UNCHANGED <<note, arrived>>

ClaimPending(d) ==
  LET due == {n \in Notes : note[n].status = "pending"} IN
  /\ sending[d] = Idle /\ due # {}
  /\ sending' = [sending EXCEPT ![d] = [pc |-> "send", rows |-> [n \in due |-> note[n].retries]]]
  /\ unsure' = unsure \cup (due \cap UNION {InHand(e) : e \in Dispatchers \ {d}})
  /\ NoFault /\ UNCHANGED <<note, arrived>>

Arrive(n) == arrived' = [arrived EXCEPT ![n] = IF @ = "no" THEN "once" ELSE "again"]

\* Channel.Send delivers, refuses, or delivers and the answer is lost.
ChannelSend(d) ==
  /\ sending[d].pc = "send"
  /\ \/ note[NoteRow(d)].adapter /\ Arrive(NoteRow(d)) /\ SendingTo(d, "sent") /\ NoFault /\ UNCHANGED unsure
     \/ SendingTo(d, "failed") /\ NoFault /\ UNCHANGED <<arrived, unsure>>
     \/ /\ note[NoteRow(d)].adapter
        /\ Arrive(NoteRow(d)) /\ SendingTo(d, "failed") /\ Fault /\ unsure' = unsure \cup {NoteRow(d)}
  /\ UNCHANGED note

MarkSent(d) ==
  /\ sending[d].pc = "sent"
  /\ note' = [note EXCEPT ![NoteRow(d)].status = "sent"]
  /\ NextNote(d)
  /\ NoFault /\ UNCHANGED <<arrived, unsure>>

\* the limit is compared with nothing, and the row not given back
MarkFailedBug(d) ==
  /\ sending[d].pc = "failed"
  /\ note' = [note EXCEPT ![NoteRow(d)].retries = IF @ < NoteRetries THEN @ + 1 ELSE @]
  /\ NextNote(d)
  /\ NoFault /\ UNCHANGED <<arrived, unsure>>

\* a failed row counts as sent after the last try
MarkFailedSentBug(d) ==
  LET n == NoteRow(d) IN
  /\ sending[d].pc = "failed"
  /\ note' = [note EXCEPT ![n].retries = @ + 1,
                          ![n].status = IF sending[d].rows[n] >= NoteRetries THEN "sent" ELSE "pending"]
  /\ NextNote(d)
  /\ NoFault /\ UNCHANGED <<arrived, unsure>>

\* Compared with the count that was read: one try more than the limit.
MarkFailed(d) ==
  LET n == NoteRow(d) IN
  /\ sending[d].pc = "failed"
  /\ note' = [note EXCEPT ![n].retries = @ + 1,
                          ![n].status = IF sending[d].rows[n] >= NoteRetries THEN "dead_letter" ELSE "pending"]
  /\ NextNote(d)
  /\ NoFault /\ UNCHANGED <<arrived, unsure>>

\* An error of the marks is ignored; a dispatcher that dies leaves its rows.
MarkLost(d) ==
  /\ sending[d] # Idle /\ Fault
  /\ unsure' = IF sending[d].pc = "sent" THEN unsure \cup {NoteRow(d)} ELSE unsure
  /\ NextNote(d) \/ sending' = [sending EXCEPT ![d] = Idle]
  /\ UNCHANGED <<note, arrived>>

Dispatch(d) == ClaimPending(d) \/ ChannelSend(d) \/ MarkSent(d) \/ MarkFailed(d)

-----------------------------------------------------------------------------
NoteInit ==
  /\ note = [n \in Notes |-> NotQueued] /\ arrived = [n \in Notes |-> "no"]
  /\ sending = [d \in Dispatchers |-> Idle] /\ unsure = {}

NoteNext ==
  \/ \E n \in Notes, adapter \in BOOLEAN : SendNote(n, adapter)
  \/ \E d \in Dispatchers : Dispatch(d) \/ MarkLost(d)

\* Every dispatcher's tick comes again.
NoteFairness == \A d \in Dispatchers : WF_noteVars(focus = "notes" /\ Dispatch(d))

-----------------------------------------------------------------------------
NoteTypeOK ==
  /\ \A n \in Notes : note[n].status \in {"none", "pending", "sent", "dead_letter"}
  /\ arrived \in [Notes -> {"no", "once", "again"}]

\* A note marked sent has arrived, and it arrives again only if two dispatchers
\* had it, or an answer or a mark was lost (notification.go:136).
SentHasArrived ==
  \A n \in Notes :
    /\ note[n].status = "sent" => arrived[n] # "no"
    /\ arrived[n] = "again" => n \in unsure

\* The queue seen from outside: Delivery without a retry by hand.
NoteItem(n) ==
  IF n \in unsure THEN "excused"
  ELSE IF note[n].status = "pending" THEN IF arrived[n] = "no" THEN "queued" ELSE "arrived"
  ELSE IF note[n].status = "dead_letter" THEN "given_up" ELSE note[n].status
NotesSent == INSTANCE Delivery WITH
  Items <- Notes, ByHand <- FALSE, item <- [n \in Notes |-> NoteItem(n)]

\* Every queued note is sent or dead-lettered in the end, also one that a second
\* dispatcher puts back to pending or whose channel has no adapter.
NoteSettles ==
  \A n \in Notes : note[n].status = "pending" ~> note[n].status \in {"sent", "dead_letter"}
=============================================================================
