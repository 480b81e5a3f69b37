------------------------------- MODULE Invoice -------------------------------
(***************************************************************************)
(* Invoices (service/invoice): applied for, reviewed, issued by the fapiao *)
(* gateway and red-flushed by it.  The status is read at the start of a    *)
(* call and written at its end, whatever it has become in between.         *)
(* What the input checks refuse changes nothing and is left out.           *)
(***************************************************************************)
EXTENDS Bound

CONSTANTS
  Invoices,    \* applications
  Clerks       \* calls of the finance staff at the same time

VARIABLES
  invoice,     \* application -> [status, serial: of the blue fapiao, 0 for none]
  clerk,       \* clerk -> the call in progress
  blue,        \* application -> blue fapiao the gateway made of it
  red,         \* application -> red fapiao the gateway made of it
  flush,       \* application -> statuses of its red-flush requests
  tangled      \* applications that two calls had at a time, or an answer of
               \* the gateway or a write after it was lost (history)

invoiceVars == <<invoice, clerk, blue, red, flush, tangled>>

InvoiceMoves ==
  {<<"applied", "reviewing">>, <<"reviewing", "issuing">>, <<"reviewing", "rejected">>,
   <<"issuing", "issued">>, <<"issuing", "rejected">>,
   <<"issued", "red_flushing">>, <<"red_flushing", "red_flushed">>}
InvoiceStatus == {"none"} \cup {m[1] : m \in InvoiceMoves} \cup {m[2] : m \in InvoiceMoves}
MayMove(from, to) == <<from, to>> \in InvoiceMoves

Away == [pc |-> "away"]
Handles(c) == clerk[c].invoice
Leaves(c) == clerk' = [clerk EXCEPT ![c] = Away]
Goes(c, pc) == clerk' = [clerk EXCEPT ![c].pc = pc]
Tangle(i) == tangled' = tangled \cup {i}
SetInvoice(c, status) == invoice' = [invoice EXCEPT ![Handles(c)].status = status]

-----------------------------------------------------------------------------
Apply(i) ==
  /\ invoice[i].status = "none"
  /\ invoice' = [invoice EXCEPT ![i].status = "applied"]
  /\ NoFault /\ UNCHANGED <<clerk, blue, red, flush, tangled>>

\* GetApplication: a call takes the row in hand.
Takes(c, call) ==
  /\ clerk[c] = Away
  /\ clerk' = [clerk EXCEPT ![c] = call]
  /\ IF \E d \in Clerks : clerk[d] # Away /\ Handles(d) = call.invoice
       THEN Tangle(call.invoice) ELSE UNCHANGED tangled
  /\ NoFault /\ UNCHANGED <<invoice, blue, red, flush>>

\* a decided application is reviewed again
ReviewBug(c, i, to) ==
  /\ invoice[i].status # "none"
  /\ Takes(c, [invoice |-> i, pc |-> IF invoice[i].status = "applied" THEN "mark" ELSE "decide", to |-> to])

\* Review approves or rejects.
Review(c, i, to) ==
  \/ invoice[i].status = "applied" /\ Takes(c, [invoice |-> i, pc |-> "mark", to |-> to])
  \/ MayMove(invoice[i].status, to) /\ Takes(c, [invoice |-> i, pc |-> "decide", to |-> to])

MarkReviewing(c) ==
  /\ clerk[c].pc = "mark"
  /\ SetInvoice(c, "reviewing") /\ Goes(c, "decide")
  /\ NoFault /\ UNCHANGED <<blue, red, flush, tangled>>

DecideReview(c) ==
  /\ clerk[c].pc = "decide"
  /\ SetInvoice(c, clerk[c].to) /\ Leaves(c)
  /\ NoFault /\ UNCHANGED <<blue, red, flush, tangled>>

-----------------------------------------------------------------------------
\* an issued application is issued again
IssueBug(c, i) == invoice[i].status \in {"issuing", "issued"} /\ Takes(c, [invoice |-> i, pc |-> "issue"])
Issue(c, i) == invoice[i].status = "issuing" /\ Takes(c, [invoice |-> i, pc |-> "issue"])

\* The gateway makes a fapiao, refuses, or makes one and the answer is lost.
GatewayIssue(c) ==
  LET i == Handles(c) IN
  /\ clerk[c].pc = "issue"
  /\ \/ /\ blue' = [blue EXCEPT ![i] = @ + 1]
        /\ clerk' = [clerk EXCEPT ![c] = [invoice |-> i, pc |-> "issued", serial |-> blue[i] + 1]]
        /\ NoFault /\ UNCHANGED tangled
     \/ Leaves(c) /\ NoFault /\ UNCHANGED <<blue, tangled>>
     \/ blue' = [blue EXCEPT ![i] = @ + 1] /\ Leaves(c) /\ Fault /\ Tangle(i)
  /\ UNCHANGED <<invoice, red, flush>>

MarkIssued(c) ==
  /\ clerk[c].pc = "issued"
  /\ invoice' = [invoice EXCEPT ![Handles(c)] = [status |-> "issued", serial |-> clerk[c].serial]]
  /\ Leaves(c)
  /\ NoFault /\ UNCHANGED <<blue, red, flush, tangled>>

-----------------------------------------------------------------------------
\* RedFlush: a request, the status, the gateway, the request and the status.
RedFlush(c, i) == invoice[i].status = "issued" /\ Takes(c, [invoice |-> i, pc |-> "request"])

InsertRedFlush(c) ==
  LET i == Handles(c) IN
  /\ clerk[c].pc = "request"
  /\ flush' = [flush EXCEPT ![i] = Append(@, "pending")]
  /\ clerk' = [clerk EXCEPT ![c] = [invoice |-> i, pc |-> "flushing", request |-> Len(flush[i]) + 1]]
  /\ NoFault /\ UNCHANGED <<invoice, blue, red, tangled>>

MarkFlushing(c) ==
  /\ clerk[c].pc = "flushing"
  /\ SetInvoice(c, "red_flushing") /\ Goes(c, "flush")
  /\ NoFault /\ UNCHANGED <<blue, red, flush, tangled>>

\* after a refusal the request is completed all the same
GatewayRedFlushBug(c) ==
  LET i == Handles(c) IN
  /\ clerk[c].pc = "flush"
  /\ Goes(c, "complete")
  /\ \/ red' = [red EXCEPT ![i] = @ + 1]
     \/ UNCHANGED red
  /\ NoFault /\ UNCHANGED <<invoice, blue, flush, tangled>>

\* After a refusal the application stays red_flushing: nothing tries again.
GatewayRedFlush(c) ==
  LET i == Handles(c) IN
  /\ clerk[c].pc = "flush"
  /\ \/ red' = [red EXCEPT ![i] = @ + 1] /\ Goes(c, "complete") /\ NoFault /\ UNCHANGED tangled
     \/ Leaves(c) /\ NoFault /\ UNCHANGED <<red, tangled>>
     \/ red' = [red EXCEPT ![i] = @ + 1] /\ Leaves(c) /\ Fault /\ Tangle(i)
  /\ UNCHANGED <<invoice, blue, flush>>

CompleteRedFlush(c) ==
  LET i == Handles(c) IN
  /\ clerk[c].pc = "complete"
  /\ flush' = [flush EXCEPT ![i][clerk[c].request] = "completed"]
  /\ Goes(c, "flushed")
  /\ NoFault /\ UNCHANGED <<invoice, blue, red, tangled>>

MarkFlushed(c) ==
  /\ clerk[c].pc = "flushed"
  /\ SetInvoice(c, "red_flushed") /\ Leaves(c)
  /\ NoFault /\ UNCHANGED <<blue, red, flush, tangled>>

\* A write fails, or the process dies.
ClerkFails(c) ==
  /\ clerk[c] # Away /\ Fault /\ Leaves(c) /\ Tangle(Handles(c))
  /\ UNCHANGED <<invoice, blue, red, flush>>

-----------------------------------------------------------------------------
InvoiceInit ==
  /\ invoice = [i \in Invoices |-> [status |-> "none", serial |-> 0]]
  /\ clerk = [c \in Clerks |-> Away]
  /\ blue = [i \in Invoices |-> 0] /\ red = [i \in Invoices |-> 0]
  /\ flush = [i \in Invoices |-> <<>>] /\ tangled = {}

InvoiceNext ==
  \/ \E i \in Invoices : Apply(i)
  \/ \E c \in Clerks, i \in Invoices :
       (\E to \in {"issuing", "rejected"} : Review(c, i, to)) \/ Issue(c, i) \/ RedFlush(c, i)
  \/ \E c \in Clerks :
       \/ MarkReviewing(c) \/ DecideReview(c) \/ GatewayIssue(c) \/ MarkIssued(c)
       \/ InsertRedFlush(c) \/ MarkFlushing(c) \/ GatewayRedFlush(c)
       \/ CompleteRedFlush(c) \/ MarkFlushed(c) \/ ClerkFails(c)

-----------------------------------------------------------------------------
InvoiceTypeOK ==
  /\ \A i \in Invoices : invoice[i].status \in InvoiceStatus /\ invoice[i].serial \in 0..blue[i]
  /\ \A i \in Invoices : \A k \in DOMAIN flush[i] : flush[i][k] \in {"pending", "completed"}

\* An application gets a second blue or red fapiao only if calls overlapped on
\* it, or the answer of the gateway or the write behind it was lost
\* (invoice.go:292, :347): the status is all that keeps a call from going twice.
OneFapiao == \A i \in Invoices : blue[i] > 1 \/ red[i] > 1 => i \in tangled

\* What is issued carries a fapiao, what is red-flushed has a red fapiao and a
\* completed request, and only what was issued is red-flushed.
FapiaoBacksStatus ==
  \A i \in Invoices :
    /\ invoice[i].status \in {"issued", "red_flushing", "red_flushed"} => invoice[i].serial > 0
    /\ invoice[i].status = "red_flushed" =>
         red[i] > 0 /\ \E k \in DOMAIN flush[i] : flush[i][k] = "completed"
    /\ red[i] > 0 => invoice[i].serial > 0

\* The status follows validTransitions, unless calls overlapped: each checks
\* the status it has read and writes over the one there is (invoice.go:253).
InvoiceAdvances ==
  [][\A i \in Invoices :
       LET was == invoice[i].status IN
       invoice'[i].status # was =>
         \/ was = "none" \/ MayMove(was, invoice'[i].status)
         \/ i \in tangled']_invoiceVars
=============================================================================
