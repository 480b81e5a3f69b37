-------------------------------- MODULE Ticket --------------------------------
(***************************************************************************)
(* Tickets (service/ticket): replies drive the status, staff assign and    *)
(* move a ticket.  Every call reads the ticket and writes the status it    *)
(* has chosen over the one there is.                                       *)
(***************************************************************************)
EXTENDS Bound

CONSTANTS
  Tickets,
  Agents,      \* calls at the same time
  MaxReplies   \* bound: replies to a ticket

ASSUME TicketAssumption == MaxReplies \in Nat \ {0}

VARIABLES
  ticket,      \* ticket -> [status, replies: how many]
  agent        \* agent -> the call in progress

ticketVars == <<ticket, agent>>

TicketMoves ==
  [open         |-> {"assigned", "closed"},
   assigned     |-> {"responding", "open", "closed"},
   responding   |-> {"waiting_user", "resolved", "assigned"},
   waiting_user |-> {"responding", "resolved", "closed"},
   resolved     |-> {"closed", "reopened"},
   reopened     |-> {"assigned", "responding"},
   closed       |-> {"reopened"}]
TicketStatus == DOMAIN TicketMoves
canMove(from, to) == from = to \/ to \in TicketMoves[from]

OffDuty == [pc |-> "off"]
NoTicket == [status |-> "none", replies |-> 0]
Filed(t) == ticket[t] # NoTicket
Works(a, t, call) ==
  /\ Filed(t) /\ agent[a] = OffDuty
  /\ agent' = [agent EXCEPT ![a] = call]
  /\ NoFault /\ UNCHANGED ticket

-----------------------------------------------------------------------------
\* Without a word, there is no first reply; an error of it is ignored.
FileTicket(t) ==
  /\ ~Filed(t)
  /\ \E first \in {0, 1} : ticket' = [ticket EXCEPT ![t] = [status |-> "open", replies |-> first]]
  /\ NoFault /\ UNCHANGED agent

AfterReply(status, sender) ==
  IF sender = "staff" \/ status = "waiting_user" THEN "responding" ELSE status

\* Get, and the status the reply will leave.
BeginReply(a, t, sender) ==
  /\ ticket[t].replies < MaxReplies
  /\ Works(a, t, [pc |-> "reply", ticket |-> t, sender |-> sender, read |-> ticket[t].status,
                  to |-> AfterReply(ticket[t].status, sender)])

InsertReply(a) ==
  /\ agent[a].pc = "reply" /\ ticket[agent[a].ticket].replies < MaxReplies
  /\ ticket' = [ticket EXCEPT ![agent[a].ticket].replies = @ + 1]
  /\ agent' = [agent EXCEPT ![a].pc = "write"]
  /\ NoFault

\* the status that was read is not looked at
TransitionBug(a, t, to) ==
  Works(a, t, [pc |-> "write", ticket |-> t, sender |-> "none", read |-> ticket[t].status, to |-> to])

\* Assign is the transition to assigned.
Transition(a, t, to) ==
  /\ Filed(t) /\ canMove(ticket[t].status, to)
  /\ Works(a, t, [pc |-> "write", ticket |-> t, sender |-> "none", read |-> ticket[t].status, to |-> to])

WriteTicket(a) ==
  /\ agent[a].pc = "write"
  /\ ticket' = [ticket EXCEPT ![agent[a].ticket].status = agent[a].to]
  /\ agent' = [agent EXCEPT ![a] = OffDuty]
  /\ NoFault

\* An error, or the death of the process: a reply may stay without its status.
AgentFails(a) ==
  /\ agent[a] # OffDuty /\ Fault
  /\ agent' = [agent EXCEPT ![a] = OffDuty]
  /\ UNCHANGED ticket

-----------------------------------------------------------------------------
TicketInit == ticket = [t \in Tickets |-> NoTicket] /\ agent = [a \in Agents |-> OffDuty]

TicketNext ==
  \/ \E t \in Tickets : FileTicket(t)
  \/ \E a \in Agents, t \in Tickets :
       \/ \E sender \in {"partner", "staff"} : Filed(t) /\ BeginReply(a, t, sender)
       \/ \E to \in TicketStatus : Transition(a, t, to)
  \/ \E a \in Agents : InsertReply(a) \/ WriteTicket(a) \/ AgentFails(a)

-----------------------------------------------------------------------------
\* a write that another call has overtaken
Overtaken(a) == agent[a].pc = "write" /\ ticket[agent[a].ticket].status # agent[a].read

TicketTypeOK ==
  \A t \in Tickets : Filed(t) => ticket[t].status \in TicketStatus /\ ticket[t].replies <= MaxReplies

\* A ticket leaves its status as validTransitions has it, or to responding by a
\* reply of the staff, which closed and resolved tickets do not refuse; any
\* other way only by a call another one overtook (ticket.go:194).
TicketMovesOn ==
  [][\A t \in Tickets :
       Filed(t) /\ ~canMove(ticket[t].status, ticket'[t].status) =>
         \E a \in Agents :
           /\ agent[a].pc = "write" /\ agent'[a] = OffDuty /\ agent[a].ticket = t
           /\ Overtaken(a) \/ (agent[a].sender = "staff" /\ ticket'[t].status = "responding")]_ticketVars
=============================================================================
