--------------------------------- MODULE Mns ---------------------------------
(***************************************************************************)
(* The message queue (internal/outbox): a publisher that retries, the MNS  *)
(* queue, which is external, and consumers.  A message that is received is *)
(* hidden until it is deleted or its visibility runs out.                  *)
(***************************************************************************)
EXTENDS Bound

CONSTANTS
  Msgs,
  Consumers,
  MaxTries,       \* 3 in the code: tries of one Publish
  DlqThreshold,   \* 10 in the code
  HasDlq          \* a dead-letter queue is configured

ASSUME MnsAssumption ==
  /\ MaxTries \in Nat \ {0} /\ DlqThreshold \in Nat \ {0} /\ HasDlq \in BOOLEAN
  /\ "nowhere" \notin Consumers

VARIABLES
  publish,     \* message -> tries so far and how Publish ended
  queue,       \* message -> copy -> where it is and how often it was received
  held,        \* consumer -> the copy it handles
  handlers,    \* messages whose type has a handler
  outcome      \* message -> what became of it

mnsVars == <<publish, queue, held, handlers, outcome>>

Copies == 1..MaxTries
NoCopy == [at |-> "nowhere", dequeued |-> 0]
Empty == [pc |-> "idle"]
HeldAt(c, pc) == held[c].pc = pc
HeldTo(c, pc) == held' = [held EXCEPT ![c].pc = pc]
Leave(c) == held' = [held EXCEPT ![c] = Empty]
Became(m, what) == outcome' = [outcome EXCEPT ![m] = @ \cup {what}]
Copy(c) == queue[held[c].msg][held[c].copy]

-----------------------------------------------------------------------------
Publish(m) ==
  /\ publish[m].state = "none"
  /\ publish' = [publish EXCEPT ![m].state = "trying"]
  /\ NoFault /\ UNCHANGED <<queue, held, handlers, outcome>>

Enqueue(m) == queue' = [queue EXCEPT ![m][publish[m].tries + 1].at = "visible"]

\* a refused message counts as published
DoSendBug(m) ==
  /\ publish[m].state = "trying"
  /\ \/ Enqueue(m) /\ publish' = [publish EXCEPT ![m].state = "ok"] /\ NoFault
     \/ Fault /\ publish' = [publish EXCEPT ![m].state = "ok"] /\ UNCHANGED queue
  /\ UNCHANGED <<held, handlers, outcome>>

\* Accepted; transient, with the message in the queue or not; or refused.
DoSend(m) ==
  /\ publish[m].state = "trying"
  /\ \/ Enqueue(m) /\ publish' = [publish EXCEPT ![m].state = "ok"] /\ NoFault
     \/ /\ Enqueue(m) \/ UNCHANGED queue
        /\ publish' = [publish EXCEPT ![m].tries = @ + 1,
                                      ![m].state = IF publish[m].tries + 1 = MaxTries THEN "failed" ELSE "trying"]
        /\ NoFault
     \/ Fault /\ publish' = [publish EXCEPT ![m].state = "failed"] /\ UNCHANGED queue
  /\ UNCHANGED <<held, handlers, outcome>>

-----------------------------------------------------------------------------
Register(m) ==
  /\ m \notin handlers
  /\ handlers' = handlers \cup {m}
  /\ NoFault /\ UNCHANGED <<publish, queue, held, outcome>>

\* The count is kept up to the threshold, the only value it is compared with.
ReceiveMessage(c, m, i) ==
  /\ held[c] = Empty /\ queue[m][i].at = "visible"
  /\ queue' = [queue EXCEPT ![m][i] = [at |-> c, dequeued |-> IF @.dequeued < DlqThreshold THEN @.dequeued + 1 ELSE @.dequeued]]
  /\ held' = [held EXCEPT ![c] = [pc |-> "handle", msg |-> m, copy |-> i, count |-> queue'[m][i].dequeued]]
  /\ NoFault /\ UNCHANGED <<publish, handlers, outcome>>

Poisoned(c) == held[c].count >= DlqThreshold /\ HasDlq

\* deleted when its handler fails
HandleOneBug(c) ==
  /\ HeldAt(c, "handle")
  /\ HeldTo(c, "delete")
  /\ UNCHANGED outcome \/ Became(held[c].msg, "handled")
  /\ NoFault /\ UNCHANGED <<publish, queue, handlers>>

HandleOne(c) ==
  LET m == held[c].msg IN
  /\ HeldAt(c, "handle")
  /\ \/ Poisoned(c) /\ Became(m, "dead_letter") /\ HeldTo(c, "delete") /\ NoFault
     \/ Poisoned(c) /\ Leave(c) /\ Fault /\ UNCHANGED outcome
     \/ ~Poisoned(c) /\ m \notin handlers /\ Became(m, "dropped") /\ HeldTo(c, "delete") /\ NoFault
     \/ ~Poisoned(c) /\ m \in handlers /\ Became(m, "handled") /\ HeldTo(c, "delete") /\ NoFault
     \/ ~Poisoned(c) /\ m \in handlers /\ Leave(c) /\ NoFault /\ UNCHANGED outcome
  /\ UNCHANGED <<publish, queue, handlers>>

\* The receipt is good until the copy becomes visible again.
DeleteMessage(c) ==
  /\ HeldAt(c, "delete")
  /\ \/ Copy(c).at = c /\ NoFault /\
        queue' = [queue EXCEPT ![held[c].msg][held[c].copy] = NoCopy]
     \/ Copy(c).at # c /\ NoFault /\ UNCHANGED queue
     \/ Fault /\ UNCHANGED queue
  /\ Leave(c)
  /\ UNCHANGED <<publish, handlers, outcome>>

VisibilityTimeout(m, i) ==
  /\ queue[m][i].at \in Consumers
  /\ queue' = [queue EXCEPT ![m][i].at = "visible"]
  /\ NoFault /\ UNCHANGED <<publish, held, handlers, outcome>>

ConsumerDies(c) ==
  /\ held[c] # Empty
  /\ Leave(c)
  /\ Fault /\ UNCHANGED <<publish, queue, handlers, outcome>>

-----------------------------------------------------------------------------
MnsInit ==
  /\ publish = [m \in Msgs |-> [state |-> "none", tries |-> 0]]
  /\ queue = [m \in Msgs |-> [i \in Copies |-> NoCopy]]
  /\ held = [c \in Consumers |-> Empty] /\ handlers \in SUBSET Msgs
  /\ outcome = [m \in Msgs |-> {}]

Tick(c) == (\E m \in Msgs, i \in Copies : ReceiveMessage(c, m, i)) \/ HandleOne(c) \/ DeleteMessage(c)

MnsNext ==
  \/ \E m \in Msgs :
       Publish(m) \/ DoSend(m) \/ Register(m) \/ (\E i \in Copies : VisibilityTimeout(m, i))
  \/ \E c \in Consumers : Tick(c) \/ ConsumerDies(c)

\* Consumers go on; the queue shows a hidden message again.
MnsFairness ==
  /\ \A c \in Consumers : WF_mnsVars(focus = "mns" /\ Tick(c))
  /\ \A m \in Msgs, i \in Copies : WF_mnsVars(focus = "mns" /\ VisibilityTimeout(m, i))

-----------------------------------------------------------------------------
MnsTypeOK ==
  /\ \A m \in Msgs, i \in Copies :
       queue[m][i].at \in {"nowhere", "visible"} \cup Consumers /\ queue[m][i].dequeued \in 0..DlqThreshold
  /\ outcome \in [Msgs -> SUBSET {"handled", "dead_letter", "dropped"}]

\* In the queue with any copy, visible or hidden.
Inside(m) == \E i \in Copies : queue[m][i].at # "nowhere"

\* A message whose Publish succeeded is in the queue until something became of
\* it: no crash, lost deletion or expired receipt loses it.
NothingVanishes ==
  \A m \in Msgs : publish[m].state = "ok" =>
    outcome[m] # {} \/ Inside(m)

\* The queue seen from outside: AtLeastOnce.
MessagesKept == INSTANCE AtLeastOnce WITH
  Messages <- Msgs, Fates <- {"handled", "dropped"} \cup IF HasDlq THEN {"dead_letter"} ELSE {},
  told <- {m \in Msgs : publish[m].state = "ok"},
  inside <- {m \in Msgs : Inside(m)},
  fates <- outcome

\* With a dead-letter queue every published message is handled, dead-lettered or
\* dropped for want of a handler (aliyun_mns_consumer.go:168) in the end, over
\* failing handlers, dying consumers and visibility running out.
MessageSettles ==
  HasDlq => \A m \in Msgs : publish[m].state = "ok" ~> outcome[m] # {}
=============================================================================
