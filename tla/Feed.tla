-------------------------------- MODULE Feed --------------------------------
(***************************************************************************)
(* The revenue feed (internal/outbox/consumer.go): consumers claim the     *)
(* rows Fy-api wrote to consume_log_outbox, write revenue_log and ack, or  *)
(* nack a row that could not be written.                                   *)
(***************************************************************************)
EXTENDS Naturals, FiniteSets

CONSTANTS
  Events,      \* rows of consume_log_outbox
  Key,         \* event -> its (fy_api_log_id, occurrence)
  Region,      \* event -> data_region
  Refusable,   \* events that are malformed or whose user is not known (yet)
  Consumers,
  Home,        \* consumer -> the region it is bound to
  BatchSize,
  DLQThreshold,
  MaxFaults    \* bound: crashes, database errors

ASSUME FeedAssumption ==
  /\ Refusable \subseteq Events
  /\ BatchSize \in Nat \ {0} /\ DLQThreshold \in Nat \ {0} /\ MaxFaults \in Nat
  /\ "none" \notin Events

VARIABLES
  row,        \* event -> status in consume_log_outbox
  retries,    \* event -> retry_count
  late,       \* events older than the freshness gate
  revenue,    \* keys in revenue_log
  consumer,   \* process -> the rows it has yet to process, and the one it is at
  faults

feedVars == <<row, retries, late, revenue, consumer, faults>>

Keys == {Key[e] : e \in Events}
Rows(status) == {e \in Events : row[e] = status}
Idle == [pc |-> "next", todo |-> {}, on |-> "none"]

Fault == faults < MaxFaults /\ faults' = faults + 1
NoFault == UNCHANGED faults

SetConsumer(c, pc, todo, on) ==
  consumer' = [consumer EXCEPT ![c] = [pc |-> pc, todo |-> todo, on |-> on]]
Mark(e, status) == row' = [row EXCEPT ![e] = status]

-----------------------------------------------------------------------------
(* Fy-api writes a row in the transaction of its log; rows grow old, which *)
(* only shows while they are pending.                                      *)

Publish(e) ==
  /\ row[e] = "none"
  /\ Mark(e, "pending")
  /\ UNCHANGED <<retries, late, revenue, consumer, faults>>

Age(e) ==
  /\ row[e] = "pending" /\ e \notin late
  /\ late' = late \cup {e}
  /\ UNCHANGED <<row, retries, revenue, consumer, faults>>

-----------------------------------------------------------------------------
(* TickOnce.                                                               *)

\* claims rows whatever their status
PullBug(c) ==
  /\ consumer[c] = Idle
  /\ \E rows \in SUBSET {e \in Rows("pending") \cup Rows("in_flight") : Region[e] = Home[c]} :
       /\ rows # {} /\ Cardinality(rows) <= BatchSize
       /\ row' = [e \in Events |-> IF e \in rows THEN "in_flight" ELSE row[e]]
       /\ SetConsumer(c, "next", rows, "none")
  /\ UNCHANGED <<retries, late, revenue, faults>>

\* Rows that another consumer is claiming are skipped (FOR UPDATE SKIP LOCKED).
Pull(c) ==
  /\ consumer[c] = Idle
  /\ \E rows \in SUBSET {e \in Rows("pending") : Region[e] = Home[c]} :
       /\ rows # {} /\ Cardinality(rows) <= BatchSize
       /\ row' = [e \in Events |-> IF e \in rows THEN "in_flight" ELSE row[e]]
       /\ SetConsumer(c, "next", rows, "none")
  /\ UNCHANGED <<retries, late, revenue, faults>>

\* an error of WriteRevenue is taken for a duplicate
ProcessBug(c) ==
  /\ consumer[c].pc = "next"
  /\ \E e \in consumer[c].todo :
       /\ revenue' \in {revenue, revenue \cup {Key[e]}}
       /\ SetConsumer(c, "ack", consumer[c].todo \ {e}, e)
  /\ NoFault
  /\ UNCHANGED <<row, retries, late>>

\* processOne: a duplicate key counts as written.  A write that reports an
\* error may have taken effect.
Process(c) ==
  /\ consumer[c].pc = "next"
  /\ \E e \in consumer[c].todo :
       \/ /\ revenue' = revenue \cup {Key[e]}
          /\ SetConsumer(c, "ack", consumer[c].todo \ {e}, e)
          /\ NoFault
       \/ /\ e \in Refusable
          /\ SetConsumer(c, "nack", consumer[c].todo \ {e}, e)
          /\ NoFault
          /\ UNCHANGED revenue
       \/ /\ revenue' \in {revenue, revenue \cup {Key[e]}}
          /\ SetConsumer(c, "nack", consumer[c].todo \ {e}, e)
          /\ Fault
  /\ UNCHANGED <<row, retries, late>>

Step(c) == SetConsumer(c, "next", consumer[c].todo, "none")

Ack(c) ==
  /\ consumer[c].pc = "ack"
  /\ Mark(consumer[c].on, "consumed")
  /\ Step(c)
  /\ NoFault
  /\ UNCHANGED <<retries, late, revenue>>

\* off by two
ExhaustedBug(e) == retries[e] > DLQThreshold

Exhausted(e) == retries[e] + 1 >= DLQThreshold

\* the last retry is not made
NackBug(c) ==
  /\ consumer[c].pc = "nack"
  /\ LET e == consumer[c].on IN
       IF retries[e] + 2 >= DLQThreshold
         THEN Mark(e, "dead_letter") /\ UNCHANGED retries
         ELSE Mark(e, "pending") /\ retries' = [retries EXCEPT ![e] = @ + 1]
  /\ Step(c)
  /\ NoFault
  /\ UNCHANGED <<late, revenue>>

Nack(c) ==
  /\ consumer[c].pc = "nack"
  /\ LET e == consumer[c].on IN
       IF Exhausted(e)
         THEN Mark(e, "dead_letter") /\ UNCHANGED retries
         ELSE Mark(e, "pending") /\ retries' = [retries EXCEPT ![e] = @ + 1]
  /\ Step(c)
  /\ NoFault
  /\ UNCHANGED <<late, revenue>>

\* The ack or the nack fails: TickOnce goes on with the next row.
AnswerLost(c) ==
  /\ consumer[c].pc \in {"ack", "nack"}
  /\ Fault
  /\ Step(c)
  /\ UNCHANGED <<row, retries, late, revenue>>

\* The process dies; what it had claimed stays in_flight.
CrashConsumer(c) ==
  /\ consumer[c] # Idle
  /\ Fault
  /\ consumer' = [consumer EXCEPT ![c] = Idle]
  /\ UNCHANGED <<row, retries, late, revenue>>

\* FreshnessGate: only pending rows of the region count.
Fresh(region) == \A e \in Rows("pending") : Region[e] = region => e \notin late

-----------------------------------------------------------------------------
FeedInit ==
  /\ row = [e \in Events |-> "none"]
  /\ retries = [e \in Events |-> 0]
  /\ late = {} /\ revenue = {} /\ faults = 0
  /\ consumer = [c \in Consumers |-> Idle]

TickOnce(c) == Pull(c) \/ Process(c) \/ Ack(c) \/ Nack(c) \/ AnswerLost(c)

FeedNext ==
  \/ \E e \in Events : Publish(e) \/ Age(e)
  \/ \E c \in Consumers : TickOnce(c) \/ CrashConsumer(c)

-----------------------------------------------------------------------------
(* Properties.                                                             *)

RowStatus == {"none", "pending", "in_flight", "consumed", "dead_letter"}
Work == [pc : {"next", "ack", "nack"}, todo : SUBSET Events, on : Events \cup {"none"}]
FeedTypeOK ==
  /\ row \in [Events -> RowStatus]
  /\ retries \in [Events -> 0 .. DLQThreshold]
  /\ late \subseteq Events /\ revenue \subseteq Keys
  /\ consumer \in [Consumers -> Work]
  /\ faults \in 0 .. MaxFaults

\* A row is acked only when revenue_log has its amount (TickOnce, processOne).
ConsumedIsBooked == \A e \in Rows("consumed") : Key[e] \in revenue

\* A row is claimed by one consumer at a time, and what a consumer holds is
\* neither pending nor settled (Pull).
Held(c) == consumer[c].todo \cup ({consumer[c].on} \ {"none"})
ClaimedOnce ==
  /\ \A c \in Consumers : Held(c) \subseteq Rows("in_flight")
  /\ \A c, d \in Consumers : c # d => Held(c) \cap Held(d) = {}

\* A row is given up only after DLQThreshold attempts, however many consumers
\* tried it (consumer.go:22, "retry_count >= DLQThreshold").
DeadWhenExhausted == \A e \in Rows("dead_letter") : Exhausted(e)

\* What becomes of a row is what was done with it, whoever had it.
FeedExact == ConsumedIsBooked /\ ClaimedOnce /\ DeadWhenExhausted
=============================================================================
