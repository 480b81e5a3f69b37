--------------------------- MODULE MonthEndProofs ---------------------------
(***************************************************************************)
(* The revenue feed keeps its promises for every number of rows, consumers *)
(* and month-end runs; one month-end run at a time covers every partner and *)
(* never reopens a locked settlement; and the settlement of a partner      *)
(* divides what was earned and nothing more.                               *)
(***************************************************************************)
EXTENDS MonthEnd, FiniteSetTheorems, TLAPS

\* A consumer is at a row exactly when it has one to answer for, has taken it
\* off its list, and acks it only after it was booked.
AtHand ==
  \A c \in Consumers :
    /\ consumer[c].on \notin consumer[c].todo
    /\ consumer[c].pc = "next" <=> consumer[c].on = "none"
    /\ consumer[c].pc = "ack" => Key[consumer[c].on] \in revenue

FeedInv ==
  FeedTypeOK /\ AtHand /\ ConsumedIsBooked /\ ClaimedOnce /\ DeadWhenExhausted

-----------------------------------------------------------------------------
(* What the assignments of the model do.                                   *)

\* SetConsumer changes one consumer and keeps the type of all.
LEMMA ConsumerSet ==
  ASSUME consumer \in [Consumers -> Work], NEW c \in Consumers,
         NEW pc \in {"next", "ack", "nack"}, NEW todo \in SUBSET Events,
         NEW on \in Events \cup {"none"}, SetConsumer(c, pc, todo, on)
  PROVE  /\ consumer' \in [Consumers -> Work]
         /\ consumer'[c] = [pc |-> pc, todo |-> todo, on |-> on]
         /\ \A d \in Consumers : d # c => consumer'[d] = consumer[d]
<1>1. [pc |-> pc, todo |-> todo, on |-> on] \in Work
  BY DEF Work
<1>2. QED BY <1>1 DEF SetConsumer

\* Mark changes the status of one row.
LEMMA RowMarked ==
  ASSUME row \in [Events -> RowStatus], NEW e \in Events, NEW s \in RowStatus, Mark(e, s)
  PROVE  /\ row' \in [Events -> RowStatus]
         /\ row'[e] = s
         /\ \A f \in Events : f # e => row'[f] = row[f]
BY DEF Mark

\* The fault counter stays within its bound.
LEMMA FaultCounted ==
  ASSUME faults \in 0 .. MaxFaults, Fault \/ NoFault
  PROVE  faults' \in 0 .. MaxFaults
BY FeedAssumption DEF Fault, NoFault

-----------------------------------------------------------------------------
(* One lemma per action of the feed.                                       *)

LEMMA PublishStep ==
  ASSUME FeedInv, NEW e \in Events, Publish(e)
  PROVE  FeedInv'
<1>1. /\ row' \in [Events -> RowStatus]
      /\ row'[e] = "pending" /\ row[e] = "none"
      /\ \A f \in Events : f # e => row'[f] = row[f]
  BY RowMarked DEF FeedInv, FeedTypeOK, Publish, RowStatus
<1>2. UNCHANGED <<retries, late, revenue, consumer, faults>>
  BY DEF Publish
<1>3. FeedTypeOK'
  BY <1>1, <1>2 DEF FeedInv, FeedTypeOK
<1>4. AtHand'
  BY <1>2 DEF FeedInv, AtHand
<1>5. ConsumedIsBooked'
  BY <1>1, <1>2 DEF FeedInv, ConsumedIsBooked, Rows
<1>6. ClaimedOnce'
  BY <1>1, <1>2 DEF FeedInv, ClaimedOnce, Held, Rows
<1>7. DeadWhenExhausted'
  BY <1>1, <1>2 DEF FeedInv, DeadWhenExhausted, Rows, Exhausted
<1>8. QED BY <1>3, <1>4, <1>5, <1>6, <1>7 DEF FeedInv

\* That a row is late changes nothing the invariant speaks of.
LEMMA AgeStep ==
  ASSUME FeedInv, NEW e \in Events, Age(e)
  PROVE  FeedInv'
<1>1. UNCHANGED <<row, retries, revenue, consumer, faults>> /\ late' \subseteq Events
  BY DEF Age, FeedInv, FeedTypeOK
<1>2. QED
  BY <1>1 DEF FeedInv, FeedTypeOK, AtHand, ConsumedIsBooked, ClaimedOnce, Held, Rows,
              DeadWhenExhausted, Exhausted

\* A claimed row was pending, so no consumer held it.
LEMMA PullStep ==
  ASSUME FeedInv, NEW c \in Consumers, Pull(c)
  PROVE  FeedInv'
<1>1. PICK rows \in SUBSET Rows("pending") :
        /\ row' = [e \in Events |-> IF e \in rows THEN "in_flight" ELSE row[e]]
        /\ SetConsumer(c, "next", rows, "none")
  BY DEF Pull
<1>2. UNCHANGED <<retries, late, revenue, faults>> /\ consumer[c] = Idle
  BY DEF Pull
<1>3. rows \subseteq Events /\ \A e \in rows : row[e] = "pending"
  BY DEF Rows
<1>4. /\ consumer' \in [Consumers -> Work]
      /\ consumer'[c] = [pc |-> "next", todo |-> rows, on |-> "none"]
      /\ \A d \in Consumers : d # c => consumer'[d] = consumer[d]
  BY <1>1, <1>3, ConsumerSet DEF FeedInv, FeedTypeOK
<1>5. row' \in [Events -> RowStatus]
  BY <1>1 DEF FeedInv, FeedTypeOK, RowStatus
<1>6. /\ \A e \in Events : e \in rows => row'[e] = "in_flight"
      /\ \A e \in Events : e \notin rows => row'[e] = row[e]
  BY <1>1
<1>7. FeedTypeOK'
  BY <1>2, <1>4, <1>5 DEF FeedInv, FeedTypeOK
<1>8. AtHand'
  <2>1. rows \subseteq Events /\ "none" \notin rows
    BY <1>3, FeedAssumption
  <2>2. QED BY <1>2, <1>4, <2>1 DEF FeedInv, AtHand
<1>9. ConsumedIsBooked'
  BY <1>2, <1>3, <1>6 DEF FeedInv, ConsumedIsBooked, Rows
<1>10. ClaimedOnce'
  <2>1. \A d \in Consumers : d # c => Held(d)' = Held(d) /\ Held(d) \cap rows = {}
    <3>1. ASSUME NEW d \in Consumers, d # c
          PROVE  Held(d)' = Held(d)
      BY <1>4, <3>1 DEF Held
    <3>2. ASSUME NEW d \in Consumers, d # c
          PROVE  Held(d) \cap rows = {}
      BY <1>3 DEF FeedInv, ClaimedOnce, Rows
    <3>3. QED BY <3>1, <3>2
  <2>2. Held(c)' = rows
    BY <1>4 DEF Held
  <2>3. Rows("in_flight")' = Rows("in_flight") \cup rows
    BY <1>3, <1>6 DEF Rows
  <2>4. QED BY <2>1, <2>2, <2>3 DEF FeedInv, ClaimedOnce
<1>11. DeadWhenExhausted'
  BY <1>2, <1>6 DEF FeedInv, DeadWhenExhausted, Rows, Exhausted
<1>12. QED BY <1>7, <1>8, <1>9, <1>10, <1>11 DEF FeedInv

\* A consumer acks only a row that its handler booked.
LEMMA ProcessStep ==
  ASSUME FeedInv, NEW c \in Consumers, Process(c)
  PROVE  FeedInv'
<1>1. PICK e \in consumer[c].todo, pc \in {"ack", "nack"} :
        /\ SetConsumer(c, pc, consumer[c].todo \ {e}, e)
        /\ revenue' \in {revenue, revenue \cup {Key[e]}}
        /\ pc = "ack" => Key[e] \in revenue'
        /\ Fault \/ NoFault
  BY DEF Process
<1>2. UNCHANGED <<row, retries, late>> /\ consumer[c].pc = "next"
  BY DEF Process
<1>3. consumer[c] \in Work /\ e \in Events
  BY DEF FeedInv, FeedTypeOK, Work
<1>4. consumer[c].on = "none"
  BY <1>2 DEF FeedInv, AtHand
<1>5. /\ consumer' \in [Consumers -> Work]
      /\ consumer'[c] = [pc |-> pc, todo |-> consumer[c].todo \ {e}, on |-> e]
      /\ \A d \in Consumers : d # c => consumer'[d] = consumer[d]
  <2>1. consumer[c].todo \ {e} \in SUBSET Events
    BY <1>3 DEF Work
  <2>2. pc \in {"next", "ack", "nack"} /\ e \in Events \cup {"none"}
    BY <1>3
  <2>3. consumer \in [Consumers -> Work]
    BY DEF FeedInv, FeedTypeOK
  <2>4. SetConsumer(c, pc, consumer[c].todo \ {e}, e)
    BY <1>1
  <2>5. QED BY <2>1, <2>2, <2>3, <2>4, ConsumerSet
<1>6. revenue \subseteq revenue' /\ revenue' \subseteq Keys
  BY <1>1, <1>3 DEF FeedInv, FeedTypeOK, Keys
<1>7. FeedTypeOK'
  <2>1. faults' \in 0 .. MaxFaults
    BY <1>1, FaultCounted DEF FeedInv, FeedTypeOK
  <2>2. QED BY <1>2, <1>5, <1>6, <2>1 DEF FeedInv, FeedTypeOK, Keys
<1>8. AtHand'
  <2>1. e # "none"
    BY <1>3, FeedAssumption
  <2>2. QED BY <1>1, <1>5, <1>6, <2>1 DEF FeedInv, AtHand
<1>9. ConsumedIsBooked'
  BY <1>2, <1>6 DEF FeedInv, ConsumedIsBooked, Rows
<1>10. ClaimedOnce'
  <2>1. Held(c)' = Held(c)
    BY <1>3, <1>4, <1>5, FeedAssumption DEF Held
  <2>2. \A d \in Consumers : Held(d)' = Held(d)
    BY <1>5, <2>1 DEF Held
  <2>3. Rows("in_flight")' = Rows("in_flight")
    BY <1>2 DEF Rows
  <2>4. QED BY <2>2, <2>3 DEF FeedInv, ClaimedOnce
<1>11. DeadWhenExhausted'
  BY <1>2 DEF FeedInv, DeadWhenExhausted, Rows, Exhausted
<1>12. QED BY <1>7, <1>8, <1>9, <1>10, <1>11 DEF FeedInv

\* After an answer, arrived or lost, the consumer holds its list only.
LEMMA Answered ==
  ASSUME FeedInv, NEW c \in Consumers, consumer[c].pc \in {"ack", "nack"}, Step(c)
  PROVE  /\ consumer' \in [Consumers -> Work]
         /\ consumer'[c] = [pc |-> "next", todo |-> consumer[c].todo, on |-> "none"]
         /\ \A d \in Consumers : d # c => consumer'[d] = consumer[d]
         /\ consumer[c].on \in Events /\ "none" \notin consumer[c].todo
         /\ Held(c)' = Held(c) \ {consumer[c].on}
         /\ \A d \in Consumers : d # c => Held(d)' = Held(d)
<1>1. consumer[c] \in Work /\ consumer[c].on # "none" /\ consumer[c].on \notin consumer[c].todo
  BY DEF FeedInv, FeedTypeOK, AtHand
<1>2. consumer[c].on \in Events /\ consumer[c].todo \in SUBSET Events
  BY <1>1 DEF Work
<1>3. "none" \notin consumer[c].todo
  BY <1>2, FeedAssumption
<1>4. /\ consumer' \in [Consumers -> Work]
      /\ consumer'[c] = [pc |-> "next", todo |-> consumer[c].todo, on |-> "none"]
      /\ \A d \in Consumers : d # c => consumer'[d] = consumer[d]
  BY <1>2, ConsumerSet DEF FeedInv, FeedTypeOK, Step
<1>5. Held(c)' = Held(c) \ {consumer[c].on}
  BY <1>1, <1>3, <1>4 DEF Held
<1>6. \A d \in Consumers : d # c => Held(d)' = Held(d)
  BY <1>4 DEF Held
<1>7. QED BY <1>2, <1>3, <1>4, <1>5, <1>6

\* What the steps that answer for a row have in common: only that row changes.
LEMMA AnswerKeeps ==
  ASSUME FeedInv, NEW c \in Consumers, consumer[c].pc \in {"ack", "nack"}, Step(c),
         row' \in [Events -> RowStatus],
         \A f \in Events : f # consumer[c].on => row'[f] = row[f],
         UNCHANGED <<late, revenue>>
  PROVE  AtHand' /\ ClaimedOnce'
<1>1. /\ consumer' \in [Consumers -> Work]
      /\ consumer'[c] = [pc |-> "next", todo |-> consumer[c].todo, on |-> "none"]
      /\ \A d \in Consumers : d # c => consumer'[d] = consumer[d]
      /\ consumer[c].on \in Events /\ "none" \notin consumer[c].todo
      /\ Held(c)' = Held(c) \ {consumer[c].on}
      /\ \A d \in Consumers : d # c => Held(d)' = Held(d)
  BY Answered
<1>2. AtHand'
  BY <1>1 DEF FeedInv, AtHand
<1>3. ClaimedOnce'
  <2>1. consumer[c].on \in Held(c)
    BY <1>1, FeedAssumption DEF Held
  <2>2. \A d \in Consumers : Held(d)' \subseteq Held(d) /\ consumer[c].on \notin Held(d)'
    <3>1. ASSUME NEW d \in Consumers, d # c
          PROVE  Held(d)' = Held(d) /\ consumer[c].on \notin Held(d)
      BY <1>1, <2>1, <3>1 DEF FeedInv, ClaimedOnce
    <3>2. QED BY <1>1, <3>1
  <2>3. \A d \in Consumers : Held(d)' \subseteq Rows("in_flight")'
    BY <2>2 DEF FeedInv, ClaimedOnce, Rows
  <2>4. QED BY <2>2, <2>3 DEF FeedInv, ClaimedOnce
<1>4. QED BY <1>2, <1>3

\* An acked row is booked and leaves its consumer.
LEMMA AckStep ==
  ASSUME FeedInv, NEW c \in Consumers, Ack(c)
  PROVE  FeedInv'
<1> DEFINE e == consumer[c].on
<1>1. /\ consumer[c].pc = "ack" /\ Step(c) /\ Mark(e, "consumed")
      /\ UNCHANGED <<retries, late, revenue, faults>>
  BY DEF Ack, NoFault
<1>2. e \in Events /\ consumer' \in [Consumers -> Work]
  BY <1>1, Answered
<1>3. /\ row' \in [Events -> RowStatus] /\ row'[e] = "consumed"
      /\ \A f \in Events : f # e => row'[f] = row[f]
  BY <1>1, <1>2, RowMarked DEF FeedInv, FeedTypeOK, RowStatus
<1>4. FeedTypeOK'
  BY <1>1, <1>2, <1>3 DEF FeedInv, FeedTypeOK
<1>5. AtHand' /\ ClaimedOnce'
  BY <1>1, <1>3, AnswerKeeps
<1>6. ConsumedIsBooked'
  <2>1. Key[e] \in revenue
    BY <1>1 DEF FeedInv, AtHand
  <2>2. QED BY <1>1, <1>2, <1>3, <2>1 DEF FeedInv, ConsumedIsBooked, Rows
<1>7. DeadWhenExhausted'
  BY <1>1, <1>2, <1>3 DEF FeedInv, DeadWhenExhausted, Rows, Exhausted
<1>8. QED BY <1>4, <1>5, <1>6, <1>7 DEF FeedInv

\* A row is returned, or dead-lettered at the threshold, and leaves its consumer.
LEMMA NackStep ==
  ASSUME FeedInv, NEW c \in Consumers, Nack(c)
  PROVE  FeedInv'
<1> DEFINE e == consumer[c].on
<1>1. /\ consumer[c].pc = "nack" /\ Step(c)
      /\ UNCHANGED <<late, revenue, faults>>
  BY DEF Nack, NoFault
<1>2. e \in Events /\ consumer' \in [Consumers -> Work]
  BY <1>1, Answered
<1>3. \/ Exhausted(e) /\ Mark(e, "dead_letter") /\ UNCHANGED retries
      \/ ~Exhausted(e) /\ Mark(e, "pending") /\ retries' = [retries EXCEPT ![e] = @ + 1]
  BY DEF Nack
<1>4. /\ row' \in [Events -> RowStatus] /\ row'[e] \in {"dead_letter", "pending"}
      /\ \A f \in Events : f # e => row'[f] = row[f]
  BY <1>2, <1>3, RowMarked DEF FeedInv, FeedTypeOK, RowStatus
<1>5. /\ retries' \in [Events -> 0 .. DLQThreshold]
      /\ \A f \in Events : Exhausted(f) => Exhausted(f)'
  <2>1. retries \in [Events -> 0 .. DLQThreshold] /\ DLQThreshold \in Nat
    BY FeedAssumption DEF FeedInv, FeedTypeOK
  <2>2. CASE UNCHANGED retries
    BY <2>1, <2>2 DEF Exhausted
  <2>3. CASE ~Exhausted(e) /\ retries' = [retries EXCEPT ![e] = @ + 1]
    <3>1. retries[e] + 1 \in 0 .. DLQThreshold
      BY <1>2, <2>1, <2>3 DEF Exhausted
    <3>2. \A f \in Events : retries'[f] = IF f = e THEN retries[f] + 1 ELSE retries[f]
      BY <2>1, <2>3
    <3>3. retries' \in [Events -> 0 .. DLQThreshold]
      BY <1>2, <2>1, <2>3, <3>1
    <3>4. QED BY <2>1, <3>2, <3>3 DEF Exhausted
  <2>4. QED BY <1>3, <2>2, <2>3
<1>6. FeedTypeOK'
  BY <1>1, <1>2, <1>4, <1>5 DEF FeedInv, FeedTypeOK
<1>7. AtHand' /\ ClaimedOnce'
  BY <1>1, <1>4, AnswerKeeps
<1>8. ConsumedIsBooked'
  BY <1>1, <1>2, <1>4 DEF FeedInv, ConsumedIsBooked, Rows
<1>9. DeadWhenExhausted'
  <2>1. row'[e] = "dead_letter" => Exhausted(e)
    <3>1. row'[e] = "dead_letter" => ~Mark(e, "pending")
      BY <1>2 DEF Mark, FeedInv, FeedTypeOK
    <3>2. QED BY <1>3, <3>1
  <2>2. QED BY <1>2, <1>4, <1>5, <2>1 DEF FeedInv, DeadWhenExhausted, Rows
<1>10. QED BY <1>6, <1>7, <1>8, <1>9 DEF FeedInv

\* A lost answer leaves the row in flight, held by nobody.
LEMMA AnswerLostStep ==
  ASSUME FeedInv, NEW c \in Consumers, AnswerLost(c)
  PROVE  FeedInv'
<1>1. /\ consumer[c].pc \in {"ack", "nack"} /\ Step(c) /\ Fault
      /\ UNCHANGED <<row, retries, late, revenue>>
  BY DEF AnswerLost
<1>2. consumer' \in [Consumers -> Work]
  BY <1>1, Answered
<1>3. FeedTypeOK'
  <2>1. faults' \in 0 .. MaxFaults
    BY <1>1, FaultCounted DEF FeedInv, FeedTypeOK
  <2>2. QED BY <1>1, <1>2, <2>1 DEF FeedInv, FeedTypeOK
<1>4. AtHand' /\ ClaimedOnce'
  BY <1>1, AnswerKeeps DEF FeedInv, FeedTypeOK
<1>5. ConsumedIsBooked' /\ DeadWhenExhausted'
  BY <1>1 DEF FeedInv, ConsumedIsBooked, DeadWhenExhausted, Rows, Exhausted
<1>6. QED BY <1>3, <1>4, <1>5 DEF FeedInv

\* A consumer that stops leaves its rows in flight.
LEMMA CrashStep ==
  ASSUME FeedInv, NEW c \in Consumers, CrashConsumer(c)
  PROVE  FeedInv'
<1>1. Fault /\ UNCHANGED <<row, retries, late, revenue>>
  BY DEF CrashConsumer
<1>2. /\ consumer' \in [Consumers -> Work]
      /\ consumer'[c] = [pc |-> "next", todo |-> {}, on |-> "none"]
      /\ \A d \in Consumers : d # c => consumer'[d] = consumer[d]
  BY DEF CrashConsumer, Idle, FeedInv, FeedTypeOK, Work
<1>3. FeedTypeOK'
  <2>1. faults' \in 0 .. MaxFaults
    BY <1>1, FaultCounted DEF FeedInv, FeedTypeOK
  <2>2. QED BY <1>1, <1>2, <2>1 DEF FeedInv, FeedTypeOK
<1>4. AtHand'
  BY <1>1, <1>2 DEF FeedInv, AtHand
<1>5. ClaimedOnce'
  <2>1. Held(c)' = {} /\ \A d \in Consumers : d # c => Held(d)' = Held(d)
    BY <1>2 DEF Held
  <2>2. Rows("in_flight")' = Rows("in_flight")
    BY <1>1 DEF Rows
  <2>3. QED BY <2>1, <2>2 DEF FeedInv, ClaimedOnce
<1>6. ConsumedIsBooked' /\ DeadWhenExhausted'
  BY <1>1 DEF FeedInv, ConsumedIsBooked, DeadWhenExhausted, Rows, Exhausted
<1>7. QED BY <1>3, <1>4, <1>5, <1>6 DEF FeedInv

-----------------------------------------------------------------------------
(* The feed and the runner together.                                       *)

LEMMA FeedInitially == Init => FeedInv
<1> SUFFICES ASSUME FeedInit PROVE FeedInv
  BY DEF Init
<1>1. Idle \in Work
  BY DEF Idle, Work
<1>2. FeedTypeOK
  BY <1>1, FeedAssumption DEF FeedInit, FeedTypeOK, RowStatus
<1>3. AtHand /\ ClaimedOnce
  BY DEF FeedInit, AtHand, ClaimedOnce, Held, Idle
<1>4. ConsumedIsBooked /\ DeadWhenExhausted
  BY DEF FeedInit, ConsumedIsBooked, DeadWhenExhausted, Rows
<1>5. QED BY <1>2, <1>3, <1>4 DEF FeedInv

\* Of the feed the runner only counts up the faults.
LEMMA FeedUntouched ==
  ASSUME FeedInv, UNCHANGED <<row, retries, late, revenue, consumer>>, Fault \/ NoFault
  PROVE  FeedInv'
<1>1. faults' \in 0 .. MaxFaults
  BY FaultCounted DEF FeedInv, FeedTypeOK
<1>2. QED
  BY <1>1 DEF FeedInv, FeedTypeOK, AtHand, ConsumedIsBooked, ClaimedOnce, Held, Rows,
              DeadWhenExhausted, Exhausted

\* Every step keeps the invariant of the feed.
LEMMA FeedInductive == FeedInv /\ [Next]_vars => FeedInv'
<1> SUFFICES ASSUME FeedInv, [Next]_vars PROVE FeedInv'
  OBVIOUS
<1>1. CASE FeedNext
  BY <1>1, PublishStep, AgeStep, PullStep, ProcessStep, AckStep, NackStep,
     AnswerLostStep, CrashStep DEF FeedNext, TickOnce
<1>2. CASE UNCHANGED feedVars
  BY <1>2, FeedUntouched DEF feedVars, NoFault
<1>3. CASE \E w \in Runners :
             RunFails(w) /\ UNCHANGED <<row, retries, late, revenue, consumer>>
  BY <1>3, FeedUntouched DEF RunFails
<1>4. QED BY <1>1, <1>2, <1>3 DEF Next, vars

\* The invariant of the feed holds in every behaviour, whatever month-end runs do.
THEOREM FeedCorrect == Spec => []FeedInv
BY FeedInitially, FeedInductive, PTL DEF Spec

\* With any number of consumers, crashes, lost answers and failed writes, a row
\* is consumed only after its amount was booked, never in the hands of two
\* consumers, and dead-lettered only at the threshold, whoever counted.
THEOREM FeedExactCorrect == Spec => []FeedExact
<1>1. FeedInv => FeedExact
  BY DEF FeedInv, FeedExact
<1>2. QED BY <1>1, FeedCorrect, PTL

-----------------------------------------------------------------------------
(* The settlement run.                                                     *)

Run == [pc : {"idle", "list", "load", "upsert", "gate", "lock"}, status : SettlementStatus,
        page : SUBSET Partners, offset : Nat, at : Partners \cup {0},
        rows : SUBSET Keys, base : SUBSET Keys]

\* A run that is about to write an item knows whose.
RunInv ==
  /\ TypeOK
  /\ \A w \in Runners : runner[w].pc = "upsert" => runner[w].at \in Partners

\* The partners billed are finitely many naturals.
LEMMA BilledFinite ==
  ASSUME IsFiniteSet(Events), NEW keys \in SUBSET Keys
  PROVE  IsFiniteSet(Billed(keys)) /\ Billed(keys) \subseteq Partners /\ Partners \subseteq Nat
<1> DEFINE earner == [e \in Events |-> Owner[Key[e]]]
<1>1. Billed(keys) \subseteq Partners /\ Partners \subseteq {earner[e] : e \in Events}
  BY DEF Billed, Partners, Keys
<1>2. IsFiniteSet({earner[e] : e \in Events})
  <2>1. earner \in Surjection(Events, {earner[e] : e \in Events})
    BY DEF Surjection
  <2> HIDE DEF earner
  <2> QED
    BY <2>1, FS_Surjection
<1>3. Partners \subseteq Nat
  BY MonthEndAssumption DEF Partners, Keys
<1> QED
  BY <1>1, <1>2, <1>3, FS_Subset

\* A page holds finitely many partners.
LEMMA PageTyped ==
  ASSUME IsFiniteSet(Events), NEW keys \in SUBSET Keys, NEW offset \in Nat
  PROVE  Page(keys, offset) \in SUBSET Partners /\ Cardinality(Page(keys, offset)) \in Nat
<1>1. Page(keys, offset) \subseteq Billed(keys)
  BY DEF Page
<1> QED
  BY <1>1, BilledFinite, FS_Subset, FS_CardinalityType

\* A process goes on with its run.
LEMMA RunGoes ==
  ASSUME RunInv, NEW w \in Runners, NEW change \in Run, Go(w, change),
         change.pc = "upsert" => change.at \in Partners,
         FeedTypeOK', status' \in SettlementStatus, item' = item, covered' \subseteq Keys,
         overlap' \in BOOLEAN, runs' \in 0 .. MaxRuns
  PROVE  RunInv'
<1>1. runner' = [runner EXCEPT ![w] = change] /\ runner \in [Runners -> Run]
  BY DEF Go, RunInv, TypeOK, Run
<1>2. runner' \in [Runners -> Run] /\ runner'[w] = change /\ \A v \in Runners \ {w} : runner'[v] = runner[v]
  BY <1>1
<1>3. TypeOK'
  BY <1>2 DEF RunInv, TypeOK, Run, Partners
<1> QED
  BY <1>2, <1>3 DEF RunInv, Partners

\* What the type of the run says of one runner.
LEMMA RunTyped ==
  ASSUME RunInv, NEW w \in Runners
  PROVE  /\ runner[w] \in Run /\ Resting \in Run /\ revenue \in SUBSET Keys
         /\ status \in SettlementStatus /\ covered \subseteq Keys /\ overlap \in BOOLEAN /\ runs \in 0 .. MaxRuns
         /\ {"generated", "gate_failed", "locked"} \subseteq SettlementStatus
  BY DEF RunInv, TypeOK, FeedTypeOK, Run, Resting, SettlementStatus


\* Each step of RunMonthly keeps the type of the run.
LEMMA RunStep ==
  ASSUME IsFiniteSet(Events), RunInv, NEW w \in Runners, RunMonthly(w), UNCHANGED feedVars
  PROVE  RunInv'
<1>1. /\ runner[w] \in Run /\ Resting \in Run /\ revenue \in SUBSET Keys
      /\ status \in SettlementStatus /\ covered \subseteq Keys /\ overlap \in BOOLEAN /\ runs \in 0 .. MaxRuns
      /\ {"generated", "gate_failed", "locked"} \subseteq SettlementStatus
  BY RunTyped
<1>2. FeedTypeOK' /\ MaxRuns \in Nat
  BY MonthEndAssumption DEF RunInv, TypeOK, FeedTypeOK, feedVars
<1>3. CASE Begin(w)
  <2> DEFINE change == [Resting EXCEPT !.pc = "list", !.status = status, !.base = revenue]
  <2>1. change \in Run /\ change.pc = "list"
    BY <1>1 DEF Run, Resting
  <2>2. Go(w, change) /\ runs' \in 0 .. MaxRuns /\ overlap' \in BOOLEAN /\ UNCHANGED <<status, item, covered>>
    BY <1>1, <1>2, <1>3 DEF Begin
  <2> HIDE DEF change
  <2> QED
    BY <1>1, <1>2, <2>1, <2>2, RunGoes
<1>4. CASE ListPartnerIDs(w)
  <2> DEFINE page == Page(revenue, runner[w].offset)
             change == [runner[w] EXCEPT !.pc = "load", !.page = page,
                                         !.offset = runner[w].offset + Cardinality(page)]
  <2>1. runner[w].offset \in Nat
    BY <1>1 DEF Run
  <2>2. page \in SUBSET Partners /\ Cardinality(page) \in Nat
    BY <1>1, <2>1, PageTyped
  <2>3. Go(w, change) /\ UNCHANGED <<status, item, covered, overlap, runs>>
    BY <1>4 DEF ListPartnerIDs
  <2> HIDE DEF page
  <2>4. PICK offset \in Nat : offset = runner[w].offset + Cardinality(page)
    BY <2>1, <2>2
  <2>5. [runner[w] EXCEPT !.pc = "load", !.page = page, !.offset = offset] \in Run
    BY <1>1, <2>2 DEF Run
  <2>6. change \in Run /\ change.pc = "load"
    BY <1>1, <2>4, <2>5 DEF Run
  <2> HIDE DEF change
  <2> QED
    BY <1>1, <1>2, <2>3, <2>6, RunGoes
<1>5. CASE Load(w)
  <2>1. PICK p \in runner[w].page :
          Go(w, [runner[w] EXCEPT !.pc = "upsert", !.at = p, !.rows = Earned(p, revenue)])
    BY <1>5 DEF Load
  <2> DEFINE change == [runner[w] EXCEPT !.pc = "upsert", !.at = p, !.rows = Earned(p, revenue)]
  <2>2. Earned(p, revenue) \in SUBSET Keys /\ p \in Partners
    BY <1>1 DEF Earned, Run
  <2>3. change \in Run /\ change.at \in Partners
    BY <1>1, <2>2 DEF Run
  <2>4. UNCHANGED <<status, item, covered, overlap, runs>>
    BY <1>5 DEF Load
  <2> HIDE DEF change
  <2> QED
    BY <1>1, <1>2, <2>1, <2>3, <2>4, RunGoes DEF change
<1>6. CASE UpsertItem(w)
  <2> DEFINE p == runner[w].at
             rest == runner[w].page \ {p}
             next == IF rest = {} THEN "list" ELSE "load"
             change == [runner[w] EXCEPT !.pc = next, !.page = rest, !.at = 0, !.rows = {}]
  <2>1. p \in Partners /\ runner[w].rows \subseteq Keys
    BY <1>1, <1>6 DEF UpsertItem, Running, RunInv, Run
  <2>2. change \in Run /\ change.pc # "upsert"
    BY <1>1 DEF Run
  <2>3. /\ item' = [q \in DOMAIN item \cup {p} |-> IF q = p THEN runner[w].rows ELSE item[q]]
        /\ runner' = [runner EXCEPT ![w] = change] /\ UNCHANGED <<status, covered, overlap, runs>>
    BY <1>6 DEF UpsertItem, NextPartner, Go
  <2> HIDE DEF change
  <2>4. DOMAIN item' \subseteq Partners /\ \A q \in DOMAIN item' : item'[q] \subseteq Keys
    BY <2>1, <2>3 DEF RunInv, TypeOK
  <2>5. /\ runner' \in [Runners -> Run]
        /\ \A v \in Runners : runner'[v].pc = "upsert" => runner'[v] = runner[v]
    BY <2>2, <2>3 DEF RunInv, TypeOK, Run
  <2>6. TypeOK'
    BY <1>1, <1>2, <2>3, <2>4, <2>5 DEF TypeOK, Run, Partners
  <2> QED
    BY <2>5, <2>6 DEF RunInv, Partners
<1>7. CASE Generate(w)
  <2> DEFINE change == [runner[w] EXCEPT !.pc = "gate", !.status = "generated"]
  <2>1. change \in Run /\ change.pc = "gate" /\ Resting.pc = "idle"
    BY <1>1 DEF Run, Resting
  <2>2. /\ Go(w, change) \/ Go(w, Resting)
        /\ status' \in SettlementStatus /\ UNCHANGED <<item, covered, overlap, runs>>
    BY <1>1, <1>7 DEF Generate, Rest
  <2> HIDE DEF change
  <2> QED
    BY <1>1, <1>2, <2>1, <2>2, RunGoes
<1>8. CASE Gate(w)
  <2> DEFINE change == [runner[w] EXCEPT !.pc = "lock"]
  <2>1. change \in Run /\ change.pc = "lock" /\ Resting.pc = "idle"
    BY <1>1 DEF Run, Resting
  <2>2. /\ Go(w, change) \/ Go(w, Resting)
        /\ status' \in SettlementStatus /\ UNCHANGED <<item, covered, overlap, runs>>
    BY <1>1, <1>8 DEF Gate, Rest
  <2> HIDE DEF change
  <2> QED
    BY <1>1, <1>2, <2>1, <2>2, RunGoes
<1>9. CASE Lock(w)
  <2>1. /\ Go(w, Resting) /\ Resting.pc = "idle"
        /\ status' \in SettlementStatus /\ covered' \subseteq Keys /\ UNCHANGED <<item, overlap, runs>>
    BY <1>1, <1>9 DEF Lock, Rest, Run, Resting
  <2> QED
    BY <1>1, <1>2, <2>1, RunGoes
<1> QED
  BY <1>3, <1>4, <1>5, <1>6, <1>7, <1>8, <1>9 DEF RunMonthly

\* Every step keeps the type of the run.
LEMMA RunInductive ==
  ASSUME IsFiniteSet(Events), RunInv, FeedInv, FeedInv', [Next]_vars
  PROVE  RunInv'
<1>1. FeedTypeOK'
  BY DEF FeedInv
<1>2. CASE UNCHANGED settleVars
  BY <1>1, <1>2 DEF settleVars, RunInv, TypeOK, Partners
<1>3. CASE \E w \in Runners : RunMonthly(w) /\ UNCHANGED feedVars
  BY <1>3, RunStep
<1>4. ASSUME NEW w \in Runners, RunFails(w) PROVE RunInv'
  <2>1. /\ Go(w, Resting) /\ Resting \in Run /\ Resting.pc = "idle"
        /\ status' \in SettlementStatus /\ UNCHANGED <<item, covered, overlap, runs>>
    BY <1>4, RunTyped DEF RunFails, Rest, Resting
  <2> QED
    BY <1>1, <2>1, RunTyped, RunGoes
<1> QED
  BY <1>2, <1>3, <1>4 DEF Next, vars

\* The feed and the month-end run keep their variables in their types, for any
\* finite number of rows, and any consumers, runners and faults.
THEOREM TypeCorrect == ASSUME IsFiniteSet(Events) PROVE Spec => []TypeOK
<1>1. Init /\ FeedInv => RunInv
  <2>1. Resting \in Run /\ Resting.pc = "idle"
    BY DEF Resting, Run, SettlementStatus
  <2>2. Init => overlap \in BOOLEAN
    BY DEF Init
  <2> QED
    BY <2>1, <2>2, MonthEndAssumption
    DEF Init, RunInv, TypeOK, Run, FeedInv, SettlementStatus
<1>2. RunInv /\ FeedInv /\ FeedInv' /\ [Next]_vars => RunInv'
  BY RunInductive
<1>3. RunInv => TypeOK
  BY DEF RunInv
<1> QED
  BY <1>1, <1>2, <1>3, FeedCorrect, PTL DEF Spec

\* At most one run is under way, as long as no two have overlapped.
Alone(w) == \A v \in Runners \ {w} : Running(v, "idle")
OneRun == \A w \in Runners : Running(w, "idle") \/ Alone(w)

\* The process that takes a step of its run is the only one to run.
LEMMA StepsAlone ==
  ASSUME TypeOK, OneRun, NEW w \in Runners, RunMonthly(w) \/ RunFails(w), ~overlap'
  PROVE  /\ ~overlap /\ OneRun'
         /\ \A v \in Runners \ {w} : runner'[v] = runner[v] /\ runner'[v].pc = "idle"
<1>1. PICK change : Go(w, change)
  BY DEF RunMonthly, Begin, ListPartnerIDs, Load, UpsertItem, NextPartner, Generate, Gate, Lock,
         RunFails, Rest
<1>2. \A v \in Runners \ {w} : runner'[v] = runner[v]
  BY <1>1 DEF Go, TypeOK
<1>3. ~overlap /\ Alone(w)
  <2>1. CASE Begin(w)
    BY <2>1 DEF Begin, Alone
  <2>2. CASE ~Begin(w)
    <3>1. overlap' = overlap
      BY <2>2 DEF RunMonthly, ListPartnerIDs, Load, UpsertItem, Generate, Gate, Lock, RunFails
    <3>2. ~Running(w, "idle")
      BY <2>2 DEF RunMonthly, ListPartnerIDs, Load, UpsertItem, Generate, Gate, Lock, RunFails,
                  Running
    <3> QED
      BY <3>1, <3>2 DEF OneRun
  <2> QED
    BY <2>1, <2>2
<1>4. \A v \in Runners \ {w} : runner'[v] = runner[v] /\ runner'[v].pc = "idle"
  BY <1>2, <1>3 DEF Alone, Running
<1>5. OneRun'
  BY <1>4 DEF OneRun, Alone, Running
<1> QED
  BY <1>3, <1>4, <1>5

\* What a run knows of the settlement it works on.
Informed ==
  \A w \in Runners :
    /\ Running(w, "idle") \/ runner[w].status = status
    /\ runner[w].pc \in {"gate", "lock"} => runner[w].status = "generated"

\* No run takes the lock from a settlement unless two overlap: it starts from the
\* stored status, and none of its steps is behind "locked" (runner.go, engine.go:7).
THEOREM LockedForeverCorrect ==
  ASSUME IsFiniteSet(Events)
  PROVE  Spec => LockedForever
<1> DEFINE Inv == overlap \/ (OneRun /\ Informed)
<1>1. Init => Inv
  BY DEF Init, OneRun, Informed, Resting, Running, Alone
<1>2. TypeOK /\ Inv /\ [Next]_vars => Inv' /\ (status = "locked" /\ ~overlap' => status' = "locked")
  <2> SUFFICES ASSUME TypeOK, Inv, [Next]_vars, ~overlap'
               PROVE  OneRun' /\ Informed' /\ (status = "locked" => status' = "locked")
    OBVIOUS
  <2>1. CASE UNCHANGED settleVars
    BY <2>1 DEF settleVars, OneRun, Alone, Running, Informed
  <2>2. ASSUME NEW w \in Runners, RunMonthly(w) \/ RunFails(w)
        PROVE  OneRun' /\ Informed' /\ (status = "locked" => status' = "locked")
    <3>a. ~overlap
      BY <2>2
      DEF RunMonthly, Begin, ListPartnerIDs, Load, UpsertItem, Generate, Gate, Lock, RunFails
    <3>b. /\ OneRun /\ Informed /\ OneRun'
          /\ \A v \in Runners \ {w} : runner'[v] = runner[v] /\ runner'[v].pc = "idle"
      BY <2>2, <3>a, StepsAlone
    <3> SUFFICES Informed' /\ (status = "locked" => status' = "locked")
      BY <3>b
    <3>1. runner \in [Runners -> Run] /\ Resting.pc = "idle" /\ Resting.status = "generating"
      BY DEF TypeOK, Run, Resting
    <3>2. /\ runner[w].pc = "idle" \/ runner[w].status = status
          /\ runner[w].pc \in {"gate", "lock"} => runner[w].status = "generated"
      BY <3>b DEF Informed, Running
    <3>3. \A change : Go(w, change) => runner'[w] = change
      BY <3>1 DEF Go
    <3>0. Rest(w) => runner'[w] = Resting
      BY <3>3 DEF Rest
    <3>4. ASSUME \/ runner'[w] = Resting
                 \/ /\ runner'[w].status = status'
                    /\ runner'[w].pc \in {"gate", "lock"} => status' = "generated"
          PROVE  Informed'
      BY <3>1, <3>4, <3>b DEF Informed, Running
    <3>5. CASE Begin(w)
      <4> DEFINE change == [Resting EXCEPT !.pc = "list", !.status = status, !.base = revenue]
      <4>1. runner'[w] = change /\ status' = status
        BY <3>3, <3>5 DEF Begin
      <4>2. change.status = status /\ change.pc = "list"
        BY DEF Resting
      <4> QED
        BY <3>4, <4>1, <4>2
    <3>6. ASSUME runner'[w].status = runner[w].status, runner'[w].pc \in {"list", "load", "upsert"},
                 runner[w].pc # "idle", status' = status
          PROVE  Informed'
      BY <3>1, <3>2, <3>4, <3>6
    <3>7. CASE ListPartnerIDs(w)
      <4>1. /\ runner'[w].status = runner[w].status /\ runner'[w].pc = "load"
            /\ runner[w].pc # "idle" /\ status' = status
        BY <3>1, <3>3, <3>7 DEF ListPartnerIDs, Running, Run
      <4> QED
        BY <3>6, <4>1
    <3>8. CASE Load(w)
      <4>1. /\ runner'[w].status = runner[w].status /\ runner'[w].pc = "upsert"
            /\ runner[w].pc # "idle" /\ status' = status
        BY <3>1, <3>3, <3>8 DEF Load, Running, Run
      <4> QED
        BY <3>6, <4>1
    <3>9. CASE UpsertItem(w)
      <4>1. /\ runner'[w].status = runner[w].status /\ runner'[w].pc \in {"list", "load"}
            /\ runner[w].pc # "idle" /\ status' = status
        BY <3>1, <3>3, <3>9 DEF UpsertItem, NextPartner, Running, Run
      <4> QED
        BY <3>6, <4>1
    <3>10. CASE Generate(w)
      <4>1. runner[w].status = status
        BY <3>1, <3>2, <3>10 DEF Generate, Running
      <4>2. CASE CanTransition(runner[w].status, "generated")
        <5>1. /\ status' = "generated"
              /\ runner'[w].status = "generated"
          BY <3>1, <3>3, <3>10, <4>2 DEF Generate, Run
        <5>2. status # "locked"
          BY <4>1, <4>2 DEF CanTransition
        <5> QED
          BY <3>4, <5>1, <5>2
      <4>3. CASE ~CanTransition(runner[w].status, "generated")
        BY <3>0, <3>4, <3>10, <4>3 DEF Generate
      <4> QED
        BY <4>2, <4>3
    <3>11. CASE Gate(w)
      <4>1. runner[w].status = status /\ status = "generated"
        BY <3>1, <3>2, <3>11 DEF Gate, Running
      <4>2. runner'[w] = Resting \/ (runner'[w].status = runner[w].status /\ status' = status)
        BY <3>0, <3>1, <3>3, <3>11 DEF Gate, Run
      <4> QED
        BY <3>4, <4>1, <4>2
    <3>12. CASE Lock(w)
      BY <3>0, <3>4, <3>12 DEF Lock
    <3>13. CASE RunFails(w)
      <4>1. runner'[w] = Resting /\ (status' = status \/ runner[w].pc = "gate")
        BY <3>0, <3>13 DEF RunFails, Running
      <4>2. runner[w].pc = "gate" => status = "generated"
        BY <3>1, <3>2
      <4> QED
        BY <3>4, <4>1, <4>2
    <3> QED
      BY <2>2, <3>5, <3>7, <3>8, <3>9, <3>10, <3>11, <3>12, <3>13 DEF RunMonthly
  <2> QED
    BY <2>1, <2>2 DEF Next, vars
<1>3. TypeOK /\ Inv /\ [Next]_vars => [status = "locked" /\ ~overlap => status' = "locked"]_vars
  <2>1. ~overlap /\ overlap' /\ [Next]_vars => status' = status
    BY DEF Next, vars, settleVars, RunMonthly, Begin, ListPartnerIDs, Load, UpsertItem, Generate,
           Gate, Lock, RunFails
  <2> QED
    BY <1>2, <2>1
<1> QED
  BY <1>1, <1>2, <1>3, TypeCorrect, PTL DEF Spec, LockedForever

-----------------------------------------------------------------------------
(* The pages.  A partner's rank is the number of billed partners before it, *)
(* by which ListPartnerIDs orders the pages.                                *)

Rank(p, keys) == Cardinality({q \in Billed(keys) : q < p})

\* A set of naturals has a smallest element.
LEMMA SmallestOf ==
  ASSUME NEW S \in SUBSET Nat, S # {}
  PROVE  \E n \in S : \A m \in S : n <= m
<1>1. IsWellFoundedOn(OpToRel(<, Nat), Nat)
  BY NatLessThanWellFounded
<1>2. PICK n \in S : \A m \in S : <<m, n>> \notin OpToRel(<, Nat)
  BY <1>1, WFMin
<1>3. \A m \in S : ~(m < n)
  BY <1>2 DEF OpToRel
<1> QED
  BY <1>3

\* Each billed partner has a rank of its own.
LEMMA Ranks ==
  ASSUME IsFiniteSet(Events), NEW keys \in SUBSET Keys
  PROVE  /\ \A p \in Partners : Rank(p, keys) \in Nat
         /\ \A p, q \in Billed(keys) : p < q => Rank(p, keys) < Rank(q, keys)
<1> DEFINE Below(p) == {r \in Billed(keys) : r < p}
<1>1. IsFiniteSet(Billed(keys)) /\ Billed(keys) \subseteq Nat
  BY BilledFinite
<1>2. \A p : IsFiniteSet(Below(p))
  BY <1>1, FS_Subset
<1>3. \A p : Cardinality(Below(p)) \in Nat
  BY <1>2, FS_CardinalityType
<1>4. ASSUME NEW p \in Billed(keys), NEW q \in Billed(keys), p < q
      PROVE  Cardinality(Below(p)) < Cardinality(Below(q))
  <2>1. Below(p) \subseteq Below(q) /\ p \in Below(q) /\ p \notin Below(p)
    BY <1>1, <1>4
  <2>2. Below(p) # Below(q)
    BY <2>1
  <2> HIDE DEF Below
  <2> QED
    BY <1>2, <1>3, <2>1, <2>2, FS_Subset
<1> QED
  BY <1>3, <1>4 DEF Rank

\* Partners whose ranks lie in an interval are no more than its numbers.
LEMMA FewRanks ==
  ASSUME IsFiniteSet(Events), NEW keys \in SUBSET Keys, NEW S \in SUBSET Billed(keys),
         NEW a \in Nat, NEW n \in Nat, \A p \in S : Rank(p, keys) \in a .. a + n - 1
  PROVE  Cardinality(S) <= n
<1> DEFINE f == [p \in S |-> Rank(p, keys)]
<1>1. Billed(keys) \subseteq Nat
  BY BilledFinite
<1>2. f \in [S -> a .. a + n - 1]
  OBVIOUS
<1>3. \A p, q \in S : f[p] = f[q] => p = q
  <2> SUFFICES ASSUME NEW p \in S, NEW q \in S, f[p] = f[q] PROVE p = q
    OBVIOUS
  <2>1. p \in Nat /\ q \in Nat /\ Rank(p, keys) = Rank(q, keys) /\ Rank(p, keys) \in Nat
    BY <1>1, BilledFinite, Ranks
  <2>2. ~(p < q) /\ ~(q < p)
    BY <2>1, Ranks
  <2> QED
    BY <2>1, <2>2
<1>4. f \in Injection(S, a .. a + n - 1)
  BY <1>2, <1>3 DEF Injection, IsInjective
<1>5. /\ IsFiniteSet(a .. a + n - 1) /\ Cardinality(a .. a + n - 1) = n
  BY FS_Interval
<1> HIDE DEF f
<1> QED
  BY <1>4, <1>5, FS_Injection

\* A page is no larger than PageSize, and empty only when no partner is left.
LEMMA PageReaches ==
  ASSUME IsFiniteSet(Events), NEW keys \in SUBSET Keys, NEW offset \in Nat
  PROVE  /\ Cardinality(Page(keys, offset)) \in 0 .. PageSize
         /\ \A p \in Billed(keys) : Rank(p, keys) >= offset => Page(keys, offset) # {}
<1>1. PageSize \in Nat \ {0} /\ Billed(keys) \subseteq Nat
  BY MonthEndAssumption, BilledFinite
<1>2. Page(keys, offset) = {p \in Billed(keys) : Rank(p, keys) \in offset .. offset + PageSize - 1}
  BY DEF Page, Rank
<1>3. Cardinality(Page(keys, offset)) \in 0 .. PageSize
  <2>1. Page(keys, offset) \in SUBSET Billed(keys)
    BY <1>2
  <2>2. Cardinality(Page(keys, offset)) <= PageSize
    BY <1>1, <1>2, <2>1, FewRanks
  <2> QED
    BY <1>1, <2>2, PageTyped
<1>4. ASSUME NEW p \in Billed(keys), Rank(p, keys) >= offset PROVE Page(keys, offset) # {}
  <2> DEFINE left == {q \in Billed(keys) : Rank(q, keys) >= offset}
  <2>1. PICK q \in left : \A r \in left : q <= r
    BY <1>1, <1>4, SmallestOf
  <2> DEFINE below == {r \in Billed(keys) : r < q}
  <2>2. \A r \in below : Rank(r, keys) \in 0 .. 0 + offset - 1
    <3> SUFFICES ASSUME NEW r \in below PROVE Rank(r, keys) \in 0 .. 0 + offset - 1
      OBVIOUS
    <3>1. r \in Nat /\ q \in Nat /\ Rank(r, keys) \in Nat /\ r \notin left
      BY <1>1, <2>1, BilledFinite, Ranks
    <3> QED
      BY <3>1
  <2>3. Cardinality(below) <= offset
    <3>1. below \in SUBSET Billed(keys) /\ 0 \in Nat
      OBVIOUS
    <3> HIDE DEF below
    <3> QED
      BY <2>2, <3>1, FewRanks
  <2>4. Rank(q, keys) = Cardinality(below)
    BY DEF Rank
  <2>5. Rank(q, keys) >= offset /\ Rank(q, keys) \in Nat /\ q \in Billed(keys)
    BY <2>1, BilledFinite, Ranks
  <2> HIDE DEF below
  <2>6. Rank(q, keys) = offset
    BY <2>3, <2>4, <2>5
  <2>7. offset \in offset .. offset + PageSize - 1
    BY <1>1
  <2> QED
    BY <1>2, <2>5, <2>6, <2>7
<1> QED
  BY <1>3, <1>4

\* More revenue moves no partner to an earlier page.
LEMMA RanksRise ==
  ASSUME IsFiniteSet(Events), NEW more \in SUBSET Keys, NEW keys \in SUBSET more, NEW p \in Partners
  PROVE  Rank(p, keys) <= Rank(p, more)
<1>1. Billed(keys) \subseteq Billed(more)
  BY DEF Billed
<1>2. IsFiniteSet({q \in Billed(more) : q < p})
  BY BilledFinite, FS_Subset
<1>3. {q \in Billed(keys) : q < p} \subseteq {q \in Billed(more) : q < p}
  BY <1>1
<1> QED
  BY <1>2, <1>3, FS_Subset DEF Rank

-----------------------------------------------------------------------------
(* What a run is through with is written.                                  *)

Written(keys) == \A p \in Partners : Earned(p, keys) \subseteq Paid(p)
Ahead(p, w) == p \in runner[w].page \/ Rank(p, revenue) >= runner[w].offset
Walking(w) == runner[w].pc \in {"list", "load", "upsert"}

\* Of what was booked when a run began, a partner's share is written or the
\* partner is still ahead; what is about to be written includes it.
RunCovers(w) ==
  /\ runner[w].pc # "idle" => runner[w].base \subseteq revenue
  /\ runner[w].pc = "list" => runner[w].page = {}
  /\ runner[w].pc = "upsert" =>
       /\ runner[w].at \in runner[w].page
       /\ Earned(runner[w].at, runner[w].base \cup covered) \subseteq runner[w].rows
  /\ Walking(w) => \A p \in Partners : Earned(p, runner[w].base) \subseteq Paid(p) \/ Ahead(p, w)
  /\ runner[w].pc \in {"gate", "lock"} => Written(runner[w].base)

CoverInv ==
  covered \subseteq revenue /\ Written(covered) /\ \A w \in Runners : RunCovers(w)

\* Revenue that arrives takes no partner away from a run that is under way.
LEMMA CoverFeeds ==
  ASSUME IsFiniteSet(Events), TypeOK, CoverInv, UNCHANGED settleVars,
         revenue \subseteq revenue', revenue' \subseteq Keys
  PROVE  CoverInv'
<1>1. ASSUME NEW p \in Partners, NEW w \in Runners, Ahead(p, w) PROVE Ahead(p, w)'
  <2>1. /\ runner' = runner /\ runner[w].offset \in Nat
        /\ revenue \in SUBSET revenue' /\ revenue' \in SUBSET Keys /\ revenue \in SUBSET Keys
    BY DEF settleVars, TypeOK, FeedTypeOK
  <2>2. Rank(p, revenue) <= Rank(p, revenue')
    BY <2>1, RanksRise
  <2>3. Rank(p, revenue) \in Nat /\ Rank(p, revenue') \in Nat
    BY <2>1, Ranks
  <2> QED
    BY <1>1, <2>1, <2>2, <2>3 DEF Ahead
<1>2. /\ runner' = runner /\ covered' = covered /\ item' = item
  BY DEF settleVars
<1>3. /\ \A p : Paid(p)' = Paid(p) /\ \A w \in Runners : Walking(w)' <=> Walking(w)
      /\ \A keys : Written(keys)' <=> Written(keys)
  BY <1>2 DEF Paid, Walking, Written, Partners
<1>4. ASSUME NEW w \in Runners PROVE RunCovers(w)'
  <2>1. RunCovers(w)
    BY DEF CoverInv
  <2>2. Walking(w)' => \A p \in Partners : Earned(p, runner[w].base) \subseteq Paid(p)' \/ Ahead(p, w)'
    BY <1>1, <1>3, <2>1 DEF RunCovers
  <2> QED
    BY <1>2, <1>3, <2>1, <2>2 DEF RunCovers, Earned, Written, Partners
<1> QED
  BY <1>2, <1>3, <1>4 DEF CoverInv, Written, Partners, Earned

\* A process that rests claims nothing.
LEMMA OthersCover ==
  ASSUME NEW w \in Runners, \A v \in Runners \ {w} : runner'[v].pc = "idle",
         RunCovers(w)'
  PROVE  \A v \in Runners : RunCovers(v)'
<1> SUFFICES ASSUME NEW v \in Runners, v # w PROVE RunCovers(v)'
  OBVIOUS
<1> QED
  BY DEF RunCovers, Walking

\* A run that writes no item goes on.
LEMMA CoverGoes ==
  ASSUME NEW w \in Runners, \A v \in Runners \ {w} : runner'[v].pc = "idle", RunCovers(w)',
         CoverInv, UNCHANGED <<item, revenue, covered>>
  PROVE  CoverInv'
<1>1. \A v \in Runners : RunCovers(v)'
  BY OthersCover
<1>2. covered' \subseteq revenue' /\ Written(covered)'
  BY DEF CoverInv, Written, Partners, Earned, Paid
<1> QED
  BY <1>1, <1>2 DEF CoverInv

\* A run writes what it read, and passes only partners it has written.
LEMMA CoverStep ==
  ASSUME IsFiniteSet(Events), TypeOK, CoverInv,
         NEW w \in Runners, RunMonthly(w) \/ RunFails(w), revenue' = revenue,
         \A v \in Runners \ {w} : runner'[v].pc = "idle"
  PROVE  CoverInv'
<1> DEFINE r == runner[w]
<1>0. /\ r \in Run /\ Resting.pc = "idle" /\ Resting.base = {}
      /\ revenue \in SUBSET Keys /\ covered \subseteq revenue /\ RunCovers(w)
      /\ r.offset \in Nat /\ (r.pc # "idle" => r.base \subseteq revenue)
  BY DEF TypeOK, FeedTypeOK, Run, Resting, CoverInv, RunCovers
<1>1. \A change : Go(w, change) => runner'[w] = change
  BY <1>0 DEF Go, TypeOK
<1>2. ASSUME Rest(w), UNCHANGED <<item, covered>> PROVE CoverInv'
  <2>1. runner'[w] = Resting
    BY <1>1, <1>2 DEF Rest
  <2>2. RunCovers(w)'
    BY <1>0, <2>1 DEF RunCovers, Walking
  <2> QED
    BY <1>2, <2>2, CoverGoes
<1>3. CASE Begin(w)
  <2>1. runner'[w] = [Resting EXCEPT !.pc = "list", !.status = status, !.base = revenue]
    BY <1>1, <1>3 DEF Begin
  <2>2. /\ runner'[w].pc = "list" /\ runner'[w].page = {} /\ runner'[w].offset = 0
        /\ runner'[w].base = revenue
    BY <2>1 DEF Resting
  <2>3. \A p \in Partners : Ahead(p, w)'
    <3>1. \A p \in Partners : Rank(p, revenue) \in Nat
      BY <1>0, Ranks
    <3> QED
      BY <2>2, <3>1 DEF Ahead, Partners
  <2>4. RunCovers(w)'
    BY <2>2, <2>3 DEF RunCovers, Walking, Partners
  <2> QED
    BY <1>3, <2>4, CoverGoes DEF Begin
<1>4. CASE ListPartnerIDs(w)
  <2>1. PICK page : page = Page(revenue, r.offset)
    OBVIOUS
  <2>2. Cardinality(page) \in 0 .. PageSize /\ PageSize \in Nat
    BY <1>0, <2>1, PageReaches, MonthEndAssumption
  <2>3. PICK more \in Nat : more = r.offset + Cardinality(page)
    BY <1>0, <2>2
  <2>4. /\ runner'[w] = [r EXCEPT !.pc = "load", !.page = page, !.offset = more]
        /\ r.pc = "list" /\ UNCHANGED <<item, covered>>
    BY <1>1, <1>4, <2>1, <2>3 DEF ListPartnerIDs, Running
  <2>5. /\ runner'[w].pc = "load" /\ runner'[w].page = page /\ runner'[w].offset = more
        /\ runner'[w].base = r.base
    BY <1>0, <2>4 DEF Run
  <2>6. ASSUME NEW p \in Partners PROVE Earned(p, r.base) \subseteq Paid(p) \/ Ahead(p, w)'
    <3>1. CASE Earned(p, r.base) = {} \/ Earned(p, r.base) \subseteq Paid(p)
      BY <3>1
    <3>2. CASE Earned(p, r.base) # {} /\ ~(Earned(p, r.base) \subseteq Paid(p))
      <4>1. p \in Billed(revenue)
        BY <1>0, <2>4, <3>2 DEF Earned, Billed
      <4>2. Rank(p, revenue) >= r.offset /\ Rank(p, revenue) \in Nat
        BY <1>0, <2>4, <3>2, Ranks DEF RunCovers, Walking, Ahead
      <4>3. p \in page \/ Rank(p, revenue) >= r.offset + PageSize
        BY <1>0, <2>1, <2>2, <4>1, <4>2 DEF Page, Rank
      <4>4. p \in page \/ Rank(p, revenue) >= more
        BY <1>0, <2>2, <2>3, <4>2, <4>3
      <4> QED
        BY <2>5, <4>4 DEF Ahead
    <3> QED
      BY <3>1, <3>2
  <2>7. RunCovers(w)'
    BY <1>0, <2>4, <2>5, <2>6 DEF RunCovers, Walking, Paid, Partners
  <2> QED
    BY <2>4, <2>7, CoverGoes
<1>5. CASE Load(w)
  <2>1. PICK p \in r.page : Go(w, [r EXCEPT !.pc = "upsert", !.at = p, !.rows = Earned(p, revenue)])
    BY <1>5 DEF Load
  <2>2. /\ runner'[w].pc = "upsert" /\ runner'[w].page = r.page /\ runner'[w].offset = r.offset
        /\ runner'[w].base = r.base /\ runner'[w].at = p /\ runner'[w].rows = Earned(p, revenue)
        /\ r.pc = "load" /\ UNCHANGED <<item, covered>>
    BY <1>0, <1>1, <1>5, <2>1 DEF Load, Running, Run
  <2>3. Earned(p, r.base \cup covered) \subseteq Earned(p, revenue)
    BY <1>0, <2>2 DEF Earned
  <2>4. \A q \in Partners : Earned(q, r.base) \subseteq Paid(q) \/ Ahead(q, w)'
    BY <1>0, <2>2 DEF RunCovers, Walking, Ahead
  <2>5. RunCovers(w)'
    BY <1>0, <2>1, <2>2, <2>3, <2>4 DEF RunCovers, Walking, Paid, Partners
  <2> QED
    BY <2>2, <2>5, CoverGoes
<1>6. CASE UpsertItem(w)
  <2>1. PICK p : p = r.at
    OBVIOUS
  <2>2. r.pc = "upsert" /\ p \in r.page /\ Earned(p, r.base \cup covered) \subseteq r.rows
    BY <1>0, <1>6, <2>1 DEF UpsertItem, Running, RunCovers
  <2>3. PICK rest : rest = r.page \ {p}
    OBVIOUS
  <2>4. /\ runner'[w] = [r EXCEPT !.pc = IF rest = {} THEN "list" ELSE "load",
                                     !.page = rest, !.at = 0, !.rows = {}]
        /\ item' = [q \in DOMAIN item \cup {p} |-> IF q = p THEN r.rows ELSE item[q]]
        /\ covered' = covered
    BY <1>1, <1>6, <2>1, <2>3 DEF UpsertItem, NextPartner
  <2>5. /\ runner'[w].pc \in {"list", "load"} /\ (runner'[w].pc = "list" => rest = {})
        /\ runner'[w].page = rest /\ runner'[w].offset = r.offset /\ runner'[w].base = r.base
    BY <1>0, <2>4 DEF Run
  <2>6. /\ Paid(p)' = r.rows /\ \A q \in Partners \ {p} : Paid(q)' = Paid(q)
    BY <2>4 DEF Paid
  <2>7. ASSUME NEW q \in Partners PROVE Earned(q, r.base) \subseteq Paid(q)' \/ Ahead(q, w)'
    <3>1. CASE q = p
      BY <2>2, <2>6, <3>1 DEF Earned
    <3>2. CASE q # p
      BY <1>0, <2>2, <2>3, <2>5, <2>6, <3>2 DEF RunCovers, Walking, Ahead
    <3> QED
      BY <3>1, <3>2
  <2>8. RunCovers(w)'
    BY <1>0, <2>2, <2>5, <2>7 DEF RunCovers, Walking, Partners
  <2>9. Written(covered)'
    <3> SUFFICES ASSUME NEW q \in Partners PROVE Earned(q, covered) \subseteq Paid(q)'
      BY <2>4 DEF Written, Partners, Earned
    <3>1. CASE q = p
      BY <2>2, <2>6, <3>1 DEF Earned
    <3>2. CASE q # p
      BY <2>6, <3>2 DEF CoverInv, Written
    <3> QED
      BY <3>1, <3>2
  <2> QED
    BY <1>0, <2>4, <2>8, <2>9, OthersCover DEF CoverInv
<1>7. CASE Generate(w)
  <2>1. Rest(w) \/ Go(w, [r EXCEPT !.pc = "gate", !.status = "generated"])
    BY <1>7 DEF Generate
  <2>2. r.pc = "list" /\ Page(revenue, r.offset) = {} /\ UNCHANGED <<item, covered>>
    BY <1>7 DEF Generate, Running
  <2>3. CASE Go(w, [r EXCEPT !.pc = "gate", !.status = "generated"])
    <3>1. runner'[w].pc = "gate" /\ runner'[w].base = r.base
      BY <1>0, <1>1, <2>3 DEF Run
    <3>2. ASSUME NEW p \in Partners PROVE Earned(p, r.base) \subseteq Paid(p)
      <4>1. CASE Earned(p, r.base) = {}
        BY <4>1
      <4>2. CASE Earned(p, r.base) # {}
        <5>1. p \in Billed(revenue)
          BY <1>0, <2>2, <4>2 DEF Earned, Billed
        <5>2. ~(Rank(p, revenue) >= r.offset)
          BY <1>0, <2>2, <5>1, PageReaches
        <5> QED
          BY <1>0, <2>2, <5>2 DEF RunCovers, Walking, Ahead
      <4> QED
        BY <4>1, <4>2
    <3>3. RunCovers(w)'
      BY <1>0, <2>2, <3>1, <3>2 DEF RunCovers, Walking, Written, Paid, Partners, Earned
    <3> QED
      BY <2>2, <3>3, CoverGoes
  <2> QED
    BY <1>2, <2>1, <2>2, <2>3
<1>8. CASE Gate(w)
  <2>1. r.pc = "gate" /\ UNCHANGED <<item, covered>>
    BY <1>8 DEF Gate, Running
  <2>2. CASE Go(w, [r EXCEPT !.pc = "lock"])
    <3>1. runner'[w].pc = "lock" /\ runner'[w].base = r.base
      BY <1>0, <1>1, <2>2 DEF Run
    <3>2. RunCovers(w)'
      BY <1>0, <2>1, <3>1 DEF RunCovers, Walking, Written, Paid, Partners, Earned
    <3> QED
      BY <2>1, <3>2, CoverGoes
  <2> QED
    BY <1>2, <1>8, <2>1, <2>2 DEF Gate
<1>9. CASE Lock(w)
  <2>1. runner'[w] = Resting /\ covered' = r.base /\ item' = item /\ r.pc = "lock"
    BY <1>1, <1>9 DEF Lock, Rest, Running
  <2>2. RunCovers(w)'
    BY <1>0, <2>1 DEF RunCovers, Walking
  <2>3. Written(covered)'
    BY <1>0, <2>1 DEF RunCovers, Written, Paid, Partners, Earned
  <2> QED
    BY <1>0, <2>1, <2>2, <2>3, OthersCover DEF CoverInv
<1>10. CASE RunFails(w)
  BY <1>2, <1>10 DEF RunFails
<1> QED
  BY <1>3, <1>4, <1>5, <1>6, <1>7, <1>8, <1>9, <1>10 DEF RunMonthly

\* The feed only adds to revenue_log.
LEMMA RevenueGrows ==
  ASSUME FeedNext
  PROVE  revenue \subseteq revenue'
BY DEF FeedNext, Publish, Age, TickOnce, Pull, Process, Ack, Nack, AnswerLost, CrashConsumer

\* A locked settlement covers what was booked when the run that locked it began,
\* for any number of rows, partners, consumers and runners, any page size and any
\* faults, unless two runs overlap: one could then write an item over with older
\* rows (RunMonthly).
THEOREM LockedCoversCorrect ==
  ASSUME IsFiniteSet(Events)
  PROVE  Spec => []LockedCovers
<1> DEFINE Inv == overlap \/ (OneRun /\ CoverInv)
<1>1. Init => Inv
  BY DEF Init, FeedInit, OneRun, Running, CoverInv, Written, RunCovers, Walking, Earned, Resting
<1>2. TypeOK /\ TypeOK' /\ Inv /\ [Next]_vars => Inv'
  <2> SUFFICES ASSUME TypeOK, TypeOK', Inv, [Next]_vars, ~overlap' PROVE OneRun' /\ CoverInv'
    OBVIOUS
  <2>0. OneRun /\ CoverInv
    BY DEF Next, vars, settleVars, RunMonthly, Begin, ListPartnerIDs, Load, UpsertItem, Generate,
           Gate, Lock, RunFails
  <2>a. UNCHANGED settleVars => OneRun'
    BY <2>0 DEF OneRun, Alone, Running, settleVars
  <2>1. revenue' \subseteq Keys
    BY DEF TypeOK, FeedTypeOK
  <2>2. CASE UNCHANGED vars
    BY <2>0, <2>a, <2>1, <2>2, CoverFeeds DEF vars, feedVars
  <2>3. CASE FeedNext /\ UNCHANGED settleVars
    BY <2>0, <2>a, <2>1, <2>3, RevenueGrows, CoverFeeds
  <2>4. ASSUME NEW w \in Runners, RunMonthly(w) \/ RunFails(w), revenue' = revenue
        PROVE  OneRun' /\ CoverInv'
    BY <2>0, <2>4, StepsAlone, CoverStep
  <2> QED
    BY <2>2, <2>3, <2>4 DEF Next, feedVars
<1>3. Inv => LockedCovers
  BY DEF CoverInv, Written, LockedCovers
<1> QED
  BY <1>1, <1>2, <1>3, TypeCorrect, PTL DEF Spec

-----------------------------------------------------------------------------
\* ComputeItem splits what remains of the revenue after the costs, and nothing
\* when the costs exceed it: payout and tax are not negative, make up the whole
\* and the tax is a fifth of it, rounded down, for a person only (ComputeItem).
THEOREM SettlementSplit ==
  ASSUME NEW kind, NEW revenues \in Int, NEW adjustments \in Int, NEW costs \in Int
  PROVE  LET it == ComputeItem(kind, revenues, adjustments, costs)
             net == AtLeastZero(revenues + adjustments - costs)
         IN /\ it.payout \in Nat /\ it.tax \in Nat
            /\ it.payout + it.tax = net
            /\ it.payout <= AtLeastZero(it.revenue - it.cost)
            /\ kind # "personal" => it.tax = 0
            /\ kind = "personal" => 5 * it.tax <= net /\ net < 5 * it.tax + 5
<1> DEFINE net == AtLeastZero(revenues + adjustments - costs)
           tax == IF kind = "personal" THEN ((net - 0) * 20) \div 100 ELSE 0
           it == ComputeItem(kind, revenues, adjustments, costs)
<1>1. net \in Nat
  BY DEF AtLeastZero
<1>2. /\ tax \in Nat /\ tax <= net
      /\ kind = "personal" => 5 * tax <= net /\ net < 5 * tax + 5
  <2> HIDE DEF net
  <2>1. CASE kind = "personal"
    <3>1. ((net - 0) * 20) \div 100 = (net * 20) \div 100
      BY <1>1
    <3>2. PICK q \in Nat : (net * 20) \div 100 = q /\ 100 * q <= net * 20 /\ net * 20 < 100 * q + 100
      BY <1>1
    <3>3. QED BY <1>1, <2>1, <3>1, <3>2
  <2>2. CASE kind # "personal"
    BY <1>1, <2>2
  <2>3. QED BY <2>1, <2>2
<1>3. /\ it.revenue = revenues + adjustments /\ it.cost = costs
      /\ it.tax = tax
      /\ it.payout = AtLeastZero(net - 0 - tax)
  BY DEF ComputeItem, PersonalWithholdRate
<1>4. it.payout = net - tax
  <2> HIDE DEF net, tax, it
  <2>1. QED BY <1>1, <1>2, <1>3 DEF AtLeastZero
<1>5. AtLeastZero(it.revenue - it.cost) = net
  BY <1>3
<1>6. QED
  <2> HIDE DEF net, tax, it
  <2>1. /\ it.payout \in Nat /\ it.tax \in Nat /\ it.payout + it.tax = net
        /\ it.payout <= net
        /\ kind = "personal" => 5 * it.tax <= net /\ net < 5 * it.tax + 5
    BY <1>1, <1>2, <1>3, <1>4
  <2>2. kind # "personal" => it.tax = 0
    BY <1>3 DEF tax
  <2>3. QED BY <1>5, <2>1, <2>2 DEF it, net
=============================================================================
