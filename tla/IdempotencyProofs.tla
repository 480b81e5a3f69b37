-------------------------- MODULE IdempotencyProofs --------------------------
(***************************************************************************)
(* Proofs about the Idempotency middleware for any number of requests,     *)
(* endpoints and faults.                                                   *)
(***************************************************************************)
EXTENDS Idempotency, TLAPS

USE IdempotencyAssumption

LEMMA GotoType ==
  ASSUME TypeOK, NEW r \in Requests, NEW where \in Places, Goto(r, where)
  PROVE  at' \in [Requests -> Places]
  BY DEF Goto, TypeOK

LEMMA FaultType == TypeOK /\ (Fault \/ NoFault) => faults' \in 0 .. MaxFaults
  BY DEF Fault, NoFault, TypeOK

LEMMA AnswerType ==
  ASSUME TypeOK, NEW r \in Requests, NEW ok \in BOOLEAN, NEW from \in Requests,
         Answer(r, ok, from)
  PROVE  response' \in [Requests -> [ok : BOOLEAN, from : Requests]]
  BY DEF Answer, TypeOK

\* Every step of the middleware keeps the variables in their types.
LEMMA TypeStep == TypeOK /\ [Next]_vars => TypeOK'
<1> SUFFICES ASSUME TypeOK, [Next]_vars PROVE TypeOK'
  OBVIOUS
<1> USE DEF Places
<1>1. ASSUME NEW r \in Requests, SetNX(r) \/ Taken(r) PROVE TypeOK'
  <2>1. at' \in [Requests -> Places] /\ faults' \in 0 .. MaxFaults
    BY <1>1, GotoType, FaultType DEF SetNX, Taken
  <2> QED
    BY <1>1, <2>1 DEF SetNX, Taken, TypeOK
<1>2. ASSUME NEW r \in Requests, RedisError(r) \/ InProgress(r) \/ Hit(r) PROVE TypeOK'
  <2>1. faults' \in 0 .. MaxFaults
    BY <1>2, FaultType DEF RedisError, InProgress, Hit
  <2>2. Turn(r) \/ \E s \in Requests : Replay(r, s)
    BY <1>2 DEF RedisError, InProgress, Hit, Fallback, Stored, TypeOK
  <2>3. CASE Turn(r)
    BY <2>1, <2>3, GotoType DEF Turn, TypeOK
  <2>4. ASSUME NEW s \in Requests, Replay(r, s) PROVE TypeOK'
    <3>1. at' \in [Requests -> Places]
      BY <2>4, GotoType DEF Replay
    <3> QED
      BY <2>1, <2>4, <3>1 DEF Replay, TypeOK
  <2> QED
    BY <2>2, <2>3, <2>4
<1>3. ASSUME NEW r \in Requests, HandlerCommits(r) PROVE TypeOK'
  <2>1. at' \in [Requests -> Places] /\ faults' \in 0 .. MaxFaults
    BY <1>3, GotoType, FaultType DEF HandlerCommits
  <2>2. response' \in [Requests -> [ok : BOOLEAN, from : Requests]]
    BY <1>3, AnswerType DEF HandlerCommits
  <2>3. record' \in [Endpoints -> {"none"} \cup Requests]
    BY <1>3 DEF HandlerCommits, TypeOK
  <2>4. reopened' \subseteq {"failed", "expired", "evicted"} /\ done' \subseteq Requests
    BY <1>3 DEF HandlerCommits, TypeOK
  <2> QED
    BY <1>3, <2>1, <2>2, <2>3, <2>4 DEF HandlerCommits, TypeOK
<1>4. ASSUME NEW r \in Requests, HandlerDuplicate(r) PROVE TypeOK'
  <2>1. at' \in [Requests -> Places] /\ faults' \in 0 .. MaxFaults
    BY <1>4, GotoType, FaultType DEF HandlerDuplicate
  <2>2. record[Route[r]] \in Requests
    BY <1>4 DEF HandlerDuplicate, Stored, TypeOK
  <2>3. response' \in [Requests -> [ok : BOOLEAN, from : Requests]]
    BY <1>4, <2>2, AnswerType DEF HandlerDuplicate
  <2> QED
    BY <1>4, <2>1, <2>3 DEF HandlerDuplicate, TypeOK
<1>5. ASSUME NEW r \in Requests, HandlerRefuses(r) PROVE TypeOK'
  <2>1. at' \in [Requests -> Places] /\ faults' \in 0 .. MaxFaults
    BY <1>5, GotoType, FaultType DEF HandlerRefuses
  <2>2. response' \in [Requests -> [ok : BOOLEAN, from : Requests]]
    BY <1>5, AnswerType DEF HandlerRefuses
  <2> QED
    BY <1>5, <2>1, <2>2 DEF HandlerRefuses, TypeOK
<1>6. ASSUME NEW r \in Requests, Finish(r) PROVE TypeOK'
  <2>1. at' \in [Requests -> Places] /\ faults' \in 0 .. MaxFaults
    BY <1>6, GotoType, FaultType DEF Finish
  <2>2. entry' \in {"none", "PENDING"} \cup Requests
    BY <1>6 DEF Finish, TypeOK
  <2> QED
    BY <1>6, <2>1, <2>2 DEF Finish, TypeOK
<1>7. ASSUME NEW r \in Requests, FinishFails(r) \/ Panics(r) PROVE TypeOK'
  <2>1. at' \in [Requests -> Places] /\ faults' \in 0 .. MaxFaults
    BY <1>7, GotoType, FaultType DEF FinishFails, Panics, Turn
  <2> QED
    BY <1>7, <2>1 DEF FinishFails, Panics, Turn, TypeOK
<1>8. CASE Expires \/ Evicted
  <2>1. faults' \in 0 .. MaxFaults
    BY <1>8, FaultType DEF Expires, Evicted
  <2>2. \E how \in {"expired", "evicted"} : Forget(how)
    BY <1>8 DEF Expires, Evicted
  <2> QED
    BY <2>1, <2>2 DEF Forget, TypeOK
<1>9. CASE UNCHANGED vars
  BY <1>9 DEF vars, TypeOK
<1> QED
  BY <1>1, <1>2, <1>3, <1>4, <1>5, <1>6, <1>7, <1>8, <1>9 DEF Next, Claim, Handle, Close

LEMMA TypeInit == Init => TypeOK
  BY DEF Init, TypeOK, Places

\* The variables of the middleware keep their types in every behaviour.
THEOREM TypeCorrect == Spec => []TypeOK
<1> QED
  BY TypeInit, TypeStep, PTL DEF Spec

-----------------------------------------------------------------------------
(* What may be stored.  A step is told by what it does to the entry, the   *)
(* record and the set of commits.                                          *)

StoreInv ==
  /\ TypeOK
  /\ \A e \in Endpoints : record[e] # "none" => record[e] \in done
  /\ entry \in Requests => entry \in done
  /\ \A r \in Requests : at[r] = "finish" /\ response[r].ok => response[r].from \in done
  /\ ReplaysCommitted

RecordInv == withDB => \A r \in done : record[Route[r]] = r

LEMMA StoreStep == StoreInv /\ [Next]_vars => StoreInv'
<1> SUFFICES ASSUME StoreInv, [Next]_vars PROVE StoreInv'
  OBVIOUS
<1>0. TypeOK /\ TypeOK'
  BY TypeStep DEF StoreInv
<1> USE <1>0
<1>1. ASSUME NEW r \in Requests, SetNX(r) \/ Taken(r) \/ FinishFails(r) \/ Panics(r)
      PROVE StoreInv'
  BY <1>1 DEF SetNX, Taken, FinishFails, Panics, Turn, Goto, StoreInv, ReplaysCommitted, TypeOK
<1>2. ASSUME NEW r \in Requests, RedisError(r) \/ InProgress(r) \/ Hit(r) PROVE StoreInv'
  <2>1. CASE Turn(r)
    BY <2>1 DEF Turn, Goto, StoreInv, ReplaysCommitted, TypeOK
  <2>2. ASSUME NEW s \in done, Replay(r, s) PROVE StoreInv'
    BY <2>2 DEF Replay, Goto, StoreInv, ReplaysCommitted, TypeOK
  <2>3. Turn(r) \/ \E s \in done : Replay(r, s)
    BY <1>2 DEF RedisError, InProgress, Hit, Fallback, Stored, StoreInv
  <2> QED
    BY <2>1, <2>2, <2>3
<1>3. ASSUME NEW r \in Requests, HandlerCommits(r) PROVE StoreInv'
  <2>1. done \subseteq done' /\ r \in done' /\ UNCHANGED <<entry, replayed>>
    BY <1>3 DEF HandlerCommits
  <2>2. \A e \in Endpoints : record'[e] \in {record[e], r}
    BY <1>3 DEF HandlerCommits, TypeOK
  <2>3. \A s \in Requests : /\ at'[s] = "finish" => s = r \/ at[s] = "finish"
                            /\ s # r => response'[s] = response[s]
                            /\ response'[r].from = r
    BY <1>3 DEF HandlerCommits, Answer, Goto, TypeOK
  <2> QED
    BY <2>1, <2>2, <2>3 DEF StoreInv, ReplaysCommitted
<1>4. ASSUME NEW r \in Requests, HandlerDuplicate(r) PROVE StoreInv'
  <2>1. UNCHANGED <<entry, record, replayed, done>> /\ record[Route[r]] \in done
    BY <1>4 DEF HandlerDuplicate, Stored, StoreInv
  <2>2. \A s \in Requests : /\ at'[s] = "finish" => s = r \/ at[s] = "finish"
                            /\ s # r => response'[s] = response[s]
                            /\ response'[r].from = record[Route[r]]
    BY <1>4 DEF HandlerDuplicate, Answer, Goto, TypeOK
  <2> QED
    BY <2>1, <2>2 DEF StoreInv, ReplaysCommitted
<1>5. ASSUME NEW r \in Requests, HandlerRefuses(r) PROVE StoreInv'
  BY <1>5 DEF HandlerRefuses, Answer, Goto, StoreInv, ReplaysCommitted, TypeOK
<1>6. ASSUME NEW r \in Requests, Finish(r) PROVE StoreInv'
  BY <1>6 DEF Finish, Goto, StoreInv, ReplaysCommitted, TypeOK
<1>7. CASE Expires \/ Evicted
  BY <1>7 DEF Expires, Evicted, Forget, StoreInv, ReplaysCommitted
<1>8. CASE UNCHANGED vars
  BY <1>8 DEF vars, StoreInv, ReplaysCommitted
<1> QED
  BY <1>1, <1>2, <1>3, <1>4, <1>5, <1>6, <1>7, <1>8 DEF Next, Claim, Handle, Close

\* Whatever errors, panics, evictions and expiries happen, only the response of
\* a request whose transaction committed is ever replayed (Hit, tryReplayFromDB).
THEOREM ReplaysCommittedCorrect == Spec => []ReplaysCommitted
<1>1. Init => StoreInv
  BY TypeInit DEF Init, StoreInv, ReplaysCommitted
<1>2. StoreInv => ReplaysCommitted
  BY DEF StoreInv
<1> QED
  BY <1>1, <1>2, StoreStep, PTL DEF Spec

-----------------------------------------------------------------------------

LEMMA RecordStep == TypeOK /\ RecordInv /\ [Next]_vars => RecordInv'
<1> SUFFICES ASSUME TypeOK, RecordInv, [Next]_vars PROVE RecordInv'
  OBVIOUS
<1>1. ASSUME NEW r \in Requests, HandlerCommits(r) PROVE RecordInv'
  BY <1>1 DEF HandlerCommits, Stored, RecordInv, TypeOK
<1>2. ASSUME UNCHANGED <<record, withDB, done>> PROVE RecordInv'
  BY <1>2 DEF RecordInv
<1>3. (\E r \in Requests : HandlerCommits(r)) \/ UNCHANGED <<record, withDB, done>>
  BY DEF Next, Claim, Handle, Close, SetNX, Taken, RedisError, InProgress, Hit, Fallback,
         Replay, Turn, HandlerDuplicate, HandlerRefuses, Finish, FinishFails, Panics,
         Expires, Evicted, Forget, vars
<1> QED
  BY <1>1, <1>2, <1>3

\* With the idempotency record in the business transaction, a key commits at
\* most once per endpoint, even if Redis loses everything (WithIdempotency).
LEMMA OnceWithRecordCorrect == Spec => []OnceWithRecord
<1>1. Init => RecordInv
  BY DEF Init, RecordInv
<1>2. RecordInv => OnceWithRecord
  BY DEF RecordInv, OnceWithRecord
<1> QED
  BY <1>1, <1>2, TypeInit, TypeStep, RecordStep, PTL DEF Spec

-----------------------------------------------------------------------------
(* One handler at a time.                                                  *)

HolderInv ==
  "evicted" \notin reopened =>
    \A r \in Running : entry = "PENDING" /\ \A s \in Running : r = s

CommitInv ==
  reopened = {} =>
    /\ \A r, s \in done : r = s
    /\ done # {} => entry # "none"
    /\ \A r \in Requests :
         at[r] = "handler" \/ (at[r] = "finish" /\ ~response[r].ok) => done = {}

OnceInv == StoreInv /\ HolderInv /\ CommitInv

LEMMA HolderStep == TypeOK /\ HolderInv /\ [Next]_vars => HolderInv'
<1> SUFFICES ASSUME TypeOK, HolderInv, [Next]_vars PROVE HolderInv'
  OBVIOUS
<1>1. ASSUME NEW r \in Requests, SetNX(r) PROVE HolderInv'
  BY <1>1 DEF SetNX, Goto, HolderInv, Running, TypeOK
<1>2. ASSUME NEW r \in Requests,
             Taken(r) \/ RedisError(r) \/ InProgress(r) \/ Hit(r) \/ FinishFails(r) \/ Panics(r)
      PROVE HolderInv'
  <2>1. UNCHANGED <<entry, reopened>> /\ \E where \in {"get", "done"} : Goto(r, where)
    BY <1>2 DEF Taken, RedisError, InProgress, Hit, FinishFails, Panics, Fallback, Replay, Turn
  <2>2. Running' \subseteq Running
    BY <2>1 DEF Running, Goto, TypeOK
  <2> QED
    BY <2>1, <2>2 DEF HolderInv
<1>3. ASSUME NEW r \in Requests, HandlerCommits(r) \/ HandlerDuplicate(r) \/ HandlerRefuses(r)
      PROVE HolderInv'
  <2>1. entry' = entry /\ reopened \subseteq reopened' /\ at[r] = "handler" /\ Goto(r, "finish")
    BY <1>3 DEF HandlerCommits, HandlerDuplicate, HandlerRefuses
  <2>2. Running' = Running
    BY <2>1 DEF Running, Goto, TypeOK
  <2> QED
    BY <2>1, <2>2 DEF HolderInv
<1>4. ASSUME NEW r \in Requests, Finish(r) PROVE HolderInv'
  BY <1>4 DEF Finish, Goto, HolderInv, Running, TypeOK
<1>5. CASE Expires
  BY <1>5 DEF Expires, Forget, HolderInv, Running
<1>6. CASE Evicted
  BY <1>6 DEF Evicted, Forget, HolderInv, Running
<1>7. CASE UNCHANGED vars
  BY <1>7 DEF vars, HolderInv, Running
<1> QED
  BY <1>1, <1>2, <1>3, <1>4, <1>5, <1>6, <1>7 DEF Next, Claim, Handle, Close

\* Two handlers never run at once for one key while Redis keeps the entry
\* (SETNX before, SET or DEL after the handler).
THEOREM ExclusiveCorrect == Spec => []Exclusive
<1>1. Init => HolderInv
  BY DEF Init, HolderInv, Running
<1>2. HolderInv => Exclusive
  BY DEF HolderInv, Exclusive
<1> QED
  BY <1>1, <1>2, TypeInit, TypeStep, HolderStep, PTL DEF Spec

LEMMA CommitStep == OnceInv /\ [Next]_vars => CommitInv'
<1> SUFFICES ASSUME OnceInv, [Next]_vars PROVE CommitInv'
  OBVIOUS
<1>0. TypeOK /\ StoreInv /\ HolderInv /\ CommitInv
  BY DEF OnceInv, StoreInv
<1> USE <1>0
<1>1. ASSUME NEW r \in Requests, SetNX(r) PROVE CommitInv'
  BY <1>1 DEF SetNX, Goto, CommitInv, TypeOK
<1>2. ASSUME NEW r \in Requests,
             Taken(r) \/ RedisError(r) \/ InProgress(r) \/ Hit(r) \/ FinishFails(r) \/ Panics(r)
      PROVE CommitInv'
  <2>1. UNCHANGED <<entry, reopened, done, response>>
        /\ \E where \in {"get", "done"} : Goto(r, where)
    BY <1>2 DEF Taken, RedisError, InProgress, Hit, FinishFails, Panics, Fallback, Replay, Turn
  <2> QED
    BY <2>1 DEF CommitInv, Goto, TypeOK
<1>3. ASSUME NEW r \in Requests, HandlerCommits(r), reopened' = {} PROVE CommitInv'
  <2>1. /\ reopened = {} /\ at[r] = "handler" /\ done' = done \cup {r} /\ entry' = entry
        /\ Goto(r, "finish") /\ Answer(r, TRUE, r)
    BY <1>3 DEF HandlerCommits
  <2>2. done = {} /\ entry = "PENDING" /\ \A s \in Running : s = r
    BY <2>1 DEF CommitInv, HolderInv, Running
  <2>3. done' = {r}
    BY <2>1, <2>2
  <2>4. ASSUME NEW s \in Requests PROVE at'[s] # "handler" /\ (at'[s] = "finish" => response'[s].ok)
    BY <2>1, <2>2 DEF Goto, Answer, Running, TypeOK
  <2> QED
    BY <2>1, <2>2, <2>3, <2>4 DEF CommitInv
<1>4. ASSUME NEW r \in Requests, HandlerDuplicate(r) PROVE CommitInv'
  <2>1. done # {} /\ at[r] = "handler" /\ reopened' = reopened
    BY <1>4 DEF HandlerDuplicate, Stored, StoreInv
  <2> QED
    BY <2>1 DEF CommitInv
<1>5. ASSUME NEW r \in Requests, HandlerRefuses(r) PROVE CommitInv'
  BY <1>5 DEF HandlerRefuses, Answer, Goto, CommitInv, TypeOK
<1>6. ASSUME NEW r \in Requests, Finish(r) PROVE CommitInv'
  BY <1>6 DEF Finish, Goto, CommitInv, TypeOK
<1>7. CASE Expires \/ Evicted
  BY <1>7 DEF Expires, Evicted, Forget, CommitInv, Running
<1>8. CASE UNCHANGED vars
  BY <1>8 DEF vars, CommitInv
<1> QED
  BY <1>1, <1>2, <1>3, <1>4, <1>5, <1>6, <1>7, <1>8 DEF Next, Claim, Handle, Close, CommitInv

\* Without a database lookup the middleware lets a key commit twice only after
\* the entry expired, was evicted, or was deleted because a handler that had
\* committed answered with an error.
LEMMA OnceUnlessReopenedCorrect == Spec => []OnceUnlessReopened
<1>1. Init => OnceInv
  BY TypeInit DEF Init, OnceInv, StoreInv, HolderInv, CommitInv, Running, ReplaysCommitted
<1>2. OnceInv /\ [Next]_vars => OnceInv'
  BY StoreStep, HolderStep, CommitStep DEF OnceInv, StoreInv
<1>3. OnceInv => OnceUnlessReopened
  BY DEF OnceInv, CommitInv, OnceUnlessReopened
<1> QED
  BY <1>1, <1>2, <1>3, PTL DEF Spec

\* Whatever Redis does, a key commits a second time only for one of the causes
\* named, and with the record in the transaction not at all for an endpoint.
THEOREM CommitsOnceCorrect == Spec => []CommitsOnce
<1>1. OnceUnlessReopened /\ OnceWithRecord => CommitsOnce
  BY DEF CommitsOnce
<1> QED
  BY <1>1, OnceWithRecordCorrect, OnceUnlessReopenedCorrect, PTL
=============================================================================
