----------------------------- MODULE Idempotency -----------------------------
(***************************************************************************)
(* The Idempotency middleware (internal/middleware/idempotency.go) for one *)
(* Idempotency-Key of one actor: the requests that carry the key, the      *)
(* Redis entry idem:{actor_type}:{actor_id}:{key}, and the rows of         *)
(* idempotency_record that a service writes in its business transaction.   *)
(* A response is the request whose handler produced it.                    *)
(***************************************************************************)
EXTENDS Naturals, FiniteSets

CONSTANTS
  Requests,   \* the requests that carry the key
  Endpoints,
  Route,      \* request -> the endpoint it is sent to
  Lookups,    \* whether an IdempotencyDBLookup is injected, as BOOLEANs
  MaxFaults   \* bound: Redis and database errors, panics

ASSUME IdempotencyAssumption ==
  /\ Route \in [Requests -> Endpoints]
  /\ Lookups \subseteq BOOLEAN
  /\ MaxFaults \in Nat
  /\ {"none", "PENDING"} \cap Requests = {}

VARIABLES
  entry,      \* the Redis entry: none, PENDING or the response stored in it
  record,     \* endpoint -> response in idempotency_record, or none
  withDB,     \* a lookup is injected and services use WithIdempotency
  at,         \* request -> where it is in the middleware
  response,   \* request -> what its handler answered
  replayed,   \* request -> the stored response it got instead, or none
  done,       \* requests whose business transaction committed
  reopened,   \* ways in which the key was freed after a transaction committed
  faults

vars == <<entry, record, withDB, at, response, replayed, done, reopened, faults>>

Fault == faults < MaxFaults /\ faults' = faults + 1
NoFault == UNCHANGED faults
Goto(r, where) == at' = [at EXCEPT ![r] = where]

-----------------------------------------------------------------------------
(* Claiming the key.                                                       *)

\* a PENDING entry does not keep others out
SetNXBug(r) ==
  /\ at[r] = "new" /\ entry \in {"none", "PENDING"}
  /\ entry' = "PENDING"
  /\ Goto(r, "handler")
  /\ NoFault
  /\ UNCHANGED <<record, withDB, response, replayed, done, reopened>>

SetNX(r) ==
  /\ at[r] = "new" /\ entry = "none"
  /\ entry' = "PENDING"
  /\ Goto(r, "handler")
  /\ NoFault
  /\ UNCHANGED <<record, withDB, response, replayed, done, reopened>>

Taken(r) ==
  /\ at[r] = "new" /\ entry # "none"
  /\ Goto(r, "get")
  /\ NoFault
  /\ UNCHANGED <<entry, record, withDB, response, replayed, done, reopened>>

Replay(r, s) ==
  /\ replayed' = [replayed EXCEPT ![r] = s]
  /\ Goto(r, "done")
  /\ UNCHANGED <<entry, record, withDB, response, done, reopened>>

\* 202 in_progress or 503: the handler does not run.
Turn(r) ==
  /\ Goto(r, "done")
  /\ UNCHANGED <<entry, record, withDB, response, replayed, done, reopened>>

Stored(r) == withDB /\ record[Route[r]] # "none"

\* tryReplayFromDB, or 202 / 503 when it finds nothing
Fallback(r) ==
  IF Stored(r) THEN Replay(r, record[Route[r]]) ELSE Turn(r)

\* SETNX or GET fails.
RedisError(r) ==
  /\ at[r] \in {"new", "get"}
  /\ Fault
  /\ Fallback(r) \/ Turn(r)

\* The entry is PENDING, or is gone by the time of the GET.
InProgress(r) ==
  /\ at[r] = "get" /\ entry \in {"none", "PENDING"}
  /\ Fallback(r)
  /\ NoFault

Hit(r) ==
  /\ at[r] = "get" /\ entry \in Requests
  /\ Replay(r, entry)
  /\ NoFault

-----------------------------------------------------------------------------
(* The handler and the entry it leaves.                                    *)

Answer(r, ok, from) == response' = [response EXCEPT ![r] = [ok |-> ok, from |-> from]]

\* WithIdempotency without its insert: the record is only looked up elsewhere
HandlerCommitsBug(r) ==
  /\ at[r] = "handler"
  /\ done' = done \cup {r}
  /\ record' = IF withDB THEN [record EXCEPT ![Route[r]] = r] ELSE record
  /\ Goto(r, "finish")
  /\ \E ok \in BOOLEAN :
       /\ Answer(r, ok, r)
       /\ reopened' = IF ok THEN reopened ELSE reopened \cup {"failed"}
  /\ NoFault
  /\ UNCHANGED <<entry, withDB, replayed>>

\* The business transaction commits, with the record in it; a step after it
\* may still fail and turn the answer into an error.
HandlerCommits(r) ==
  /\ at[r] = "handler" /\ ~Stored(r)
  /\ done' = done \cup {r}
  /\ record' = IF withDB THEN [record EXCEPT ![Route[r]] = r] ELSE record
  /\ Goto(r, "finish")
  /\ \E ok \in BOOLEAN :
       /\ Answer(r, ok, r)
       /\ reopened' = IF ok THEN reopened ELSE reopened \cup {"failed"}
  /\ NoFault
  /\ UNCHANGED <<entry, withDB, replayed>>

\* answers a duplicate with what Redis holds
HandlerDuplicateBug(r) ==
  /\ at[r] = "handler" /\ Stored(r)
  /\ Goto(r, "finish")
  /\ \E ok \in BOOLEAN : Answer(r, ok, entry)
  /\ NoFault
  /\ UNCHANGED <<entry, record, withDB, replayed, done, reopened>>

\* The record exists: the transaction is rolled back, and the caller answers
\* with the stored response or with the error.
HandlerDuplicate(r) ==
  /\ at[r] = "handler" /\ Stored(r)
  /\ Goto(r, "finish")
  /\ \E ok \in BOOLEAN : Answer(r, ok, record[Route[r]])
  /\ NoFault
  /\ UNCHANGED <<entry, record, withDB, replayed, done, reopened>>

HandlerRefuses(r) ==
  /\ at[r] = "handler"
  /\ Goto(r, "finish")
  /\ Answer(r, FALSE, r)
  /\ NoFault
  /\ UNCHANGED <<entry, record, withDB, replayed, done, reopened>>

\* the response is stored whatever its status
FinishBug(r) ==
  /\ at[r] = "finish"
  /\ entry' = response[r].from
  /\ Goto(r, "done")
  /\ NoFault
  /\ UNCHANGED <<record, withDB, response, replayed, done, reopened>>

\* the entry is deleted whatever the status
FinishDeletesBug(r) ==
  /\ at[r] = "finish"
  /\ entry' = "none"
  /\ Goto(r, "done")
  /\ NoFault
  /\ UNCHANGED <<record, withDB, response, replayed, done, reopened>>

\* SET the response on a 2xx, DEL the entry otherwise.
Finish(r) ==
  /\ at[r] = "finish"
  /\ entry' = IF response[r].ok THEN response[r].from ELSE "none"
  /\ Goto(r, "done")
  /\ NoFault
  /\ UNCHANGED <<record, withDB, response, replayed, done, reopened>>

\* Redis fails, or the handler took longer than the 2 s of the Redis context:
\* the error is ignored and PENDING stays.
FinishFails(r) ==
  /\ at[r] = "finish"
  /\ Fault
  /\ Turn(r)

\* A panic or a crash; what the middleware does after c.Next() is not deferred.
Panics(r) ==
  /\ at[r] = "handler"
  /\ Fault
  /\ Turn(r)

Running == {r \in Requests : at[r] \in {"handler", "finish"}}
Forget(how) ==
  /\ entry # "none"
  /\ entry' = "none"
  /\ reopened' = IF done = {} /\ Running = {} THEN reopened ELSE reopened \cup {how}
  /\ UNCHANGED <<record, withDB, at, response, replayed, done>>

\* The TTL of 24 h is longer than any handler runs.
Expires == Running = {} /\ Forget("expired") /\ NoFault

\* Redis restarts without its data.
Evicted == Fault /\ Forget("evicted")

-----------------------------------------------------------------------------
Init ==
  /\ entry = "none" /\ record = [e \in Endpoints |-> "none"]
  /\ withDB \in Lookups
  /\ at = [r \in Requests |-> "new"]
  /\ response = [r \in Requests |-> [ok |-> FALSE, from |-> r]]
  /\ replayed = [r \in Requests |-> "none"]
  /\ done = {} /\ reopened = {} /\ faults = 0

Claim(r) == SetNX(r) \/ Taken(r) \/ RedisError(r) \/ InProgress(r) \/ Hit(r)
Handle(r) == HandlerCommits(r) \/ HandlerDuplicate(r) \/ HandlerRefuses(r) \/ Panics(r)
Close(r) == Finish(r) \/ FinishFails(r)

Next ==
  \/ \E r \in Requests : Claim(r) \/ Handle(r) \/ Close(r)
  \/ Expires
  \/ Evicted

Spec == Init /\ [][Next]_vars

-----------------------------------------------------------------------------
(* Properties.                                                             *)

Places == {"new", "get", "handler", "finish", "done"}
TypeOK ==
  /\ entry \in {"none", "PENDING"} \cup Requests
  /\ record \in [Endpoints -> {"none"} \cup Requests]
  /\ withDB \in Lookups
  /\ at \in [Requests -> Places]
  /\ response \in [Requests -> [ok : BOOLEAN, from : Requests]]
  /\ replayed \in [Requests -> {"none"} \cup Requests]
  /\ done \subseteq Requests
  /\ reopened \subseteq {"failed", "expired", "evicted"}
  /\ faults \in 0 .. MaxFaults

\* While Redis keeps the entry, at most one handler runs for the key, whatever
\* errors, slow handlers and panics happen (IdempotencyWithDB, SETNX).
Exclusive == "evicted" \notin reopened => \A r, s \in Running : r = s

\* Without a database lookup the business transaction commits at most once per
\* key unless the key was freed after a commit: by the TTL, by Redis losing its
\* data, or by a handler that answers an error after it has committed.
OnceUnlessReopened == reopened = {} => \A r, s \in done : r = s

\* With the record in the business transaction it commits at most once per
\* endpoint, even when Redis is lost (idempotency.go:13-14, "DB 仍能保证幂等").
OnceWithRecord == withDB => \A r, s \in done : Route[r] = Route[s] => r = s

\* So a second commit has one of these causes, and with the record none.
CommitsOnce == OnceUnlessReopened /\ OnceWithRecord

\* A replayed response comes from a request that committed: a refusal, an
\* unfinished request or an error is never replayed (Hit, tryReplayFromDB).
ReplaysCommitted == \A r \in Requests : replayed[r] # "none" => replayed[r] \in done
=============================================================================
