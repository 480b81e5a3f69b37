------------------------------ MODULE AuditSeal ------------------------------
(***************************************************************************)
(* The audit trail: API pods buffer audit events and insert them into      *)
(* audit_log_unsealed (internal/audit/mysql_sealer.go, EnqueueSink), and a *)
(* sealer moves the rows into the hash chain audit_log (sealer.go).        *)
(*                                                                         *)
(* A row is its id.  A self hash identifies its row, since it covers the   *)
(* id and the previous hash and rows are never changed, so the model       *)
(* writes the id of a row for the row's hash and 0 for GENESIS.            *)
(***************************************************************************)
EXTENDS Naturals, FiniteSets

CONSTANTS
  Pods,       \* API processes, each with one EnqueueSink worker
  Sealers,    \* audit-sealer processes
  Buffer,     \* capacity of a sink's channel (1024 in the code)
  Batch,      \* rows a sealer takes at a time (200 in the code)
  Retries,    \* inserts tried per event (3 in the code)
  MaxId,      \* bound: ids handed out by AUTO_INCREMENT
  MaxSent,    \* bound: audit events
  MaxFaults   \* bound: crashes and database errors

ASSUME AuditAssumption ==
  /\ Buffer \in Nat /\ Batch \in Nat \ {0} /\ Retries \in Nat \ {0}
  /\ MaxId \in Nat /\ MaxSent \in Nat /\ MaxFaults \in Nat
  /\ "free" \notin Sealers
  /\ IsFiniteSet(Pods)

VARIABLES
  sink,      \* pod -> its channel's length, its worker's insert and attempt
  nextId,    \* AUTO_INCREMENT of audit_log_unsealed
  unsealed,  \* ids in audit_log_unsealed
  sealed,    \* id -> prev_hash, the rows of audit_log
  sealer,    \* process -> where SealOnce is, its batch, its prevHash
  lease,     \* owner of the Redis key cron:audit-sealer
  tally,     \* events sent, dropped and counted, and lost in a crash
  late,      \* history: a row became visible after one with a larger id
  adrift,    \* ids of the INSERTs given up without an answer: committed or not
  faults

vars == <<sink, nextId, unsealed, sealed, sealer, lease, tally, late, adrift, faults>>

Ids == 1 .. MaxId
Chained == DOMAIN sealed
Committed == unsealed \cup Chained

IdleSink == [queued |-> 0, try |-> 0, id |-> 0]
Down == [pc |-> "down", rows |-> {}, prev |-> 0]

\* the fault is injected only while the bound allows
Fault == faults < MaxFaults /\ faults' = faults + 1
NoFault == UNCHANGED faults

-----------------------------------------------------------------------------
(* Enqueueing.                                                             *)

SetSink(w, queued, try, id) ==
  sink' = [sink EXCEPT ![w] = [queued |-> queued, try |-> try, id |-> id]]
Count(sent, dropped, lost) ==
  tally' = [sent |-> tally.sent + sent, dropped |-> tally.dropped + dropped,
            lost |-> tally.lost + lost]

\* a dropped event is not counted
SendBug(w) ==
  /\ tally.sent < MaxSent
  /\ IF sink[w].queued < Buffer
       THEN SetSink(w, sink[w].queued + 1, sink[w].try, sink[w].id)
       ELSE UNCHANGED sink
  /\ Count(1, 0, 0)
  /\ UNCHANGED <<nextId, unsealed, sealed, sealer, lease, late, adrift, faults>>

\* Send never blocks: a full channel drops the event and counts it.
Send(w) ==
  /\ tally.sent < MaxSent
  /\ IF sink[w].queued < Buffer
       THEN SetSink(w, sink[w].queued + 1, sink[w].try, sink[w].id) /\ Count(1, 0, 0)
       ELSE UNCHANGED sink /\ Count(1, 1, 0)
  /\ UNCHANGED <<nextId, unsealed, sealed, sealer, lease, late, adrift, faults>>

Take(w) ==
  /\ sink[w].try = 0 /\ sink[w].queued > 0
  /\ SetSink(w, sink[w].queued - 1, 1, 0)
  /\ UNCHANGED <<nextId, unsealed, sealed, sealer, lease, tally, late, adrift, faults>>

\* The INSERT draws its id when it starts and becomes visible when it commits.
Insert(w) ==
  /\ sink[w].try > 0 /\ sink[w].id = 0
  /\ nextId <= MaxId
  /\ SetSink(w, sink[w].queued, sink[w].try, nextId)
  /\ nextId' = nextId + 1
  /\ UNCHANGED <<unsealed, sealed, sealer, lease, tally, late, adrift, faults>>

Store(id) ==
  /\ unsealed' = unsealed \cup {id}
  /\ late' = (late \/ \E i \in Committed : id < i)

CommitInsert(w) ==
  /\ sink[w].id > 0
  /\ Store(sink[w].id)
  /\ SetSink(w, sink[w].queued, 0, 0)
  /\ UNCHANGED <<nextId, sealed, sealer, lease, tally, adrift, faults>>

GiveUp(w) == adrift' = adrift \cup ({sink[w].id} \ {0})

InsertFailsBug(w) ==
  /\ sink[w].id > 0
  /\ Fault
  /\ GiveUp(w)
  /\ IF sink[w].try <= Retries
       THEN SetSink(w, sink[w].queued, sink[w].try + 1, 0) /\ UNCHANGED tally
       ELSE SetSink(w, sink[w].queued, 0, 0) /\ Count(0, 1, 0)
  /\ UNCHANGED <<nextId, unsealed, sealed, sealer, lease, late>>

\* An INSERT that reports an error is tried again, then dropped and counted,
\* although it may have committed, or may yet commit, on the other side.
InsertFails(w) ==
  /\ sink[w].id > 0
  /\ Fault
  /\ GiveUp(w)
  /\ IF sink[w].try < Retries
       THEN SetSink(w, sink[w].queued, sink[w].try + 1, 0) /\ UNCHANGED tally
       ELSE SetSink(w, sink[w].queued, 0, 0) /\ Count(0, 1, 0)
  /\ UNCHANGED <<nextId, unsealed, sealed, sealer, lease, late>>

\* The database commits an INSERT whose answer nobody waits for any more.
CommitAdrift(i) ==
  /\ i \in adrift \ Committed
  /\ Store(i)
  /\ UNCHANGED <<sink, nextId, sealed, sealer, lease, tally, adrift, faults>>

\* The pod goes away, by a crash or a shutdown (nothing calls Close).
Busy(w) == IF sink[w].try > 0 THEN 1 ELSE 0
Load(w) == sink[w].queued + Busy(w)
PodStops(w) ==
  /\ Load(w) > 0
  /\ Fault
  /\ GiveUp(w)
  /\ SetSink(w, 0, 0, 0)
  /\ Count(0, 0, Load(w))
  /\ UNCHANGED <<nextId, unsealed, sealed, sealer, lease, late>>

-----------------------------------------------------------------------------
(* Sealing: Run acquires the lease once and repeats SealOnce; any error    *)
(* ends Run, which releases the lease, and the process is started again.   *)

SetSealer(p, pc, rows, prev) ==
  sealer' = [sealer EXCEPT ![p] = [pc |-> pc, rows |-> rows, prev |-> prev]]
Work(p, pc) == sealer[p].pc = pc

\* The largest id in T, 0 for none; used on the ids below some row.
Last(T) == IF T = {} THEN 0 ELSE CHOOSE i \in T : \A j \in T : j <= i
Below(i, T) == {j \in T : j < i}

Start(p) ==
  /\ Work(p, "down") /\ lease = "free"
  /\ lease' = p
  /\ SetSealer(p, "idle", {}, 0)
  /\ UNCHANGED <<sink, nextId, unsealed, sealed, tally, late, adrift, faults>>

\* rows are taken in any order
FetchBug(p) ==
  /\ Work(p, "idle") /\ unsealed # {}
  /\ \E rows \in SUBSET unsealed :
       /\ rows # {} /\ Cardinality(rows) <= Batch
       /\ SetSealer(p, "fetched", rows, 0)
  /\ UNCHANGED <<sink, nextId, unsealed, sealed, lease, tally, late, adrift, faults>>

\* ORDER BY id ASC LIMIT Batch
Fetch(p) ==
  /\ Work(p, "idle") /\ unsealed # {}
  /\ SetSealer(p, "fetched", {i \in unsealed : Cardinality(Below(i, unsealed)) < Batch}, 0)
  /\ UNCHANGED <<sink, nextId, unsealed, sealed, lease, tally, late, adrift, faults>>

\* LastSealedHash: ORDER BY id DESC LIMIT 1
ReadLast(p) ==
  /\ Work(p, "fetched")
  /\ SetSealer(p, "hashed", sealer[p].rows, Last(Chained))
  /\ UNCHANGED <<sink, nextId, unsealed, sealed, lease, tally, late, adrift, faults>>

\* prev_hash of each row of a batch
Link(i, rows, prev) == IF Below(i, rows) = {} THEN prev ELSE Last(Below(i, rows))

\* One transaction; audit_log.id is its primary key.
Append(p) ==
  /\ Work(p, "hashed") /\ sealer[p].rows \cap Chained = {}
  /\ sealed' = [i \in Chained \cup sealer[p].rows |->
                  IF i \in Chained THEN sealed[i]
                                   ELSE Link(i, sealer[p].rows, sealer[p].prev)]
  /\ SetSealer(p, "appended", sealer[p].rows, sealer[p].prev)
  /\ UNCHANGED <<sink, nextId, unsealed, lease, tally, late, adrift, faults>>

\* the batch is deleted before it is appended
DeleteBug(p) ==
  /\ Work(p, "hashed")
  /\ unsealed' = unsealed \ sealer[p].rows
  /\ SetSealer(p, "idle", {}, 0)
  /\ UNCHANGED <<sink, nextId, sealed, lease, tally, late, adrift, faults>>

Delete(p) ==
  /\ Work(p, "appended")
  /\ unsealed' = unsealed \ sealer[p].rows
  /\ SetSealer(p, "idle", {}, 0)
  /\ UNCHANGED <<sink, nextId, sealed, lease, tally, late, adrift, faults>>

\* Run returns the error: the lease is released if it is still owned.
Exit(p) ==
  /\ SetSealer(p, "down", {}, 0)
  /\ lease' = IF lease = p THEN "free" ELSE lease
  /\ UNCHANGED <<sink, nextId, unsealed, sealed, tally, late, adrift>>

DuplicateKey(p) ==
  /\ Work(p, "hashed") /\ sealer[p].rows \cap Chained # {}
  /\ Exit(p)
  /\ NoFault

DatabaseError(p) == ~Work(p, "down") /\ Fault /\ Exit(p)

SealerCrash(p) ==
  /\ ~Work(p, "down") /\ Fault
  /\ SetSealer(p, "down", {}, 0)
  /\ UNCHANGED <<sink, nextId, unsealed, sealed, lease, tally, late, adrift>>

\* Run never renews: the key is gone 30 s after Acquire, whoever works.
LeaseExpires ==
  /\ lease # "free"
  /\ lease' = "free"
  /\ UNCHANGED <<sink, nextId, unsealed, sealed, sealer, tally, late, adrift, faults>>

-----------------------------------------------------------------------------
(* Verify (audit-verify): walks the rows behind since in the order of their *)
(* ids.  The first of them is trusted, unless the walk starts at GENESIS.   *)

Walked(since) == {i \in Chained : i > since}
Verify(since) ==
  \A i \in Walked(since) :
    \/ since > 0 /\ Below(i, Walked(since)) = {}
    \/ sealed[i] = Last(Below(i, Walked(since)))

-----------------------------------------------------------------------------
Init ==
  /\ sink = [w \in Pods |-> IdleSink]
  /\ nextId = 1 /\ unsealed = {} /\ sealed = [i \in {} |-> 0]
  /\ sealer = [p \in Sealers |-> Down]
  /\ lease = "free"
  /\ tally = [sent |-> 0, dropped |-> 0, lost |-> 0]
  /\ late = FALSE /\ adrift = {}
  /\ faults = 0

Worker(w) == Take(w) \/ Insert(w) \/ CommitInsert(w)
SealOnce(p) == Fetch(p) \/ ReadLast(p) \/ Append(p) \/ Delete(p) \/ DuplicateKey(p)

Next ==
  \/ \E w \in Pods : Send(w) \/ Worker(w) \/ InsertFails(w) \/ PodStops(w)
  \/ \E i \in adrift : CommitAdrift(i)
  \/ \E p \in Sealers : Start(p) \/ SealOnce(p) \/ DatabaseError(p) \/ SealerCrash(p)
  \/ LeaseExpires

Spec == Init /\ [][Next]_vars

\* The sink's worker and the sealer's ticker run, a sealer that has exited is
\* started again, the lease expires.
Fairness ==
  /\ \A w \in Pods : WF_vars(Worker(w))
  /\ \A p \in Sealers : WF_vars(SealOnce(p)) /\ SF_vars(Start(p))
  /\ WF_vars(LeaseExpires)
FairSpec == Spec /\ Fairness

-----------------------------------------------------------------------------
(* Properties.                                                             *)

TypeOK ==
  /\ sink \in [Pods -> [queued : 0 .. Buffer, try : 0 .. Retries, id : 0 .. MaxId]]
  /\ nextId \in 1 .. MaxId + 1
  /\ unsealed \subseteq Ids /\ Chained \subseteq Ids
  /\ \A i \in Chained : sealed[i] \in 0 .. MaxId
  /\ sealer \in [Sealers -> [pc : {"down", "idle", "fetched", "hashed", "appended"},
                             rows : SUBSET Ids, prev : 0 .. MaxId]]
  /\ lease \in Sealers \cup {"free"}
  /\ tally \in [sent : 0 .. MaxSent, dropped : Nat, lost : Nat]
  /\ late \in BOOLEAN
  /\ adrift \subseteq Ids
  /\ faults \in 0 .. MaxFaults

\* Every row points at the row before it, the first one at GENESIS.
ChainIntact == \A i \in Chained : sealed[i] = Last(Below(i, Chained))

\* Verify accepts the chain from wherever it is started (sealer.go:10), although
\* the lease expires under a working sealer and several seal at once, as long as
\* the rows become visible in the order of their ids.
Verifies == late \/ \A since \in 0 .. MaxId : Verify(since)

\* A row that was inserted stays in one of the two tables until it is in the
\* chain: no crash, error or overlap of sealers between the append and the
\* delete loses it (SealOnce).
NothingLost == [][Committed \subseteq Committed']_vars

\* Every event sent is in its pod's sink, stored by an INSERT that was answered,
\* counted as dropped or was lost with its pod; a row beyond these is there only
\* because an INSERT committed that was given up: the sink loses nothing silently
\* and repeats nothing unprovoked (Send, flushOne).
InSinks == {e \in Pods \X (1 .. Buffer + 1) : e[2] <= Load(e[1])}
Answered == Committed \ adrift
Accounted ==
  tally.sent = Cardinality(InSinks) + Cardinality(Answered) + tally.dropped + tally.lost

\* Every inserted row is sealed in the end, although sealers crash, meet errors
\* and lose their lease, unless one of them stopped between the append and the
\* delete: the rows it left in both tables then block all sealing (sealer.go:168).
Torn == unsealed \cap Chained # {}
EventuallySealed == <>[]Torn \/ \A i \in Ids : i \in unsealed ~> i \in Chained
=============================================================================
