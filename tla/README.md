# A verification of partner-api

TraceNexBiz is the partner side of a reseller platform: partners buy credit, hand
it to customers of an external system (Fy-api), earn a share of the revenue those
customers produce, and are paid monthly. `apps/partner-api` (Go) is the backend
and the subject of this development; the four web front ends under `apps/` and
the libraries under `packages/` only present what it does. Paths below are
relative to `apps/partner-api` unless they start with `apps/`.

The TLA+ modules model the parts of the backend in which money, audit rows,
settlements, or the rows of its services can go wrong through interleaving,
retries, timeouts and crashes. TLC checks them on small instances, TLAPS proves
the main safety properties for every instance.

1. [Inventory](#1-inventory)
2. [Modules and their correspondence with the code](#2-modules-and-their-correspondence-with-the-code)
3. [Runs](#3-runs)
4. [Fairness](#4-fairness)
5. [Proofs](#5-proofs)
6. [What the checks say about the code](#6-what-the-checks-say-about-the-code)
7. [Plan](#7-plan)
8. [What is not modelled](#8-what-is-not-modelled)

## 1. Inventory

### Modelled components

**Saga engine** (`internal/saga`). State: one row per step of a saga (status,
attempts, started and updated times, payload) in the repository; an instance
("handle") per caller, each with its own mutex; the registry of step functions.
Operations: `Run`, `RunWithInput`, `Compensate`, the repository's conditions-free
writes, `Sweep` every tick, `ForceResolve`. Interaction: every money-moving
service runs its steps through it, in a transaction the engine opens; the sweep
replays steps through new handles. Hard: the mutex covers one handle, so a
request, a resubmission and the sweep overlap on one step; the read, the
business transaction and the save of the outcome are three separate commits; the
sweep decides on rows it loaded earlier; rows it cannot replay stay at the head
of its batch. Right when: a stored status is backed by the transactions it
stands for, a step runs a second time only for an understood reason, and every
step is settled in the end.

**Allocation saga** (`internal/service/saga_allocate`). State: the five step rows
of a saga, the partner's balance and hold behind `WalletPort`, the customer's
quota behind `FyAPIPort`. Operation: `Run`, which charges, holds, tops up,
commits the hold and writes the log, and compensates in reverse when a step
errs. Hard: an external call that fails after taking effect, a compensation that
fails while the others go on, resubmission of a half-compensated saga,
escalation in between, two allocations on one balance. Right when: the customer
holds credit only while the partner is charged, and effects and compensations
come in order.

**Idempotency middleware** (`internal/middleware/idempotency.go`,
`internal/saga/idempotency.go`, `internal/repository/mysql/idempotency_mysql.go`).
State: the Redis entry of a key, the rows of `idempotency_record`, the response
recorder of each request. Hard: concurrent requests with one key, Redis errors
before and after the handler, a handler that commits and then answers an error,
lost or expired entries. Right when: a key's handler runs once at a time and
its transaction commits once, and only responses of committed requests are
replayed.

**Audit sink and sealer** (`internal/audit`, `cmd/audit-sealer`). State: the
sink's channel and worker per API pod, the tables `audit_log_unsealed` and
`audit_log`, the lease in Redis, the drop counter. Operations: `Send`, the
worker's inserts with retries, `SealOnce` (fetch, last hash, append, delete).
Hard: a full channel, a pod that stops with a filled channel, a crash between
append and delete, a lease that runs out under a working sealer. Right when: the
hash chain has neither gap nor fork, no stored row is lost, every row is sealed
in the end, every event is accounted for.

**Revenue feed** (`internal/outbox/consumer.go`, `memstub.go`). State:
`consume_log_outbox` rows with status and retry count, `revenue_log`, what each
consumer has claimed. Operations: `Pull`, `processOne`, `Ack`, `Nack` with
dead-lettering, `FreshnessGate`. Hard: several consumers, lost acks, writes that
err after taking effect, consumers that die. Right when: a consumed row is
booked, a row has one holder, a row is given up only at the threshold.

**Monthly settlement** (`internal/service/settlement`). State:
`settlement.status`, `settlement_item` per partner. Operation: `RunMonthly`, which
pages through the partners, computes and upserts their items, transitions to
`generated`, asks the freshness gate and locks; `ComputeItem` and `CanTransition`
are pure. Hard: revenue and partners arrive during the run, a run is cut short
or repeated. Right when: a locked settlement covers the revenue that was booked
when the run began, and stays locked.

**Onboarding** (`internal/service/partner`, `invitation`, `customer`, over
`internal/repository/mysql` or the memory repositories). State: partners,
invitation codes with a limit and a count, customers, change logs of transfers,
the user groups Fy-api keeps. Operations: apply (which issues a code), review,
suspend, freeze, terminate (which orphans customers), generate, revoke, register
(which resolves and consumes a code), transfer, erase. Hard: each service calls
the next as a separate commit, so a call can be cut short between any two; the
last use of a code is contended; a transfer that is already completed is applied
again. Right when: codes are counted within their limit, a completed transfer
settles customer and group, nobody stays a member of a terminated partner.

**Payment intents and webhooks** (`internal/service/payment`,
`internal/middleware/webhook_idempotency.go`). State: the intent row, the webhook
key in Redis. Operations: `CreateTopup`, `HandleCallback`. Hard: the key is claimed
before the handler and never given back; the callback reads, then writes
unconditionally; the row is inserted before the provider is asked. Right when:
only what the provider settled is booked, and all of it is.

**Top-up and refund sagas, disputes** (`internal/service/saga_topup`,
`saga_refund`, `dispute`). State: step rows, the dispute's status and launched
sagas. Hard: requests overlap on a saga that is never compensated; acceptance and
launch are two steps. Right when: a refund is paid out behind its reversal and
roll-back, once per dispute; an intent advances as `CanAdvance` says.

**KYC** (`internal/service/kyc`). State: one application per user, the linker's
customers. Hard: two submissions of one identity, a lookup whose error counts as
"not found", overlapping reviews, a linker that fails behind an approval. Right
when: one user per identity, each approved user linked.

**Saga force-resolve** (`internal/service/saga_admin`). State: tokens and cooldown
marks in Redis, the audit log. Hard: token, cooldown, resolve and audit are
separate stores. Right when: every resolution had two people at two places, one
token, and is audited.

**Leader lock, content safety and 12377 reports** (`pkg/leader`,
`internal/service/content_safety`, `cmd/dispatcher-12377`). State: the lease, the
pods' `Run` loops; events, reports. Hard: a body outlives its lease; a submitted
report whose update is lost. Right when: two bodies run only after a lost or
returned lease; every blocked event has a report, every report is settled, and
"submitted" is true.

**Notifications; MNS transport** (`internal/service/notification`;
`internal/outbox/aliyun_mns_*.go`, `poller.go`). At-least-once delivery: claims that
mark nothing, repeated sends, receipts that run out, dead letters. Right when:
nothing vanishes, "sent" is true, repetitions have a known cause, everything is
settled in the end.

**Invoices; tickets** (`internal/service/invoice`; `ticket`). State machines over rows
that are read, checked and then overwritten, the first around a fapiao gateway.
Right when: one blue and one red fapiao per application, behind its status; moves
are those of the transition tables; no reply is lost.

**Staff; sessions** (`internal/service/staff`; `auth`). State: staff rows with a role
and a step-up time; the account's failures, session rows, the revocation store,
reset tokens. Right when: a role changes behind a step-up; a refresh or reset token
is used once; every login is listed until it is revoked.

### Components without a module

| component | why |
|---|---|
| KYC purge (`cmd/kyc-purge`) | selects archived applications; nothing archives one, and `chk_kyc_status` forbids it, so the job selects nothing |
| Wallet (`service/wallet`) | queries; the conditional AdjustBalance has no caller and the executor is a stub. Balance and hold are the wallet port in `Allocate` |
| Revenue queries | reads only; what writes `revenue_log` is in `Feed` |
| Fy-api client | outcomes of its writes are modelled where they are called; signing and encoding are not (partly) |
| Adapters, handlers, wiring, other middleware, domain types, linter, front ends | no protocol state of their own; section 8 |

### How the components meet

A POST passes the idempotency middleware, then the audit middleware, then a
handler that calls a service. Money-moving services open a saga handle and run
their steps with it; a step is one business transaction or one call of Fy-api or
a payment provider. The sweep, the outbox consumers, the audit sealer and the
settlement run are loops beside the requests and share only database tables and
Redis keys with them. So the models compose along tables and ports: `Allocate` and
`SagaSteps` run each step by the rules `Saga` gives, `MonthEnd` extends `Feed` and
reads the `revenue_log` the feed writes, `Dispute` launches the refund sagas of
`SagaSteps`, `Reports` runs as the body of `LeaderLock`, and `Onboarding` joins
partners, codes and customers, which call each other. The other services share
nothing: they meet only in `Services`, which gives them one instance.

## 2. Modules and their correspondence with the code

| module | stands for | extended or checked by |
|---|---|---|
| `Saga` | instance.go, orchestrator.go, memrepo.go, registry.go, sweep_loop.go | `MCSaga`, `SagaProofs` |
| `Transfer` | abstract: what an allocation promises | refined by `Allocate` |
| `Allocate` | saga_allocate/service.go over the engine | `MCAllocate`, `AllocateProofs` |
| `AuditSeal` | mysql_sealer.go, sealer.go, the lease | `MCAudit`, `AuditProofs` |
| `Idempotency` | the middleware and the record in the transaction | `MCIdempotency`, `IdempotencyProofs` |
| `Feed` | consumer.go, the claim and ack contract of memstub.go | `MonthEnd` |
| `Settlement` | engine.go: ComputeItem, CanTransition | `MonthEnd`, `MonthEndProofs` |
| `MonthEnd` | runner.go over a live feed | `MCMonthEnd`, `MonthEndProofs` |
| `Invitation` | invitation.go and its repositories | `Customer` |
| `Customer` | customer.go, transfer.go and their repositories | `Partner` |
| `Partner` | partner.go and its repositories | `Onboarding` |
| `Onboarding` | the three together | `MCOnboarding`, `OnboardingProofs` |
| `Bound` | faults, and which service a behaviour follows | all below |
| `Intents` | payment/service.go behind webhook_idempotency.go | `Services` |
| `SagaSteps` | saga_topup, saga_refund over the engine | `Dispute` |
| `Dispute` | dispute/service.go launching refund sagas | `Services` |
| `Kyc` | kyc.go and its repositories | `Services` |
| `ForceResolve` | saga_admin.go, the check in force_resolve.go | `Services` |
| `LeaderLock` | pkg/leader/redis.go | `Reports` |
| `Reports` | content_safety.go, dispatcher-12377 | `Services` |
| `Notify` | notification.go | `Services` |
| `Delivery` | abstract: what a queue of things to send promises | refined by `Notify` and `Reports` |
| `AtLeastOnce` | abstract: what a queue that may deliver again promises | refined by `Mns` |
| `Mns` | aliyun_mns_publisher.go, aliyun_mns_consumer.go, poller.go | `Services` |
| `Invoice`, `Ticket`, `StaffRoles` | invoice.go, ticket.go, staff.go | `Services` |
| `Sessions` | auth.go, password_reset.go | `Services` |
| `Services` | all of the above from `Intents` on | `ServicesProofs`, `AccountProofs` |

Definitions whose names end in `Bug` are seeded faults: each stands before the
definition it falsifies, is used by none, and shows that a property can fail.

**Saga.** `row` is the repository; `call[w]` a call in flight with its program
counter and the row it has in memory (`snap`, what `snapshotStarting` built);
`todo[w]` the copies `LoadPendingRetries` returned; `older` the order of
`UpdatedAt`; `aged` the steps past `MaxWallClock`. A call is cut where the code
gives up the step: `Begin` (GetStep and the status switch), `SaveStarting`,
`TxCommits`/`TxFails` (one database transaction), then the save of the outcome.
`Run` and `RunWithInput` are one call: they differ in the payload, which decides
whether the sweep can replay the step, and in `ErrPermanent`. `done`, `undone`
and `trouble` are history: how often transactions committed, and what happened
around the step (overlap, lost save, failed compensation, force). Attempts beyond
`MaxAttempts` and executions beyond two are not told apart. Backoff is left open:
`SweepSkip` may skip any row that has not expired. The rows of one saga are modelled;
sagas meet only in the sweep's batch, where the steps of one saga stand for any rows.

**Allocate.** A saga is advanced by one request at a time (`request[s]`); requests
may follow one another at any point, also after a crash. `Skip`, `Refuse`, `Enter`,
`CallPort`, `SaveCommitted`, `SaveFailed` are `Saga.Run` on the current step,
`BeginUndo`, `CallUndo`, `SaveUndone` are `Saga.Compensate`; `Following` is the
order of the steps in `Run` and `UndoFrom` the compensations of each error branch.
The ports have no implementation in the tree. `effects` are the operations that
took effect, at most once per saga because each call carries the saga id as its
idempotency key; `Feasible` is the conditional balance update and the
exclusiveness of commit and release. The steps are advanced with `Run`, without
payload, hence the sweep can only escalate them. `budget` bounds four kinds of
fault separately: a refusal, an effect reported as an error, a repository error,
a crash. `trouble` (history) says of each saga whether nothing befell it, one refused
call, or more.

**AuditSeal.** A row is its auto-increment id; a hash is represented by the id of
the row it is computed from, 0 for GENESIS, because a self hash covers the row's id
and previous hash and rows never change. `sink[w]` is the length of the pod's
channel and the state of its worker; an INSERT draws its id (`Insert`) before it
becomes visible (`CommitInsert`), as InnoDB does; `late` (history) says that a row
became visible after one with a larger id. `sealer[p]` runs `Fetch`,
`ReadLast`, `Append`, `Delete`, the four statements of `SealOnce`; the primary key
of `audit_log` makes the append of a row already sealed fail (`DuplicateKey`). An
error ends `Run` and the process is started again (`Start`), which takes the lease
if it is free; `LeaseExpires` may take the lease from a working sealer, since
nothing renews it. `Verify` is the walk of cmd/audit-verify, which compares each
row with the one before it; that it accepts is the property `Verifies`.

**Idempotency.** One key of one actor. A response is represented by the request
whose handler produced it. `withDB` says whether an `IdempotencyDBLookup` is
injected and services write the record with `WithIdempotency`; `cmd/server` wires
the middleware without it, so both values are checked. `Finish` is what follows
`c.Next()`; `FinishFails` a Redis error there, or the two-second context, made
before the handler, having run out; `Panics` skips it. The key leaves Redis by
the TTL (`Expires`, not under a running handler: the TTL is 24 h) or with Redis
itself (`Evicted`). An entry that cannot be decoded does not occur: only the
middleware writes it.

**Feed, Settlement, MonthEnd.** `row` and `retries` are the outbox table, `revenue`
the unique keys in `revenue_log`, `consumer[c]` the batch in a consumer's memory.
`Process` is `processOne` with its three outcomes: written (or found to be there),
refused, or an error that may hide a write. A crash, and an ack or nack that fails,
leave the row `in_flight`; nothing returns it. `late` are rows older than the
gate's threshold. The freshness gate looks at pending rows of one region. An item
is the set of revenue rows it was computed from, as `ComputeItem` is a function of
them; its arithmetic is in `Settlement`. `runner[w]` holds what `RunMonthly` keeps
in local variables: the page, the offset, the rows loaded, and the settlement's
status *as passed in by the caller*, which is what `CanTransition` looks at.
`base` and `covered` are history: the revenue booked when a run began, and when
the run began that locked; `overlap` (history) says that a run began before another
one ended.

**Invitation, Customer, Partner, Onboarding.** Rows are sequences in the order of
their ids. `call[w]` is what worker `w` serves, with the step it is at: the code's
sequence of repository and Fy-api calls, one action each (`RegisterResolve`,
`RegisterInsert`, `ConsumeResolve`, ...). A repository's `Update` takes a function
under a row lock, so it is one step. `store` is the repository `buildW1aDeps` chose:
"mysql" has the unique keys and CHECK constraints of the migrations, "memory" has
not. `Fail` cuts a call short before any of its steps. `registered` are the calls
that reported success, `members` the customers a partner had when it was last
terminated; `unsure` and `uncertain` (history) name the customers and partners a
cut call, or two overlapping transfers, have touched.

**Bound and Services.** The twelve services of `Services` share no state, so a
behaviour follows one of them: `focus` is chosen in the initial state, each disjunct
of `Next` requires it, and all interleavings *within* a service are explored. Running
them beside each other would multiply the states and add no behaviour to any of
them. `faults` counts the errors of a database, of Redis or of an external service
and the deaths of processes; `MaxFaults` bounds it.

**Intents.** `hook[w]` is a request: the creation (insert, then the provider) or a
notice past the claim. The provider, external, opens a payment, reports, settles at
most once, and repeats a notice until it is answered. A notice may not fit the
intent (merchant, amount or signature). `slips` is history: an overlap of callbacks,
a handler that failed behind its claim.

**SagaSteps, Dispute.** One action per stage of `Saga.Run`: read the row, execute at
the port, save. `Topup` requests may come again at will, the sweep escalates. A port
takes effect once per saga id; it may refuse, or do it and report an error. A refund
is the sequence `RefundSteps`; a dispute's acceptance is the conditional update, the
steps, and the final update.

**Kyc.** A submission looks the identity up, then the user, then inserts, each its own
step; unique keys apply under `inTable`. The yearly freeze is absent, and `NotFrozen`
says why nothing would reach it. `mishap` is history: overlapping submissions and
failed lookups per identity, failed links per user.

**ForceResolve.** `bid[i]` is the initiator's call: cooldown, token, check, resolve,
mark, audit. A token is consumed by one atomic get-and-delete. `cooling` is the mark
in Redis, `lately` (history) the truth it stands for, `gap` where they differ.

**LeaderLock, Reports.** A pod seeks, leads, is stopping (its renewal failed and the
body was cancelled) or draining (shutdown, lease released), gone, and again seeking.
`Expire` under a running body is a fault: the renewal comes in time otherwise; `early`
are the bodies it happened to. `DispatchOnce` is one step of the dispatch (list,
submit, update) in the body; `doubt` names reports whose answer, update or dispatcher
was lost, or that two dispatchers had listed.

**Notify, Mns.** The rows a dispatcher claimed are a copy; the row's mark is written
over whatever it has become. A message has a copy per send that arrived; a copy is
nowhere, visible, or hidden for a consumer, with its dequeue count, which decides on
the dead letter.

**Invoice, Ticket, StaffRoles, Sessions.** One action per read, gateway call and write.
The status a call has read travels in `clerk`, `agent`, `change` or `visit`; the write
does not look at the row again, as in the code. `tangled`, `crowded` and `slipped`
(history) name what two calls had at a time. `minute` is a clock as far as the window
of the step-up needs one. Password hashing, TOTP and token encoding are left out: a
password is right or wrong.

## 3. Runs

Faults in a run are crashes, repository, database and Redis errors; every bound is
a constant in the cfg. States are distinct states.

| run | question | instance | states |
|---|---|---|---|
| `saga_handles` | Are stored statuses true, and transactions repeated only for a named reason? | 2 handles, the sweep, 1 step with payload, 2 attempts, 1 fault, force-resolve to the target that reopens a step | 1.0 M |
| `saga_settles` | Is every retryable step settled in the end? | 2 steps, 1 not replayable, batch of 1, 1 fault | 131 k |
| `allocate_refusal` | Does the saga keep order and implement `Transfer` under a refusal, whatever befalls others? | 2 sagas, capital 1, 2 refusals, 1 timeout, 1 crash, escalation, resubmission | 810 k |
| `allocate_faults` | Do effects and compensations stay in order under every fault? | 1 saga, 2 faults of each of 4 kinds, escalation, resubmission | 654 k |
| `allocate_timeout` | Can a customer be credited for nothing? (yes) | 1 saga, 1 timeout | 78 to the violation |
| `audit_chain` | Does the chain verify, is nothing lost, everything accounted for, every row sealed in the end? | 2 pods, 2 sealers, 3 events, batch 2, buffer 2, 2 faults, lease expiring | 211 k |
| `idem_key` | One handler at a time, one commit per key, true replays? | 3 requests, one to another endpoint, 2 faults, with and without lookup | 12 k |
| `monthend_run` | Is the feed exact, and does a locked settlement cover its revenue? | 3 rows, 2 consumers, batch 2, threshold 2, 2 partners in pages of 1, 2 processes and 2 runs, 1 fault | 1.5 M |
| `monthend_locked` | Are the items of a locked settlement fixed? (no) | 1 consumer, 2 runs, no fault | 7.9 k to the violation |
| `onboarding` | Do codes, customers and partners agree, over calls cut short? | both repositories, 2 partners, 1 customer with a transfer under way, 2 more users, 3 calls by 2 workers, 1 cut short | 162 k |
| `onboarding_last_use` | Does a sole registration that fails leave nothing behind? (no) | 1 worker, MySQL, no fault | 554 to the violation |
| `services` | What do the twelve services promise under overlap and one fault? | 2 actors each, 1 fault; see below | 352 k |

`services`, by focus: intents 4.7 k, topups 23.7 k, disputes 0.9 k, kyc 51 k, force
72 k, reports 17 k, notes 0.8 k, mns 28 k, invoices 39 k, tickets 20 k, staff 20 k,
sessions 75 k. Its properties are conjunctions of parts, one per service, each
defined and explained in the module of its service.

What the passing runs establish, beyond types:

- `EffectBehindStatus` (saga): unless forced, "committed" means the transaction
  committed and "compensated" that its compensation did too, although saves are
  unconditional and stale. `ForwardOnce`, `UndoOnce`: a transaction that commits
  twice had a lost save, overlapping calls, a failed compensation or a force.
  `EventuallySettles`: rows without payload at the head of the batch delay but do
  not starve the others, because they expire.
- `NoFreeCredit`, `BookedStays`, `ImplementsTransfer` (allocation): until more
  befalls a saga than one refused call, no resubmission, escalation or trouble of another
  saga credits a customer whose partner is not
  charged, unbooks a booked allocation, overdraws the balance or restarts an
  allocation that was taken back. `UndoBacked`, `EffectsInOrder`: the weaker
  promises that survive every fault. Resubmission walks over steps in every
  mixture of statuses; that is where these could break.
- `Verifies`, `NothingLost`, `Accounted`, `EventuallySealed` (audit): the primary
  key of `audit_log`, not the lease, keeps two sealers from forking the chain, as long
  as rows become visible in the order of their ids.
- `Exclusive`, `CommitsOnce`, `ReplaysCommitted` (idempotency): the exact list of ways
  to a second commit without the database record, and that with it there is none.
- `FeedExact` (a consumed row is booked, claimed once, dead when exhausted),
  `LockedCovers`, `LockedForever` (settlement). `LockedCovers` speaks of revenue
  booked when the run began: revenue that arrives later may be in the period and in
  no item. Both speak of runs that do not overlap, in one process or in several.
- `CodesHold` (onboarding): registrations reported done are counted, within the limit
  where the database keeps it; an applicant without a code is one whose application
  was cut short. `TransferSettles`, `ErasureHolds`, `NoMemberLeft`: what transfers,
  erasures and terminations promise after any sequence of the others.
- `MoneyBacked`: `PaidIsSettled` (an intent is booked behind the provider's
  settlement), `RefundInOrder` (paid out behind reversal and roll-back), `RefundedOnce`
  and `RefundedIsRepaid` (one refund per dispute, all of it). `PaymentsAdvance`:
  `PaidStays` names the overlap of callbacks as the only way back from paid;
  `IntentAdvances` is `CanAdvance` across overlapping top-up requests.
- `KycHolds`: `OneIdentity`, `ApprovedIsLinked`, but for the mishaps named.
- `DualControl`, `Cooldown`, `Audited` (force-resolve): tokens are single, two-person
  and two-place up to IPv6; the cooldown is missed only by overlap or a failed mark.
- `Delivered`: `BlockedIsReported`, `SubmittedIsReceived`, `ReceivedOnce`,
  `ListedOnce` (reports), `SentHasArrived` (notifications), `NothingVanishes` (MNS),
  `OneBody` (leader lock). `QueuesDeliver`: `Notify` and `Reports` implement
  `Delivery`, which says of every step what `Delivered` says of states: sent rows stay
  sent, whatever a stale read writes, and only `RetryReport` revives one given up;
  `Mns` implements `AtLeastOnce`: who published is told so with the message in the
  queue, it leaves the queue only after something became of it, and that stays so.
- `FapiaoHolds`: `OneFapiao`, `FapiaoBacksStatus`. `SessionsHold`: `ExchangedOnce`,
  `ResetOnce`, `LoginsAccounted`. `StatusMoves`: `InvoiceAdvances`, `TicketMovesOn`,
  `RepliesKept`, `NotFrozen` (KYC), `RoleNeedsStepUp`.
- `EverythingSettles`: `SettledIsBooked` (what the provider settled is booked, unless
  a handler failed behind its claim), `ReportSettles`, `NoteSettles`, `MessageSettles`.

"But for" in these properties is part of what they say: each names the one overlap or
failure under which the code gives the promise up, by a history variable that only
that overlap or failure sets. A second way to the same end is a violation.

**Why the bounds are enough.** Each hazard needs few actors: an overlap two calls, a
stale sweep one row and one other call, starvation two rows and a batch of one, a
competing allocation two sagas and one unit, a shifted page two partners and pages
of one, a fork two sealers, a hole in the chain two rows of which a batch can take
one or both. Two attempts give a first try, a retry and an exhausted counter. One fault
suffices for every single-fault history, and `allocate_faults`, `audit_chain` and
`idem_key` allow two so that a fault can hit the recovery from another. In
`services` two actors meet on one row, the pair that each hazard needs; there are
two refund sagas because two reviewers must be able to launch one each, two tokens
and two networks because a check compares them, one of the networks IPv6, two pairs
of tokens because a refresh makes one out of another; retry limits are 1 or 2 so that
the first try, the last and the dead letter occur. `onboarding` has three calls: one
to reach a state and two to overlap in it. Beyond the
bounds, the safety properties of section 5 are proved. In `saga_handles` handles,
in `monthend_run` consumers, runners and the two rows of one partner, in `onboarding` the
workers and the two users without a customer are symmetric: no definition of those
modules distinguishes them, and none of the runs that use symmetry checks a liveness
property. `monthend_run` does not go on from a state in which two runs have overlapped
(`CONSTRAINT OneAtATime`): `overlap` stays true, the settlement properties claim nothing
there, and the feed does not depend on the runs.

Deadlock is checked where the system never stops (`saga_handles` and the allocation
runs, whose requests can always be submitted again). Elsewhere the cfg says why
stopping is legal: all steps closed, all events sealed, all requests answered, the
period settled, the calls used up, the services at rest.

## 4. Fairness

`saga_settles`: weak fairness of a call in flight (a goroutine goes on; a
transaction ends one way or the other), of the sweep (a ticker in `RunSweepLoop`
that survives errors) and of time passing. No fairness is given to services or
administrators, and a step is never assumed to succeed: settling by expiry is
what the property rests on.

`audit_chain`: weak fairness of the sink's worker (`for r := range s.ch`), of the
sealer's ticker and of the lease's expiry, and strong fairness of `Start`: an exited
process is started again by its supervisor, and since the lease is free again and
again, but not continuously, weak fairness would let one sealer be kept out forever.
`EventuallySealed` excludes the states after an error between append and delete: from
there nothing is sealed any more (section 6).

`services`, each guarded by its focus: a request that has begun goes on and the
provider repeats a notice until it is answered (`IntentFairness`); every dispatcher's
tick comes again (`NoteFairness`); consumers go on and the queue shows a hidden message
again (`MnsFairness`); processes are restarted, cancelled bodies stop, and the lease
of a dead process runs out (`ReportFairness`). All are weak. Nothing is assumed of
users, clerks or the success of an external call: a report or a note settles because
its retries end.

## 5. Proofs

`tlapm` proves the following for every value of the constants that satisfies the
named assumptions; those only say that bounds are naturals, sets of workers are
disjoint, functions have their domains and the rows a behaviour starts from have
their shape; `Onboarding` adds that its workers are finitely many. The induction step of each invariant
is split by the actions of `Next`.

| theorem | module | statement |
|---|---|---|
| `TypeCorrect` | `SagaProofs`, `AllocateProofs`, `AuditProofs`, `IdempotencyProofs`, `MonthEndProofs`, `OnboardingProofs`, `AccountProofs` | `Spec => []TypeOK`; in `MonthEndProofs` for finitely many outbox rows, in `OnboardingProofs` for finitely many workers; that of `AccountProofs` is the `TypeOK` of all `Services` |
| `EffectBehindStatusCorrect` | `SagaProofs` | any number of handles, sweeps, steps, faults |
| `OnceCorrect` | `SagaProofs` | `RunsOnce`: a second commit of a step or of its compensation has a named reason |
| `UndoBackedCorrect`, `EffectsInOrderCorrect` | `AllocateProofs` | any sagas, capital, budget of faults |
| `BookedStaysCorrect` | `AllocateProofs` | unless more befell the saga than one refused call; any sagas, capital, faults, escalations, resubmissions |
| `ImplementsTransferCorrect` | `AllocateProofs` | `Allocate` implements `Transfer`, where a saga that more befell is excused without excusing the others; finitely many sagas, any capital and faults |
| `NothingLostCorrect` | `AuditProofs` | action property, any pods and sealers |
| `ChainCorrect`, `OnePodInOrder` | `AuditProofs` | `Verifies`, which speaks of rows that became visible in the order of their ids; any pods and sealers. With one pod they always do |
| `AccountedCorrect` | `AuditProofs` | any number of pods and any buffer |
| `ExclusiveCorrect`, `CommitsOnceCorrect`, `ReplaysCommittedCorrect` | `IdempotencyProofs` | any requests, endpoints, faults |
| `FeedExactCorrect` | `MonthEndProofs` | any rows, consumers, settlement runs |
| `LockedForeverCorrect` | `MonthEndProofs` | action property, finitely many rows; any consumers, runners, pages, runs, faults |
| `LockedCoversCorrect` | `MonthEndProofs` | finitely many rows; any partners, page size, consumers, runners, runs, faults |
| `SettlementSplit` | `MonthEndProofs` | for all integers, payout and withheld tax are not negative and add up to the revenue left after costs |
| `CodesCorrect` | `OnboardingProofs` | any finite set of workers; any codes, limits, partners, faults; either repository |
| `TransfersCorrect`, `ErasureCorrect`, `MembersCorrect` | `OnboardingProofs` | the same, and any customers, users and transfers under way; none of these is completed at the start |
| `OneBodyCorrect` | `ServicesProofs` | any pods and faults: beside the lease's holder only bodies whose lease was lost or given back |
| `DualControlCorrect` | `ServicesProofs` | any cases, tokens, staff, networks and faults |
| `CooldownCorrect` | `ServicesProofs` | action property; any cases, tokens, staff, networks and faults |
| `AuditedCorrect` | `ServicesProofs` | any cases, tokens, staff and networks |
| `FapiaoHoldsCorrect` | `ServicesProofs` | any applications, clerks, requests and faults |
| `DeliveredCorrect` | `ServicesProofs` | any pods, reports, notes, dispatchers, messages, consumers, retry limits and faults |
| `QueuesDeliverCorrect` | `ServicesProofs` | `Notify` and `Reports` implement `Delivery`, `Mns` implements `AtLeastOnce`; any notes, dispatchers, reports, pods, messages, consumers, retry limits and faults |
| `StatusMovesCorrect` | `ServicesProofs` | action properties of the row machines; any rows, calls at a time, staff and faults |
| `MoneyBackedCorrect` | `AccountProofs` | any intents, notices, top-ups, refunds, disputes, requests and faults; refund ids are not top-up ids |
| `PaymentsAdvanceCorrect` | `AccountProofs` | action properties of intents and top-ups; any requests and faults |
| `SessionsHoldCorrect` | `AccountProofs` | any visitors, tokens and faults; ids of token pairs are not ids of resets |
| `KycHoldsCorrect` | `AccountProofs` | any applicants, identities, officers and faults; ids of users are not identities |

The inductive invariants, and why the properties alone do not carry themselves:

- *Saga.* `EffectInv` adds what a call in flight knows: a call about to save
  "committed" has committed, one that compensates has a committed forward run
  behind it unless the step was forced, and one about to save "compensated" has
  committed its compensation (`Knows`). Without it a stale save could install
  anything. `OnceInv` adds, as long as a step has no trouble: one call at
  most is in flight on it (`OneCall`); a call that is about to execute finds nothing
  executed, and what was executed is closed or about to be saved
  (`ForwardGuarded`, `UndoGuarded`).
- *Allocate.* Per saga, `Tracked` (a request that advances has the effect of
  the step before it, one at the port of a compensation the effect it takes back),
  `Recorded` (a committed or compensated row is backed by its effect) and `Ordered` (each effect has its predecessor, each compensation its effect).
  `EffectsInOrder` needs all three: a step is entered because its predecessor's row
  is committed, not because its effect is seen. `KeptInv` adds what holds of a
  saga until more befalls it than one refused call: a row tells what took effect but for
  the step a request is busy with (`RowsTrue`); a step behind the charge fails only when that refusal is spent
  (`FailedOnce`), so every compensation after it succeeds, in its order and never
  behind a committed hold (`Undoing`), and the charge is given back last (`Reversed`,
  `Refunded`). With it every step of a saga maps to `Charge`, `Credit`, `TakeBack`,
  `Discharge`, `Excuse` or a stutter; `Charge` is within the capital because the balance
  counts the excused sagas too. Under a timeout the saga would not keep to `Transfer`:
  `allocate_timeout`.
- *Audit.* `LossInv`: a sealer that is about to delete holds rows that are in the
  chain. `CountInv` adds `Drawn` (an id in hand is new and in one hand only, sealers
  hold stored rows): an insert then stores one more row and a sealer none. The events in
  the sinks are counted as pairs of a pod and a place, so that a step of a pod changes
  their number by the change of its load (`HeldFalls`, `PodCounts`). `InOrder`, until a
  row is late: `Prefix` (what is sealed lies below what is unsealed and not sealed) and
  `Segment` (a sealer's batch is an initial segment of the unsealed rows, and its previous
  hash the last one below it whenever its append can still succeed). A late row breaks
  `Prefix`, and two sealers can then fork the chain.
- *Idempotency.* `StoreInv`: everything a replay can return comes from a committed
  request. `RecordInv`: with the record, a committed request owns its endpoint's
  row. `HolderInv`: a running handler has its PENDING entry, and is alone.
  `CommitInv`: until the key is reopened, a commit is protected by the entry and
  nobody who could commit again is running.
- *MonthEnd.* `FeedInv` adds `AtHand` (a consumer that is about to ack has its row
  booked, and holds a row exactly when it answers for one). The settlement run only
  reads feed variables or spends faults. `RunInv` types the run: the row a runner is
  about to upsert is a partner's. `Informed`: the status a runner works on is the stored
  one, and it is "generated" from the gate on. That holds until two runs overlap; one
  could then take a locked settlement back with a status it was passed earlier.
  `OneRun`: until then at most one process is running (`StepsAlone`). `CoverInv` follows a run through its pages: of
  what was booked when it began, a partner's share is in the partner's item, or the
  partner is in the page in hand or has at least the offset's number of smaller billed
  partners. A page holds at most `PageSize` partners and is empty only when none is left
  (`PageReaches`), and revenue that arrives moves no partner to an earlier page
  (`RanksRise`), so a run that ends has been everywhere. A run that
  overlaps could write an item over with older rows.
- *Onboarding.* `TypeInv`: what a call, a log or a count names is there (`Refers`),
  which the types alone do not say. `UsesInv`: of each code, what is reported and the
  registrations about to mark it used up (`Markers`) are together no more than its
  count; these have counted their use and report it later. `Backed`: a transfer
  is applied behind its completed log; it carries the other three. `MemberInv` then follows
  from what makes a customer active. `ErasureInv` adds that a call on its way to Fy-api has
  its customer deleted, or brought back since, and that an erased user keeps a row.
  `SettleInv` follows a transfer of a customer not in `unsure` from its update to Fy-api: the row
  carries the partner and the group that will be sent, so the reload does not give up.
- *Leader lock.* `OneBody` is inductive with the lock's type: every step that takes a
  lease from a running body records it, and no step writes the lease of another.
- *Force-resolve.* `ForceInv` follows a bid through its checks: one past the
  comparison of persons and places has a token of another person from another place
  (`PastApart`), one past the token has consumed it (`PastBacked`), no other bid or
  resolution has the same one (`NotYet`), and what is resolved keeps these facts
  (`ResolvedBacked`, `ResolvedApart`). `DualControl` alone says nothing of bids.
  `CooldownInv` adds that a bid not yet resolved was not started during a cooldown, or
  a resolution that overlapped it has put its case in `gap` (`Rested`), and that what
  was resolved lately cools, is about to be marked or is in `gap` (`Cooling`).
- *Invoices.* `InvoiceInv`: what the gateway made stands behind the status (`Carries`),
  and a call that red-flushes has a serial and its request behind it (`Warranted`).
  Both hold however calls overlap. Of an application nobody overlapped on, one call at
  most is under way, at a place that fits the status (`Fits`), so that what it is about
  to ask the gateway for has not been made (`Single`). The status alone does not say
  that: while a fapiao is made, it still is `issuing`. `Fits` also gives that a status
  nobody overlapped on never goes back.
- *Tickets, KYC decisions, staff.* `TicketInv` says a call is about to write a status
  allowed from the one it read, or "responding" (`Chosen`), on a ticket that is filed.
  `RejectsInv` counts rejections: none on an undecided row, at most one on another.
  `RolesInv` keeps a change that was checked within its caller's step-up, which never
  moves to an earlier minute.
- *Delivery.* `DispatchInv`: of a report not in `doubt`, one dispatch at most has it in
  hand; when the authority has it, that dispatch is about to write so, or it is
  written and the dispatch is only left to stamp the event (`Clear`). `ReceivedOnce`
  alone does not say who is about to submit. `InBody` ties a dispatch to a body, so that
  `OneBody` gives `ListedOnce`. `NoteInv` says the same of notes and their hands
  (`Sole`). `MnsInv`: a try still to be made has a copy to be, and what a consumer is
  about to delete has become something (`DeletedLast`).
  For the refinement, `PendingHeld` and `PendingListed` add that what is in hand, and
  not in doubt, is still pending: a mark then finds the row as it was read. For
  `AtLeastOnce`, `HeldInside` adds that a message a consumer is about to handle is still
  in the queue, or another consumer's copy of it has become something: a receipt that ran
  out may be handled late, never out of nothing.
- *Payments.* `IntentInv`: a request that is about to book a success holds a notice
  the provider sent after it settled (`SuccessIsSettled`, `NoticeInHand`), and a
  payment is asked for by one request (`Opening`). `RefundInv`: a refund's request has
  taken effect with every step behind it (`OnItsWay`, `RowsBacked`), has its saga to
  itself, and a dispute has no launch before it is accepted and one afterwards
  (`OneLaunch`). `Smooth` adds, as long as nothing has failed: a launch meets only rows
  still to be written and does not fail (`Going`, `Fresh`), so an accepted dispute is
  in somebody's hands. `PaidInv`: whoever is about to write over an intent that was
  booked meanwhile has the overlap on record (`OverlapNoted`). `TopupInv`: a request is
  where its plan has it (`HandSound`), and what is cleared or credited has its callback
  recorded (`CallbackFirst`).
- *Sessions.* `RotatedOnce`, `ConfirmedOnce`: a call that is about to exchange a token
  nobody overlapped on finds it unused and is alone with it, and a used token is
  revoked or consumed. `SignedOut`: a sign-out has revoked what it is through with,
  without which the last step of it would prove nothing of the listed logins.
- *KYC.* `HeldOnce`: an identity without a mishap has one row or one insertion under
  way. `OneIdentity` says nothing of a submission between its lookup and its insert.
- *Types of the services.* Most are part of the invariants above. The others: what is
  marked or audited was resolved (`Marked`), a copy counts its receipts up to the
  threshold (`DequeuesBounded`), a call that has a serial has one of a fapiao made
  (`SerialsMade`), only what was sent is claimed (`NoticesKnown`), and a top-up does what
  its plan names (`EffectsNamed`).

**Model-checked only.** Liveness (`EventuallySettles`, `EventuallySealed`,
`EverythingSettles`), which with ENABLED is out of the prover's reach.
`NoFreeCredit` is what the run with timeouts refutes; of a saga that nothing befell but
one refused call it follows from the refinement.

## 6. What the checks say about the code

Three runs end in a violation of something the repository says about itself.

- `allocate_timeout`. service.go:11 announces `ErrSagaUnknown` for a 5xx of Fy-api;
  no branch makes it, so a top-up that took effect and timed out refunds the
  partner and leaves the customer credited.
- `monthend_locked`. engine.go:16 says items cannot change after the lock;
  `RunMonthly` upserts them before it asks `CanTransition` (runner.go:121, :129).
- `onboarding_last_use`. invitation.go:158 has `Consume` write "used_up" with the last
  use; `chk_invitation_status` does not list that status, so in MySQL the mark fails
  and the registration that took the last use is reported as failed, with its
  customer inserted and its use counted.

Further observations made while modelling, which the models exhibit or leave out
but no run is devoted to. The engines:

- A failed `Compensate` stores "failed" (instance.go:277), which `Run` and the sweep
  take for a failed forward run: with one handle and no fault the forward transaction
  commits twice, although saga.go:85 promises otherwise. `RunsOnce` lists it.
- With two pods a row can be chained while one with a smaller id is still invisible:
  ids are drawn when an INSERT starts, rows appear when it commits, and sealer.go:10
  states the chain invariant without that case. `late` names it.

- `MemRepo.Save` refuses nothing (memrepo.go:77): a stale save of "failed" replaces
  "committed". `Run` enters a step that is `in_progress` (instance.go:113) although
  the package comment (:6) suggests a lease.
- `Run` returns its result *and* an error when the final save fails
  (instance.go:149-150, "必须返回成功"): a caller that looks at the error, as
  saga_allocate does, compensates a step that committed.
- saga_allocate joins the errors of compensations and goes on (service.go:155): if
  the refund at Fy-api fails, the partner is refunded all the same. A transient
  `GetStep` error on a finished allocation undoes it (service.go:146).
- `RefundCustomer` is used as the compensation of the top-up, but the client's
  comment says it adds to the customer's quota (infra/fyapi/client.go:293-295), and
  both calls carry the same idempotency key. `Allocate` takes the caller's reading.
- `AppendSealed` and `DeleteUnsealed` are two transactions (sealer.go:168-171): after
  a failure between them each restart fetches the same rows and ends in a
  duplicate key, so sealing stops for good; `EventuallySealed` excludes that.
  The lease is never renewed (sealer.go:122), although cmd/audit-sealer speaks
  of a 10 s refresh (main.go:79).
- `EnqueueSink.Close` is never called: what a pod has queued at shutdown is gone and
  not counted (`tally.lost`).
- The Redis key of the idempotency middleware leaves out the endpoint
  (idempotency.go:143), `idempotency_record` has it: a key reused for another
  endpoint replays the first endpoint's response. `Hit` does so, and
  `ReplaysCommitted` claims no more than that the response is a committed one.
- Rows left `in_flight` by a consumer that died are never returned
  (`DefaultLeaseTTL` is unused) and the freshness gate does not count them.
- The CHECK constraint on settlement.status (migrations/004_settlement.up.sql:25)
  does not list `locked`, which `RunMonthly` writes. The tree has no database
  implementation of the writer; `MonthEnd` models the interface.
- `RunMonthly` decides on the status it was passed. Two runs at once would take a
  locked settlement back to `generated`; leader election is left to the caller
  (engine.go:138). `LockedForever` and `LockedCovers` speak of runs that do not overlap.
- A partner whose first revenue arrives during a run and whose id is small shifts
  the pages; it may be missed, others are never skipped (`LockedCovers`).

Onboarding:

- Apply leaves `invitation_code` empty, and the column is NOT NULL UNIQUE: in MySQL a
  second applicant is refused until the first has been given a code of its own.
- A registration whose `Consume` fails keeps its customer row (customer.go:173); an
  application whose code could not be generated keeps the address.
- `AdvanceTransferStage` accepts any stage, and applies a completed change log again
  (transfer.go:66). `SubmitErase` repeated after a failed `EraseUser` returns
  success without erasing (transfer.go:125).
- `Terminate` does not revoke the partner's codes. The memory repository counts uses
  without a limit. `partnerToRow` drops the cipher of the phone number.

Payments:

- `HandleCallback` treats "pending" as failed, and reads and writes without a
  condition. The intent is inserted before the provider is asked, so a retry after an
  error of the provider is refused by its own row (payment/service.go:69).
- A resubmitted top-up skips the provider step and returns an empty pay URL. `Fund`
  does not look at the intent. A dispute whose launch failed stays accepted, and two
  disputes on one revenue row are not excluded.

KYC, staff, sessions:

- `bank_account_blind_index` is UNIQUE (migration 016) and empty without an account:
  in MySQL one such application exists at most. The yearly freeze cannot be reached.
  cmd/kyc-purge takes five years off a date that lies five years ahead (main.go:144,
  kyc.go:384) and selects a status nothing sets.
- `SetStatus` of staff needs no step-up and may suspend the last super_admin.
- cmd/server wires `service/auth` to the memory repository and the memory revocation
  store, while the JWT middleware reads Redis (main.go:320-323). Tokens made by
  `Refresh` and `SwitchActor` have no session row. `CloseAllSessions` also closes a
  login created after the listing, whose token is then not revoked.
- `Logout` (w1a_auth.go:78) revokes the access token and clears the cookies; the
  refresh token of the pair stays listed and can be exchanged.

Force-resolve and the leader lock:

- `same24` treats any two IPv6 addresses as different while `ValidateForceResolve`
  compares /48. A token is used up by a refusal.
- `Run` gives the lease back on shutdown without waiting for the body (redis.go:121).
  `leader.RenewLoop`, which renews without looking at the owner, has no caller.

Delivery:

- cmd/dispatcher-12377 makes a memory repository of its own (main.go:71), so as wired
  it sees no reports; `Reports` models one shared repository, which the lock implies.
  `AdminReview` to "block" queues no report; `UpdateReport` errors are ignored; a
  retried dead letter keeps its count.
- The deduplication key of notifications leaves out the channel. A message of unknown
  type is acknowledged (`|| true`); `MoveToDLQ` publishes and does not delete.

Invoices and tickets:

- Overlapping `Issue` calls, or one repeated after its update was lost, make two
  fapiao. A refused red flush leaves `red_flushing` for good. "pending" of a red flush
  is not allowed by `chk_red_flush_status` (migration 005).
- A staff reply moves closed and resolved tickets to responding.

## 7. Plan

Done, in this order: `Saga` (everything else runs on it), `Transfer` and `Allocate`
(money leaves through it), `AuditSeal`, `Idempotency`, `Feed`, `Settlement`,
`MonthEnd`; then `Onboarding` with its parts, the payment side (`Intents`,
`SagaSteps`, `Dispute`), the two-person control, the leader lock with the dispatcher
it protects, the queues, and the row machines, joined in `Services`.

Proved are all safety and action properties of the runs, and the refinements of the
abstract specifications. To be modelled next: `Logout` and `SwitchActor` with access
tokens in `Sessions`.

## 8. What is not modelled

Cryptography and the per-request checks (signatures, CSRF, BOLA scope, KMS): their
properties are about adversaries. Of authentication, `Sessions` has login, refresh,
sign-out everywhere and the password reset; `Logout`, `SwitchActor` and what an access
token is checked for are left out. Pure I/O and wiring (`infra/*`, `cmd/server`,
handlers), parsing, formatting and domain types, the linter under `tools/`, the front
ends: no protocol state. KYC purge, wallet and revenue queries: section 1. Fy-api, the
payment and fapiao providers, the authority, the channels, MNS, MySQL and Redis are
external and appear as the code addresses them: idempotent per saga id where the
code sends one, serialisable single statements, a key with a TTL.

Deliberately abstracted inside the modelled parts: amounts (an allocation is one
unit), hashes (the id of the row), responses (the request), payloads (whether there
is one), backoff and tick durations (any delay), log output and metrics except the
drop counter, request hashing and header checks of the idempotency middleware, the
error texts of the saga engine, invoice titles, cipher texts and blind indexes (an
identity is its index), expiry of access tokens.
