# Soroban Registry: TLA+ models and proofs

This directory specifies, model-checks and proves the parts of the
Soroban Registry whose correctness depends on the order of events: the ledger
indexer, the transfer of contract ownership, USDC and Stripe purchases,
idempotent publishing, governance and multi-signature approvals, the breaker
and queue in front of the database, the rate limiter, the caching layer and the
client's walk through a search. Paths below are relative to `src/` of the repository.

    tlc -workers 2 -config Indexer_any.cfg Indexer     # any run of the table
    tlapm IndexerProofs.tla                            # any module of proofs

`PROJECT.json` lists the components, the runs, a mutant of the code's model for
every property, the source lines behind every definition, the hazards and the
findings.

## 1. The system

The registry is a set of Rust services around one PostgreSQL database and an
optional Redis: the API (`backend/api`, axum handlers that run concurrently,
most of them statement by statement without a transaction), the indexer
(`backend/indexer`, one process with two polling tasks), clients
(`backend/registry_client`, `cli`, `frontend`) and small side services.

| Component | State it keeps | Operations | What is hard | What makes it correct | Modelled in |
|---|---|---|---|---|---|
| Ledger indexer: `indexer/src/main.rs`, `state.rs`, `reorg.rs` | `indexer_state` row (height, hash, checkpoint), its copy in memory, a published copy for the shutdown flush | start, polling cycle, checkpoint update, reorg recovery, flush | crashes between two UPDATEs, reorgs between two requests, lost replies | no ledger skipped; a reorg is noticed; the task always catches up | `Indexer` |
| RPC client, detector, contract writer: `indexer/src/rpc.rs`, `detector.rs`, `db.rs` | `contracts` rows | get_latest_ledger, get_ledger, get_ledger_operations, write_contracts_batch | failed and unanswered calls | a repeated batch inserts nothing twice | calls are steps of `Indexer`; paging not yet |
| Ownership transfer: `api/src/handlers.rs` 6490-7260, `ownership_transfer.rs` | `contracts.publisher_id`, `ownership_transfers`, `ownership_transfer_logs` | initiate, accept, reject, expire (on access, on read, by the sweeper), PATCH publisher | row locks, `NOW()` against the clock, `SKIP LOCKED`, batches | the invariants I1-I6 that `handlers.rs` states | `OwnershipTransfer`, `OwnershipHistory` |
| USDC payments: `indexer/src/usdc_scanner.rs`, `api/src/marketplace/usdc_handlers.rs`, `issuance.rs` | intents, licenses, scanner cursor | create intent, scan, confirm, issue | three unrelated statements, client timeouts, restarts, operators | one license per paid intent, none lost | `UsdcPayments`, `UsdcLedger` |
| Publishing: `api/src/handlers.rs` 4590-4960, `cache.rs` 560-690 | idempotency entries in Redis, `contracts`, audit log, events | claim, look up, insert, audit, announce, complete, release | retries, expiry of locks, statement-by-statement writes | one contract, one audit entry, the right answer to each retry | `Publish` |
| Webhook worker: `webhook_delivery.rs`, `webhook_events.rs` | `notification_delivery_logs` | claim, deliver, back off | worker restarts | every row delivered or given up | no (see 8) |
| Multisig deployments: `multisig_handlers.rs`, gate in `handlers.rs` 330-400 | proposals, signatures, audit events | propose, sign, execute, update a contract under a proposal | concurrent signatures, expiry, the gate reads without a lock | an update rests on enough different approvals | `Multisig`, `ApprovalPromise` |
| Governance: `governance_handlers.rs` | proposals, votes, voting rights | read, vote, execute, set rights | two looks at the clock in one transaction, boundaries of the window | a decision follows from the stored votes, an execution is final | `Governance` |
| Deprecation: `deprecation_handlers.rs` | one row per contract | deprecate, read | dates; single statements | | no (see 10) |
| Stripe: `marketplace/stripe_handlers.rs` | payments, recorded events, licenses | checkout, webhook | repeated and overlapping deliveries, errors between statements | one license per event, for its payment | `StripeCheckout` |
| License verification, metering: `marketplace/*` | licenses, usage | verify, revoke, meter | little | | no |
| Caching layer: `cache.rs` | entries in the memory of each server and in Redis | get, put, invalidate | reads that overlap a write, Redis errors, dropped requests | bounded staleness, what was cleared stays cleared | `ReadCache` |
| Rate limiter: `rate_limit.rs` | stamps of admitted requests | check, evict | stamps out of order, boundaries of the window | the limit holds in every window, Retry-After suffices | `RateLimit` |
| Database resilience: `db_resilience.rs` | breaker, queue, semaphore | ping, acquire, drop | futures dropped at any await, two counters | no permit lost, requests let in again | `Resilience` |
| Search and the client's walk: `search_postgres.rs`, `registry_client/src/pagination.rs`, `http.rs` | kept pages; cursor, seen cursors, counts | search, next page, retry, cancel, resume | pages from different moments, retries | no row twice or out of order, none lost | `SearchWalk` |
| Shared algorithms: `shared` | none | dependency cycles, semver order, slug | corner cases | agree with a reference definition | planned |
| Load balancer: `soroban-registry/crates` | health of endpoints | pick, fail over | recovery windows | a healthy endpoint is used | planned |
| Archival: `archival.rs` | policies, runs, audit trail, the tables it empties | sweep, run, set a policy, restore | overlapping jobs, copy and DELETE in two statements, uniqueness that goes with a row | nothing goes without a copy, no signature is used twice | `Archival` |
| Others: partitions, canary, A/B, migrations, patches, incidents, search, CRUD, auth, analyses, seeder, ABI, verifier, CLI, tagging, front end, schema, scripts | rows, files | single statements, pure functions, process I/O | little that is concurrent | | no; reasons in `PROJECT.json` |

Interactions. The indexer and the API share the database only; the payment
scanner, a task of the indexer, calls the API's confirm endpoint over HTTP and
keeps its own cursor row. Publishing and ownership share the `contracts` row:
publishing writes its owner, transfers and PATCH change it. The sweeper of
past-due transfers is a task of the API process. A sensitive update of a
contract passes the multi-signature gate. Every API request passes the rate
limiter, then the breaker and the queue, then perhaps the cache; those four
share no state with each other and none with the handlers behind them, so they
are checked side by side and not as a product. Everything else meets in
PostgreSQL's constraints: `contracts_wasm_hash_key`, the key on contract id and
network, `tx_hash UNIQUE`, the partial index on live transfers, the index on
request nonces. They are modelled where they decide an outcome.

## 2. How the modules are built

Each module takes one component and gives each await, statement or transaction
its own action, so that any other actor may act in between. What a statement
does atomically in the database is atomic in the model. Payloads are model
values: a ledger is a height and a fork number, a payment its place in the
chain, a signature is valid or its request ends in an error. Integers are far
from their width everywhere and are bounded by named constants.

Bounds are constants named `Max...`; they appear in guards only. No behaviour
other than the environment's (closing ledgers, reorgs, payments, faults, stops,
time) is cut short by one. In `OwnershipTransfer` the set `Transfers` is also a
bound: no initiation can succeed when it is used up. Finished rows are deleted months
later by archival, which `Archival` models by itself.

| Module | Kind |
|---|---|
| `Indexer` | component, checked directly |
| `IndexerProofs` | theorems about it |
| `OwnershipHistory` | abstract: what the transfer endpoints promise |
| `OwnershipTransfer` | detailed: transactions, row locks, sweeper |
| `MCOwnership` | values and symmetry for TLC |
| `UsdcLedger` | abstract: what a purchase promises |
| `UsdcPayments` | detailed: chain, scanner, confirm endpoint |
| `MCUsdc` | values and symmetry for TLC |
| `Publish` | component: handler, Redis, database |
| `MCPublish` | values for TLC |
| `WallClock` | the clock that the next five read |
| `Governance`, `Multisig`, `RateLimit`, `ReadCache`, `Archival` | components with a clock |
| `ApprovalPromise` | abstract: what an M-of-N approval promises |
| `Resilience`, `SearchWalk`, `StripeCheckout` | components without |
| `MCServices` | the last nine modules side by side, values for TLC |
| `OwnershipProofs` | theorems about `OwnershipTransfer` and its refinement |
| `UsdcProofs` | theorems about `UsdcPayments` and its refinement |
| `PublishProofs` | theorems about `Publish` |
| `ApprovalProofs` | theorems about `Governance`, `Multisig` and the refinement of `ApprovalPromise` |
| `TrafficProofs` | theorems about `Resilience`, `RateLimit`, `SearchWalk` |
| `RecordProofs` | theorems about `ReadCache`, `StripeCheckout`, `Archival` |
| `ServicesProofs` | the types of all parts of `MCServices` together |


An operator whose comment begins with "Mutant:" is a plausible mistake, not the
code: substituted for the definition after it, it must break the property that
`PROJECT.json` names with it. It is used nowhere else.

## 3. The ledger indexer (`Indexer`)

`row` is the database row, `st` the `IndexerState` of the polling task, `snap`
the copy published for the shutdown handler; `contracts` holds the ledgers
(height and fork) whose deployments were inserted. `pc` names the await the
task stands at:

| `pc` | actions | code |
|---|---|---|
| down | `Start` | `run` up to its loop; a failed load means the default state |
| poll | `GetLatest` | latest ledger, early return, size of the batch |
| check | `NoReorgSeen`, `ReorgSeen`, `LedgerMissing` | `check_for_reorg` and the fall-back in memory |
| recover, persist | `UpdateState` | `update_state` |
| ledger, ops, write | `FetchLedger`, `FetchOps`, `WriteContracts`, `WriteUnanswered` | the body of the batch's loop |
| ckpt | `UpdateCheckpoint` | `update_checkpoint`, before the height is saved |
| ok, error | `EndCycle` | publication of the state |
| sleep | `Wake` | the sleep |
| any | `CallFails`, `Shutdown`, `Crash` | an error, SIGTERM with flush, the end of the process |

`CloseLedger` and `Reorg` are the chain. `Reorg` replaces a suffix by a new,
possibly shorter one.

Properties. `NoLedgerSkipped`: neither the durable cursor nor the durable
checkpoint stands beyond a height that was never indexed, whatever happens.
`CatchesUp`: no reorg, fault or stop wedges the task. `HashMatchImpliesCurrent`
and `EventuallyCurrent` say that the one stored hash is enough to notice a
reorg and that recovery loses nothing. They hold in `indexer_quiet`, where
reorgs spare a running cycle and every ledger that was a checkpoint once (up to
`settled`, which no step of the code reads); both assumptions are
constants of the module because the code needs both:

* A reorg between the comparison and the end of the batch can leave a ledger of
  the old fork under a newer hash, and only the newest hash is kept. With
  `QuietReorgs = FALSE` TLC refutes `HashMatchImpliesCurrent`; no document of
  the repository promises otherwise.
* The checkpoint may be the newest indexed ledger, not one
  `INDEXER_REORG_CHECKPOINT_DEPTH` behind it (`reorg.rs:106`). A reorg that
  replaces it loses data, although `backend/indexer/README.md:188` says "Falls
  back to last checkpoint - no data loss". `EventuallyCurrent`
  is refuted with `ShallowReorgs = FALSE`.

`indexer_fallback` refutes that a recovery moves the cursor back: the
checkpoint becomes durable before the height, so that a crash between the two
UPDATEs leaves a row whose checkpoint is ahead of its cursor, and the next
recovery moves forward (`main.rs:343`). `NoLedgerSkipped` shows that this skips
nothing.

Bounds: 4 heights with batches and checkpoint distances of 2 give several
batches, checkpoints in the middle and at the end of one, and recoveries across
both; 2 reorgs let a second one hit the recovery of the first; 1 failed call
and 1 stop each fall at every step. Every theorem of section 9 is free of them.

Fairness: `Start`, `CycleStep` and `CloseLedger`, weakly. The supervisor
restarts the service, tokio polls a task whose call has returned (each call has
a time limit, and a failure counts as a return), and the network keeps closing
ledgers. Reorgs, failures and stops are never required; their number is finite.

## 4. Ownership transfer (`OwnershipTransfer`, `OwnershipHistory`)

A request `r` goes from "begin" (a handler that has checked what it can without
the database, and noted `now[r]`) through "lock" (its transaction has begun,
which fixes `NOW()` as `txNow[r]`) and "contract" to "both": the handlers lock
the contract's row, then the transfer's. What follows the last lock is one
action, because it becomes visible when it commits: `CreateTransfer`,
`ExpireOnAccess`, `Accept`, `Reject` and their refusals. `Abort` stands for
every other end of a request and releases its locks. `ExpireOnRead` is the
expiry in the read endpoints; `SweepClaim`, `SweepCommit` and `SweepAbort` are
the sweeper, with `SKIP LOCKED` (only free rows), `ORDER BY expires_at` and
`LIMIT` (`BatchSize`). `StartPatch` and `Patch` are
`change_contract_publisher`: an unlocked read, then an unconditional UPDATE.

`OwnershipHistory` is the promise: open, complete, reject, expire, hand over,
each in one step. `Implements` says that every behaviour of the locks and
transactions is one of these; the nonce and expiry columns are hidden
(`Shown`). `Complete` requires that the sender still owns the contract at that
instant, so the refinement fails if the compare-and-swap is dropped.
`Open` requires that no transfer of the contract is live, and every step appends
to the log what it does to the row: `Implements` therefore covers I1, I2, I4
and I5. `SignatureOpensOneTransfer` is I6. `EveryRequestEnds` excludes deadlock and leaked locks; `PastDueCloses`
makes the sweeper the backstop it is meant to be.

`ownership_i3` refutes I3 as `handlers.rs:6595` words it. Both clocks an
acceptance consults are read before it has its locks, the second because
`NOW()` in PostgreSQL is the start of the transaction. A request that waits
past `expires_at` for a lock still completes.

Bounds: two requests are every pair of endpoints that can race (locks are held
by one and waited for by the other), two rows let a closed transfer be followed
by a new one or a replay, two publishers are sender and recipient (a stranger's
request differs from an aborted one only in its status code, and `Authorized`
is exercised by the sender trying to accept). One tick of the clock separates
a window that is open from one that is over; `ownership_i3` needs two because
the request must arrive, wait and complete. The refinement was also run with
two contracts and batches of two (1.1 million states). Symmetry is used in the
safety run only.

Fairness: a request that has arrived is run; a lock's waiters are served in
turn, since PostgreSQL queues them (strong fairness of `Lock` and `Patch`); the
sweeper's interval keeps firing and its transaction does not fail for ever
(strong fairness of `SweepClaim` and `SweepCommit`: `SKIP LOCKED` passes over a
locked row, so weak fairness would not do). Nobody has to send a request.

## 5. USDC payments (`UsdcPayments`, `UsdcLedger`)

`chain` is the receiving account's history; buyers pay late, too little, twice
or for a memo nobody opened. `scan` is the scanner's cycle: `Poll` (load the
cursor, fetch a page), then `SkipForeign`, `Report` or `MemoError` for each
payment, then `EndPage` and `Save`; `GiveUp` is the HTTP client's 30 seconds,
`LoseCycle` a restart. `scan.reach` is the cursor to be saved: as in the code
it only moves past payments that were handled. `req[r]` is a confirm handler,
statement by statement: `ReadIntent`, `MarkExpired`, `Claim` or `LoseClaim`,
`Issue` or `IssueNotFound`, `Finish`. A handler whose caller has given up goes
on. `Operate` is an operator's call, with a memo of the operator's choosing.

`UsdcLedger` is the promise: open, closed or claimed once, by a transaction
that claims nothing else, licensed only when claimed. `Implements` shows it for
every interleaving of the handlers, faults included. `OneLicense` and
`LicenseOfClaim` relate the three tables; `NothingSkipped` relates them to the
durable cursor; `CatchesUp` says that no payment holds up the scanner for ever.
A payment whose transaction is held by another intent is answered 500 and
retried with everything behind it waiting, until its own hour is over
(`usdc_handlers.rs:301`); the property shows that it is no longer than that.

`usdc_lost` refutes the comment that a handled payment is a settled one
(`usdc_scanner.rs:348-351`). If the plan is deactivated between the intent and
its payment, or the handler stops between claim and license, the intent stays
claimed without a license, every retry is answered 409, and the scanner passes
it. `turnedAway` in `NothingSkipped` names the other way to lose a payment: 401
and 429 count as handled (`usdc_scanner.rs:408`).

Bounds: two intents and two payments are the smallest instance in which a
transaction is used for the wrong intent, an intent is paid twice, and a page
ends between them; of two requests one may be the scanner's and one an
operator's or a predecessor the scanner gave up on. One fault falls at every
step. The live run has one payment and two intents, so that the operator can
still misdirect it. All intents are for one plan: plans do not interact.

Fairness: the scanner's task and the handlers run, and an hour ends. No fairness
for faults, buyers, owners or operators.

## 6. Publishing (`Publish`)

A request stands at `step[r]`: "claim" (`SET NX EX`), "get", "check" (the
lookup), "insert", "audit", "announce", "complete" or "release". `store` is
Redis, where `Evict` ends any entry's TTL and nothing records whose lock an
entry is; `contract`, `audits` and `deployed` are the database. A request whose
claim fails and whose GET finds nothing goes on without a lock, as the code
does. `Drop` is a client that disconnects or a process that ends.

`OkIsMine`: whatever is replayed, found or inserted, an "ok" hands out the row
of the operation it answers. `OnceEach`: one audit entry and one event per
contract at most. `RefusedIsTaken`: a final refusal has a reason. Together with
`EveryKeySettles` they say that the key's lock is a matter of economy and that
the UNIQUE constraints carry correctness: they hold although two requests may
be in flight under one key, which `cache.rs:574-577` denies. A third request's
release between the second's `SET NX` and its GET leaves it without a lock.

Bounds: one key with two overlapping requests, each of which may also be a
rival without a key, on two addresses, two hashes and two publishers: each of
the two UNIQUE constraints and the owner's check decides alone. Two faults let
a lost reply be followed by a dropped handler.

Fairness: handlers run, TTLs end, and a client without a final answer keeps
sending (strong, since a free request slot comes and goes).

## 7. Services of the API (`MCServices`)

Nine modules, one of them abstract, that share nothing but the clock. `MCServices` picks one part at
the start and runs it alone: the properties of each part speak of its variables
only, and a product would multiply states and show nothing more. An await, a
statement or a transaction is a step, as elsewhere; a client that disconnects
drops the future of its handler at any await.

*Governance.* Nothing runs in the background: `ReadProposal`, `RecordVote` and
the two halves of an execution evaluate the status from clock and votes, in a
transaction that holds the proposal's row (`ballot`). Voting rights are not
locked, and the clock moves between the two looks a transaction takes at it.
`StatusTellsTally` relates the stored decision to the stored votes, including a
vote in the last moment of the window, which the handler admits (`>`,
`governance_handlers.rs:494`) and the evaluation already counts as closed
(`>=`). `ExecutedIsFinal` is an action property. Both are stated for a positive
delay: with none, the last moment both votes and executes.

*Multisig.* Creating, signing and executing are single transactions;
`PassGate` and `WriteUpdate` are the two steps of a sensitive update, which reads
the proposal without a lock. `KeepsPromise` is the refinement of
`ApprovalPromise`; `TrailTellsState` relates the append-only audit table to the
others; `UpdateIsBacked` is what the gate is for; `OrderedFromTheFirst` is the
meaning of `ordered_approvals`, which the code enforces through a count. What
the gate does not promise, and the model shows: one approved proposal covers
any number of updates, and an update may be written after the expiry.

*Resilience.* `Arrives`, `Enqueue`, `Grant`, `WaitTimesOut`, `Uncount`,
`Activate`, `Respond`, `ReturnPermit` follow a request through `acquire` and the
drop of its permit; `HangUp` drops it while it waits. `PingTick`, `PingOk` and
`PingFails` are the only task that moves the breaker. `CountersTellStages`
accounts for every permit and says exactly by how much `queued_requests` is
wrong: by the clients that hung up. `queue_leak` refutes the comment at
`db_resilience.rs:190` with one of them. `AdmitsAgain` and `OutageOpens` are
liveness; `AdmitsAgain` holds because `MaxHangups` is below `QueueLimit` in the
run, and fails when it is not, which is the finding's consequence: after
`queue_limit` such clients the server refuses everything.

*RateLimit.* A request takes its stamp (`StampHit`) before it waits for the
mutex, so `AdmitHit` and `RefuseHit` come out of order; `MaxLag` bounds that
wait. `WindowsRespected` counts over every interval of a window's length,
`RefusalsHaveCause` is its converse, `RetryAfterSuffices` speaks of a client
that does as it is told. One bucket, because buckets share only the mutex.

*SearchWalk.* Rows are places in the order of the keyset; `Edit` changes which
of them match, `Browse` is another client's request, `Expire` a kept page's
TTL. A page carries what matched when it was cut (`of`); `given` is the sequence
of pages that reached the caller, each the set of its rows, which the page
lists from the newest down. `WalkIsFaithful`: no
row twice or out of order, no page refused as a loop, and a walk that ends by
itself gave every row that matched in the snapshot of each of its pages. The
words of `docs/pagination.md:75`, every row that existed when the walk began,
are stronger and do not hold when a page was kept before the walk began
(`search_postgres.rs:389`): pages live in the cache for a while and no write
takes them out.

*ReadCache.* One key, all servers. A read is `MissL1`, `AskL2`, then `Backfill`
or `ReadDb`, `PutL1`, `PutL2`; a write is `Commit`, `DropL1`, `DropL2`. Any of
them may overlap, Redis may fail, and `Abandon` ends a request anywhere.
`AgeBounded` bounds staleness by two times to live and two requests: a backfill
gives a copy a whole new time to live, but only once. `InvalidationSticks` says
what invalidation is worth: what a write cleared without company stays cleared
in Redis and on its server. The memories of other servers keep the old copy
until it expires, and a read between the two clearings brings it back; both are
inside `AgeBounded` and outside any promise of the repository. `MaxStay`, how
long a request takes at most, is an assumption on the environment: the code has
no overall timeout.

*StripeCheckout.* `Deliver` may repeat an event, also while another delivery of
it is being handled; `RecordEvent` is the deduplicating INSERT, a statement of
its own, then `LookUpPayment`, `IssueLicense`, `CompletePayment`,
`LinkAndAnswer`. `LicensedByItsEvent` says that an event brings one license at
most, for the payment of its own session, and none is lost unless something
fails. Two limits of it are visible in the model and contradicted by no
document: after an error the event stays recorded, so Stripe's retry is
answered 200 and the customer has no license (`stripe_handlers.rs:208`); and
two events of one session may bring a license each, because the `FOR UPDATE`
(`stripe_handlers.rs:256`) runs outside a transaction and locks nothing
beyond its statement.

*Archival.* The job's two statements, `CopyBatch` and `DeleteCopied`, are one
transaction; the sweep and `POST /run` may both be between them with the same
rows. `ReadPolicies` is a step of its own because a job reads all policies
before it applies the first, and `SetRetention` may come between.
`RemovedIsKept` is the comment at `archival.rs:508`, together with the promise
that nothing live or completed is taken. `NonceOpensOnce` is I6 where it meets
archival: the row that is deleted held the nonce in its unique index, so that a
replayed initiation is refused by its age alone. It holds because a row is not
deleted before the signature is too old for any handler, which is
`ArchivalAssumption`: every retention is at least two freshness windows and a
handler's time. The seeded 90 days against 300 seconds satisfy it by far;
`PATCH` accepts any number of days, also none, and the environment sets the
window, so it is the operator who has to keep it. The history of a deleted
transfer goes with its row (`ON DELETE CASCADE`, migration 20260625000000, line
45) and is not copied: the trail keeps the row in its last state only. I5
("history is append-only", `handlers.rs:6596`) is meant, and shown in section 4,
for rows that are still there. `MaxDelay`, a handler's time, is an assumption on
the environment like `MaxStay`.

Bounds. Two voters, one delegating to the other, with powers 0, 1 or no row, and
one delay: every vote, re-vote, change of power and evaluation before, in and
after the window. Two proposals (one ordered) over three signers with threshold
two: approvals that overtake each other, rejections between them, updates of
the wrong contract. Three calls, one permit, a queue of two: somebody waits,
somebody times out, the queue is full. Four requests with limits 2, 2, 2 and 1
over windows of two and one: windows slide and stamps overtake. Four rows, pages
of two, two pages, three items: each bound of a walk ends it before the others.
Two servers, two requests, one write: `GoodRequest` in `RecordProofs` was checked
with longer times to live. Three events, two of them of one session, with two
deliveries and two faults: a retry meets each point of the first attempt.

Two jobs, two transfers of two signatures signed at different times, batches of
one and retentions of 3 and 4, where 3 is the least that the assumption admits:
jobs overlap on one row, a second row becomes due between copy and DELETE, a
stale policy meets a new one, and a replay comes in the last moment. Shorter
retentions, or a freshness check on one side, break `NonceOpensOnce` within the
same bounds.

Fairness, for the queue only: the ping task runs, a ping returns, and tokio
polls a request that can go on. Clients need not come.

## 8. Runs

| Run | Configuration | Expect | Shows |
|---|---|---|---|
| indexer_any | `Indexer_any.cfg` | pass | types, `NoLedgerSkipped`, `CatchesUp` with reorgs, a failure and a stop anywhere |
| indexer_quiet | `Indexer_quiet.cfg` | pass | `HashMatchImpliesCurrent`, `EventuallyCurrent` when reorgs spare cycles and checkpoints |
| indexer_fallback | `Indexer_fallback.cfg` | violation | recovery may move the cursor forward |
| ownership_safe | `Ownership_safe.cfg` | pass | I6 and the refinement, which covers I1, I2, I4, I5 |
| ownership_live | `Ownership_live.cfg` | pass | requests end, past-due transfers close |
| ownership_i3 | `Ownership_i3.cfg` | violation | completion after expiry |
| usdc_safe | `Usdc_safe.cfg` | pass | `OneLicense`, `LicenseOfClaim`, `NothingSkipped` |
| usdc_live | `Usdc_live.cfg` | pass | `CatchesUp` and the refinement |
| usdc_lost | `Usdc_lost.cfg` | violation | paid, passed, without a license |
| publish_any | `Publish_any.cfg` | pass | answers, audit entries and settlement under one key |
| services_any | `Services_any.cfg` | pass | the properties of section 7, each part alone |
| queue_leak | `Queue_leak.cfg` | violation | a client that hangs up while it waits is counted for ever |

Deadlock is checked in every run but the last two, where the system may stop:
the clock of `services_any` ends at its bound (and with it archival), every request of the limiter has
been sent, Stripe has nothing more to deliver; in `queue_leak` no client need
come. Elsewhere it cannot hide a stuck process where the
environment can still move, which is what the liveness properties are for.

Observations that are no finding, because nothing in the repository says
otherwise: a state row that cannot be read at start is taken for height 0
(`main.rs:129`), which costs time and skips nothing; a past-due transfer blocks
its contract until somebody expires it (`handlers.rs:6774`); PATCH may
overwrite an owner installed by a transfer after its check; a contract
committed before a failure has no audit entry for good (`handlers.rs:4881`).
The webhook worker is not modelled because none of its states can be reached:
the check constraint on `notification_delivery_logs.status` (migration
20260601000000) admits neither `pending` nor `processing`, and no code reads
the table that `webhook_events.rs` writes.

## 9. What is proved

`IndexerProofs`, for every value of the constants that satisfies
`IndexerAssumption` (batches are not empty, bounds are naturals, `None` is no
fork):

* `TypeCorrect`: `Spec => []TypeOK`. The types alone are not inductive: that the
  cursor stays within the chain needs `InBatch`, that it is below the end of
  the batch from `GetLatest` to the last insertion.
* `NothingSkipped`: `Spec => []NoLedgerSkipped`. The row is loaded by `Start`,
  published by `EndCycle` and written back by `Shutdown`, so the property of
  the row alone is not inductive. `IInv` states it for all three copies of the
  state (`Covered(row)`, `Covered(st)`, `Covered(snap)`). The argument: no step
  removes an indexed ledger (`ContractsGrow`, which is `ON CONFLICT DO
  NOTHING`), so what was covered stays covered (`IndexedGrows`); the only step
  that raises a cursor inserts the ledger after it (`NextIndexed`); every other
  assignment copies a covered state or takes its checkpoint.
* `HashComparisonSuffices`: `ShallowReorgs` and `QuietReorgs` imply
  `Spec => []HashMatchImpliesCurrent`. `HashInv` claims of every copy of the
  state that its hash belongs to a fork the chain has had (`HashKnown`), so that
  no later ledger can have it; that a match means a current prefix whatever the
  task is doing (`HashTells`); and that a state without a hash, with which the
  comparison is skipped, stands on a ledger that was a checkpoint (`Anchored`).
  `BatchInv` carries the comparison to the end of its batch, `ChainInv` keeps
  the checkpointed prefix. A task step that touches neither chain nor copies
  keeps all of it by `SoundKept`; `HashClose` and `HashReorg` are the
  environment. The attempt corrected the model: it does not suffice that a reorg
  spares the checkpoints that are stored now, because a start that cannot read
  the row (`LoadFails`) sets the stored checkpoint back, and a reorg may then
  replace a ledger that was a checkpoint before. `settled` remembers the highest
  one, and `ShallowReorgs` speaks of that.

`OwnershipProofs`, from `OwnershipAssumption`:

* `TypeCorrect`: `Spec => []TypeOK`, by `OwnInv`: a request at its decision
  holds the transfer's row (`CallsFit`), and what the sweeper has claimed it
  holds and is still live (`SweptHeld`), so nobody decides it between the
  sweeper's SELECT and its UPDATE.
* `SignatureIsSingleUse`: `Spec => []SignatureOpensOneTransfer` (I6), from the
  unique index, whatever interleaves.
* `TransfersImplementHistory`: `Spec => Implements`. `StepsOnTables` reduces each
  action to what it does to the three tables (`Creates`, `Closes`, `Completes`,
  `HandsOver`); each of those is a step of the promise.
* `DecidedOnce`: one live transfer per contract (`OneLive`, I1), and every
  transfer's log is its opening and one decision, the one its row states
  (`LogTellsRow`, I2 and I4).

`UsdcProofs`, from `UsdcAssumption` (pages are not empty, bounds are naturals, the operators' requests are requests, and the
constants that stand for no intent are none):

* `TypeCorrect`: `Spec => []TypeOK`, by `TypeInv`: `CallsFit` says that a
  running handler serves a payment of the chain and, past its first SELECT, an
  intent that exists; `ScanFits` that a waiting scanner has a payment at hand.
* `AtMostOneLicense` and `LicensesMatchClaims`: `Spec => []OneLicense` and
  `Spec => []LicenseOfClaim`. The tables alone are not inductive: between the
  claiming UPDATE and the INSERT, and between the INSERT and the last UPDATE,
  what is true rests on a handler. `ClaimInv` adds that a handler past its claim
  holds the claim (`Held`), that no two do for one intent (`HeldOnce`), that
  nothing was issued before its INSERT (`Unissued`) and one license was after it
  (`Issued`), and that no transaction is held twice (`TxOnce`, which is the
  UNIQUE constraint on `tx_hash`).
* `PurchasesImplementLedger`: `Spec => Implements`, that is
  `Spec => Ledger!Spec`. Every statement maps to a step of the ledger or to a
  stutter; the licensing step needs `Held` and `Unissued`.
* `CursorSkipsNothing`: `Spec => []NothingSkipped`. `CursorInv` states the
  property for the saved cursor and for the scanner's place on its page, and
  ties the answer the scanner waits for to that payment (`WaitFits`). The
  argument: no step undoes a claim, an hour or a refusal (`Grows`), so what was
  accounted for stays so; the place moves only past a payment whose answer
  accounts for it; and only the place is ever saved.

`PublishProofs`, from `PublishAssumption` (bounds are naturals, every key has a
body, and `None` and `Locked` are values of their own), whether entries expire
or not:

* `TypeCorrect`: `Spec => []TypeOK`.
* `AnswersAreMine`, `AnnouncedOnce`, `RefusalsHaveReasons`: `OkIsMine`,
  `OnceEach` and `RefusedIsTaken`, all from one invariant `Inv`. A handler's
  body is its key's and its outcome fits the database (`RequestsFit`); a stored
  response is the row of the key's operation (`StoreFits`); between the INSERT
  and the event a contract has exactly one handler (`Alone`) and its counters
  are where that one has brought them (`Counted`). `Alone` comes from the
  INSERT, which finds the address free, and not from the lock: nothing in the
  proof says that a lock excludes anybody. Rows are never changed or removed,
  so everything that rests on one is kept.

`ApprovalProofs`, about governance from `GovernanceAssumption` and
`WallClockAssumption`:

* `GovernanceType`: `GovSpec => []GovTypeOK`. That the power of a vote is a number
  needs that a sum over a finite set of delegators is one. `TotalCounts` shows it,
  by counting pairs (`Cells`): the recursive function behind the fold is compared
  with a cardinality, for a smallest set on which they would differ.
* `GovernanceTally` and `GovernanceFinal`. `GovIInv` adds the clock to the
  property: a decided status implies that the window is over, an executed one
  that the delay is, and a vote that is still in its transaction excludes an
  execution, because it holds the proposal's row. These two do not look into what
  a set of votes amounts to, so they do not depend on how power is counted.

and about multi-signature approvals from `MultisigAssumption`:

* `MultisigType`, and `MultisigUpdates` by `GrantedIsBacked` (a granted proposal
  has its approvals and no rejection), `OpenIsClean` (an open one has no
  rejection), and `UpdatesGranted` and `WrittenGranted`, by which what an update
  once read stays true.
* `MultisigOrder`: `MsSpec => []OrderedFromTheFirst`. The code checks the order
  through a count, which tells the next signer because those who decided are the
  first ones of an injective list (`OrderedNext`).
* `MultisigTrail`: `MsSpec => []TrailTellsState`. `CountOne` and `CountTwo` say
  what an append does to the number of entries of a kind, `TrailNext` that a step
  appends what it does to the row and the signatures.
* `MultisigPromise`: `MsSpec => KeepsPromise`, where every commit maps to a step
  of the promise or to a stutter.

`TrafficProofs`:

* `QueueType` and `QueueCounters`: `ResSpec => []CountersTellStages`, from
  `ResilienceAssumption`. Counters are compared with cardinalities of sets of
  requests; `MoveCounts` says how those change when one request moves from a stage
  to another, and `QueueStep` applies it to each action. The theorem states by how
  much the code's counter is off, for any number of requests.
* `LimitType`, `LimitWindows`, `LimitCauses`, `LimitRetry`: `LimitTypeOK`,
  `WindowsRespected`, `RefusalsHaveCause`, `RetryAfterSuffices`, from
  `RateLimitAssumption`. `Tracks` relates a bucket's stamps to admitted requests,
  one by one, and says that none whose window is open is missing; `Lagged` that
  stamps are out of order by no more than `MaxLag`, so that a trim from the front
  and an eviction of a stale bucket (`StaleTracks`) drop nothing that counts. A
  window's bound is the length of such a sequence (`InjectionBound`,
  `CoverBound`). The assumption is that a request waits for the mutex less than a
  window, and that the burst window and that wait are not longer than two windows:
  eviction looks at the main window only, after twice its length. The defaults
  are 60 s and 60 s (`rate_limit.rs:73`, `107`); an operator who sets
  `RATE_LIMIT_WINDOW_SECONDS` to half of the burst window or less leaves it.
* `WalkType` and `WalkFaithful`: `SearchSpec => []WalkIsFaithful`, from
  `SearchWalkAssumption`. `IsCut` holds of every page, kept or new: its rows are
  exactly those that matched when it was cut, from its cursor down to where the
  next one starts. `WalkInv` then says that whatever the walk has seen or given
  lies at or above its cursor, and that what matched in every page so far has
  been given down to it.

`ServicesProofs`: `ServicesType`, `MCSpec => []ServicesTypeOK`: in the
composition the part that runs keeps its invariant, and the others only see the
clock move (`IdleTypes`, `IdleInvs`).

`RecordProofs` has the rest.

About `ReadCache`, from `ReadCacheAssumption` and `WallClockAssumption`: `CacheType`,
`CopiesAreYoung` and `ClearedStaysCleared`. `CacheInv` follows a version on its
way: what a request holds was current when the request began, or came from a
copy in Redis that itself was current when the request before it began
(`GoodRequest`); a copy outlives what it holds by one time to live more
(`GoodL2`, `GoodL1`). The bound is the sum, because nothing goes from a server's
memory to Redis. `AloneMeans` carries `alone` through a write: while it stands,
the write is the only request, and its server's memory is empty once cleared.

About `StripeCheckout`, from `StripeAssumption`: `StripeType` and `LicensedOnce`. An event
has one delivery beyond `RecordEvent` at most (`OneHandler`), since the INSERT
finds it new for one of them; the number of its licenses is then told by the
stage of that delivery (`HandlerKnows`). `FaultlessIsLicensed` carries the last
conjunct: without a fault a recorded event has a license or a handler.

About `Archival`, from `ArchivalAssumption` and `WallClockAssumption`:
`ArchiveType`, `DeletedIsCopied` and `SignaturesAreSingleUse`. `ArchiveInv` adds
what the jobs hold in their hands: what was copied is finished, so that no
decision can change it any more (`CopiesFit`), and every cutoff lies
`LeastAge` back (`CutoffsFit`). From this a deleted row is older than that
(`RemovedIsOld`), while a handler that may still insert began within one
freshness window of the signature, and the first row was not created more than
one before it: `NonceIsNew` adds the three up.

Proved, then, is every invariant, action property and refinement of a passing
run, for all values of the constants. Only model-checked is liveness, because it
rests on fairness and on what is enabled, which is beyond the prover:
`CatchesUp` and `EventuallyCurrent` of the indexer, `CatchesUp` of the payment
scanner, `EveryRequestEnds`, `PastDueCloses`, `EveryKeySettles`, `AdmitsAgain` and
`OutageOpens`. The findings are counterexamples and need no proof.

The assumptions on constants are natural numbers, positive where the code needs
it, finite sets of requests, calls and voters, and values that stand for nothing
being different from all others. Those that say more, because the code relies on
them without enforcing them, are the limiter's (above), archival's (section 7), and
`ShallowReorgs` and `QuietReorgs` (section 3), which only the one theorem uses.

## 10. Not modelled, and plan

The repository has some 165 000 lines in 400 files, most of them request
validation, SQL text, response shapes, the command line client and the analyses
of uploaded code. The modules cover the places where more than one actor, or one
actor and a failure, reach the same state; what is left falls into four kinds:

* single statements and reads behind an authorisation check (contract CRUD,
  canary releases, A/B tests, patches, incidents, deprecation, license
  verification and revocation, tagging, usage counters);
* pure computations over their input (ABI parsing, type safety, simulation,
  recommendation, validation, routes), where a unit test says as much;
* process and network I/O around a hash comparison (verifier, seeder, CLI);
* code without reachable state: the webhook worker (section 8), and the types
  of `models.rs`.

Limits of what is modelled. The fall-back store of idempotency keys and the
reuse of a key for another body (`handlers.rs:4594`, which replays the first
contract); the HTTP client's own response cache; how a path selects its bucket
in the rate limiter, a bypass counter that is compared before it is added to,
and Retry-After for a client whose limit is smaller than what others of its
bucket were granted; the verification and access caches, which are local; the
cache warm-up. `update_contract_status` writes its row and its history by two
statements; no document says that they agree.

To come, the most important first:

1. Consequences across modules of what is proved: what the promises
   (`OwnershipHistory`, `UsdcLedger`, `ApprovalPromise`) guarantee by themselves.
2. Paging and the publisher upsert of the indexer's writer.
3. `DependencyGraph` and `Semver`: pure operators against reference definitions
   over bounded inputs.
