# Verification of the payment gateway sandbox

TLA+ modules that model the gateway's core, TLC configurations that check them
on small instances, and proofs, checked by TLAPS, of what matters most for
instances of every size. Paths below are relative to `src/crates/` unless they
start with `src/`.

## 1. Inventory

The gateway is one Rust process over one Postgres database. HTTP handlers (tokio
tasks) and one job worker per process run concurrently; several processes may
share the database. All state that matters is in tables, except the API key cache.

| component | state it keeps | operations | correct when |
|---|---|---|---|
| orders (`engine/order.rs`, `store/src/order.rs`) | `orders` | create, list | paid exactly when a payment was captured; a paid order never changes |
| payment engine (`engine/payment.rs`) | `payments`, `orders`, `events`, `jobs` | create (an attempt), capture | one capture per order; rows, books and outbox change together |
| refunds (`engine/refund.rs`) | `refunds`, `payments` | create | never more than was captured, whoever races; the fee that goes back sums to the fee |
| fees and money (`engine/fees.rs`, `domain/src/money.rs`) | none | compute, proportional reversal; checked arithmetic, format | slices of a reversal add up; nothing leaves the range of an `i64` |
| ledger (`engine/ledger.rs`, `store/src/ledger.rs`, `domain/src/ledger/`, two migrations) | ledger accounts, transactions, entries | post a capture, post a refund, find or create an account, balances | every transaction balances, whoever wrote it; balances follow from the rows; one account per merchant, type and currency |
| locks (`store/src/tx.rs`) | row locks of open transactions | begin, commit, rollback | what was read under a lock stands until commit; no circular wait |
| simulator (`simulator/`) | none | decide | a test card and an amount decide an outcome |
| job queue (`queue/`, `store/src/job.rs`) | `jobs`; a worker's batch | enqueue, claim, execute, record, reap | a job is claimed by one worker at a time, within its lease; every job ends, and stays ended |
| webhooks (`webhooks/`, `store/src/webhook_delivery.rs`) | `webhook_deliveries` | emit, deliver | completed means accepted; duplicates only where something failed |
| webhook endpoints (`api/routes/webhook_endpoints.rs`) | `webhook_endpoints` | register, list, disable | the cap holds up to what races past its count |
| idempotency (`api/middleware/idempotency.rs`) | `idempotency_keys` | acquire, complete, release, replay | the work behind a key is done once and every answer is true |
| request timeout (`api/middleware/timeout.rs`) | none | drop a request's future | nothing half-done is left behind |
| authentication (`api/auth.rs`) | the key cache and touch throttle of a process | look up, store, evict, touch; headers, scopes, challenges | revocation takes effect within the TTL; a failed lookup is never "invalid key"; nothing happens without a scope |
| layers, errors, extractors (`api/routes/mod.rs`, `api/error.rs`, `api/extract.rs`, `api/validate.rs`, `store/src/error.rs`) | none | refuse, map an error, answer | an answer tells whether the request left something behind |
| pagination (`api/pagination.rs`) | the client's cursor | fetch a page | no duplicates, no gaps |

How they interact. A request passes the request id, panic, timeout, authentication
and idempotency layers (`api/routes/mod.rs`) and reaches a handler, which checks
its scope and its input and calls the engine. The engine runs one transaction that
locks rows in rank order, posts to the ledger, and inserts events, delivery rows and
jobs for the endpoints that it listed *before* the transaction. The worker claims
jobs in short transactions, runs the delivery handler outside of them, and records
the outcome by id. On the way back the idempotency layer keeps or forgets the
answer.

What is hard: transactions of several requests interleave between any two
statements; a timeout, a client that hangs up, a panic or a crash drops a request
between any two statements; a commit's or an endpoint's answer may be lost;
outcomes arrive after a lease has expired; cached, counted and prefetched values are
used late; SQL that bypasses the domain layer writes next to it. `PROJECT.json` lists
each hazard at its line, with the properties aimed at it.

## 2. Modules

| module | models | state |
|---|---|---|
| `Simulator` | the simulator's decision and its mapping to engine outcomes | none |
| `Fees` | fee schedules, rounding, the proportional reversal | none |
| `Money` | amounts at the width of an `i64`, the currencies | none |
| `Postings` | what captures and refunds post, and the balance check | none: operators on a *position*, the sums one payment has contributed to each account |
| `Books` | the ledger row by row: accounts, transactions, entries, both layers that balance them | committed tables, the writes of open transactions, the statement each session is at |
| `PaymentEngine` | orders, attempts, captures, refunds, ledger, outbox, locks | tables, locks, and the program counter, request and view of each running request |
| `Collection` | abstract: what the engine promises about the money of an order | due, collected, returned |
| `JobQueue` | the jobs table, the workers and their leases | rows, worker states, batches, relative time |
| `WebhookDelivery` | the delivery handler on top of `JobQueue`, whose `Handle` it opens up | the queue plus delivery rows, endpoints and the handler's phase |
| `Idempotency` | the idempotency table and its protocol, around any work | key rows, the statement each request runs next, what it was told |
| `HttpApi` | the layers, extractors, checks and error mapping around every route | the layer each request is in, its caller, what was returned and answered, key rows, endpoints |
| `AuthCache` | key lookups, the cache, revocation and the touch throttle | the two maps, the clock, the lookups in flight |
| `Pagination` | a client paging through a list while rows are inserted | rows' dates, the cursor |

| proofs in | about |
|---|---|
| `PaymentEngine_proofs` | types and current views, one capture per order, bounded refunds, nobody waits in a circle |
| `PaymentEngine_books` | rows move forward, the schema's checks hold, the engine implements `Collection`; the ledger, the outbox and the accounts follow from the rows; tenants stay apart |
| `Books_proofs` | racing jobs share an account, no posting is refused, balances are what was posted, every transaction balances although each deferred check sees a part of it |
| `WebhookDelivery_proofs` | the queue (leases, exclusive claims, counted runs, ended jobs; workers as late as they like), then the deliveries on it (accepted, explained duplicates, lockstep, claimable) |
| `Idempotency_proofs` | holders of keys, work done once, true answers |
| `HttpApi_proofs` | answers that tell, outages, authority, completeness, the cap on endpoints; the layers implement `Idempotency`, and what follows from that |
| `AuthCache_proofs` | revocation, rejections, both bounds of the cache |
| `Pagination_proofs` | nothing twice, complete walks |

Which module composes which: `PaymentEngine` is built from `Fees`, `Postings` and
`Simulator` and refines `Collection`; `Books` is built from `Money` and `Fees` and
checks its rows against `Postings`, the sums `PaymentEngine` works with;
`WebhookDelivery` extends `JobQueue`; `HttpApi` has the whole middleware that
`Idempotency` has the protocol of, holds the mapping between the two and implements it.
`MC*` modules give TLC their constants and symmetry sets.

### How the state corresponds to the code

*PaymentEngine.* A request is a task whose `pc` names the next statement that can
be observed: `lock_payment`, `lock_order` (the two `SELECT ... FOR UPDATE`),
`sum_refunds`, `account` (the insert of a missing ledger account, which can block)
and `commit`. Rows read are copied into `view` and later writes are computed from
`view`, never from the tables, as in the code; so a missing lock shows. Writes
become visible at `Commit*`, all at once, which is what READ COMMITTED gives other
transactions. `Abort` drops a request at any point. `ledger[p]` is the sum of the
entries of payment `p`, per account: balances are sums in the code too
(`store/src/ledger.rs`). Row locks are kept for payments, orders and for the
unique-index entry of a merchant account being inserted. Locks that never conflict
here (the KEY SHARE locks of foreign keys on rows the transaction has already
locked, or on merchants) are left out.

*Books.* A job is one posting of the engine: `FindAccount`, `InsertAccount`,
`RereadAccount` are the three statements of `find_or_create`, of which the insert
waits while another open transaction has the key (`Taken`); `Post` builds every
transaction with the domain's checks (`Builds`) and writes header and entries. A
COMMIT first runs the deferred triggers: `Check` is one of them, for one of the ledger
transactions the session wrote entries of (`due`), with a snapshot of its own, and asks
`MustBalance` of the rows it sees. Only when none is due does `Commit` make
the writes visible, so that other sessions check, commit and roll back in between, unseen by
the checks. The trigger is FOR EACH ROW, and one `Check` stands for all rows a session wrote of
one ledger transaction: `Books_proofs!LedgerBalances` shows that a
transaction that balances for a session does so until it commits, so that a later check of
another row could not end otherwise.
What a session sees is the committed tables and its own writes. *Hands* are sessions
that write with SQL of their own, into new transactions or next to the entries of
the engine, since the second layer exists for them; `Mutate` is the UPDATE or DELETE
that the append-only trigger refuses. Entries of several pairs of one job are told
apart by their position.

*JobQueue.* `Tick` is the reaper and the claim, which run one after the other at
one clock reading; `TickLost` is a claim whose commit is lost. `Batches` are the
sets that `ORDER BY run_at LIMIT n FOR UPDATE SKIP LOCKED` may return. `Execute`,
`Handle`, `Panic` and `Record` are the steps of `Worker::execute`, and the time since a
job's `now` is kept in `since`: it runs while the handler does and while the outcome waits to be
written, up to `HandlerTime`, and the lease of every claim in the batch ages with it. Time is
relative (`runIn` and `age`), so the state space is finite without a bound on the clock.
The reaper looks at `locked_at` alone, so it may take a job from a worker that is alive;
`overtaken` remembers such jobs (`Reap`), and their holder goes on, as in the code.

*WebhookDelivery.* `deliver` is cut at its statements: load, send, record. The
endpoint is external: it takes the event and answers (`Accepted`), refuses
(`Refused`), or takes it and its answer is lost (`AnswerLost`). A job and its
delivery row are one identity since `emit` inserts them in pairs.

*Idempotency.* `Insert` and `Select` are the two statements of `acquire`, each of
which may fail; `Execute`, `Complete`, `Release` follow `guarded` and `record`. The
handler is any work that commits at most once per run and ends in a success, in a decline
(committed work too, but told as a 402), in a refusal or in a failure. `Drop` is a dropped
future, `CommitLost` a commit whose acknowledgement is lost.

*HttpApi.* One action per layer and per database call: `Authenticate`, `Insert`,
`Select`, `Handle` (extractors, scope, validation), `Read` (the lookup or the count
before a write), `Work`, `Record`; `Timeout` and `Panic` drop what is inside them.
A request is a record of what the checks see of it (`Call`): a header value is its
length, its alphabet and the key it names, a body is the kind of thing the extractor
finds in it. An answer is its status and code, whose data it shows, which request
was executed for it, its ids, its challenge and whether it advises a retry. The
engine's services are one step each, which ends in one of the errors they may return.
`Promise` maps the requests that name a valid key to those of `Idempotency`: `Lines` are
the rows with their responses told by kind, `Steps` the statement each is at (every
handler stage is "execute"), `Workers` those whose work is committed.

*AuthCache.* One lookup is `StartLookup` (the clock is read), `FindActive` (the
query) and `Resolved`, `NotFound` or `Unavailable` (the store), which interleave
with revocations and other lookups; both sweeps use the clock reading of the
request, not the current time.

*Pagination.* `Queried` is the SQL query with every order of ties that `ORDER BY
created_at DESC` allows, `Pages` the truncation, `NextBefore` the cursor.

## 3. Runs

Sizes are in the .cfg files. Every passing run visits its whole state space.

| run | shows | bounds and why they are enough |
|---|---|---|
| `engine_safety` | current views, one capture per order, refunds within the payment, ledger reconciles, outbox matches, schema checks hold, no deadlock, rows move forward, and the engine implements `Collection` | 2 requests, 2 orders, 2 payments: two attempts or captures race on an order, two refunds on a payment. Amounts 99 (refused), 105 (risk review), 150; refunds of 0, 70 or all, so partial, second, final and excessive slices all occur, with rounding of fee and tax |
| `engine_live` | every request that starts is answered; nothing crosses a tenant | 2 requests on 2 payments of one order: they wait for each other at the lock of a payment (two requests for one) and of the order (two captures, two attempts, one of each). 2 merchants, either of which places the order, and an endpoint that takes `order.paid`, registered and disabled around the prefetch. Who waits for the insert of an account (two orders of one merchant) is in `engine_safety`, where `NoDeadlock` has it |
| `books` | every committed transaction balances in every currency, racing jobs share an account, no layer refuses the engine's postings, the rows sum to what `Postings` says | 2 payments that race for one account; a full refund and one of a single unit, which returns no fee; 2 hands with a pair in another currency, or with one of two halves that cancel across currencies and balance only together, added to each other's transactions or the engine's; 1 rollback anywhere. Several merchants are in the proofs |
| `http` | an answer tells whether anything was written, outages are not denials, nothing happens without authority, answers are complete, endpoints are bounded, the API drives its keys as `Idempotency` says | any 2 of 41 requests in any interleaving, 1 failure anywhere, a cap of 2 with one endpoint there. Two requests suffice for a race on a key, a replay, a replay to another caller, and a registration that overtakes another; each layer's refusals occur with and without a key |
| `queue_slow` | claims are exclusive, runs are paid for and ended jobs stay ended, but for jobs whose holder was overtaken | 2 workers, 3 jobs of which 2 are claimed together, one of an unknown kind and one that panics; 1 crash, lost claim or lost outcome; a handler may take twice the lease, so the reaper takes jobs in hand and outcomes come after another worker claimed, ran or ended the job |
| `queue_poison` | **violated**: an abandoned job runs again | one crash |
| `queue_panic` | **violated**: good jobs settle although another panics | none |
| `delivery` | completed means accepted, duplicates are explained, row and job in lockstep without faults, pending jobs can be claimed, deliveries settle | 2 deliveries to 2 endpoints, a ladder of one rung, one fault anywhere |
| `keys` | one holder per key, charges explained, answers true, keys settle | 2 sendings of a request, a different request with its key, 2 sendings of one with an oversized response; 2 faults |
| `keys_swept` | **violated**: an in-progress key is swept | 1 fault |
| `auth` | revocation within the TTL, rejections true, cache bounded, touches spaced | 2 lookups in flight, 2 issued keys and a guessed one in a cache for 2, so that it must sweep and clear; the clock runs past a TTL and a touch interval |
| `pages` | nothing is returned twice, nothing that was there is missed but ties | 5 rows, 4 dates, pages of 1 and 2, two rows per transaction: up to five pages, with ties inside and across pages |

`CHECK_DEADLOCK FALSE` appears where the system really comes to rest: all jobs
ended, all requests answered, all postings done.

Each property of a passing run has a mutant: a plausible bug, written beside the
definition it replaces, under which TLC finds the property violated.

Nothing in the code makes a worker finish its batch before its lease expires. `FitsInLease`
(`BatchSize * HandlerTime <= LeaseTimeout`) says that it does; it is no assumption of
`JobQueue` but a premise of what needs it. With the defaults it is usual and not
certain: ten deliveries of 10 s each take 100 s of the 300 s (`queue/worker.rs:51`), but each of
their five statements may wait up to 5 s more for a connection (`store/src/pool.rs:21`), 350 s in
all. So `queue_slow` has handlers that outlast the lease, and without the exception in
`EndedIsFinal` TLC finds it violated there; that nobody is overtaken where a batch fits is
`LeasesStayKept`, proved and not run. `delivery` has a batch that fits with no slack: the
deliveries are modelled, checked and proved under `FitsInLease` only: of two workers that
handle one delivery at a time nothing is said. `AuthCache` assumes that a lookup may take
less than a TTL and less than a touch interval (2 s against 5 s and 60 s).

### Fairness

*Engine.* `FairSpec` gives strong fairness to the steps of a request: Postgres
queues the waiters of a row lock, so one that waits while the lock is repeatedly
freed gets it. Arrivals, aborts and endpoint changes carry none; in particular no
wait is resolved by assuming that a timeout fires.
*Queue and delivery.* Weak fairness of the worker's steps (the runtime polls it),
of the passage of time and of a restart (the process is supervised). Crashes and
faults carry none and are bounded by `MaxFaults`.
*Idempotency.* Weak fairness of the steps of a request that was sent; the
runtime polls it. *Books*, *HttpApi*, *AuthCache* and *Pagination* have safety
properties only.

## 4. What disagrees with the code

Three statements of the repository are refuted by runs:

1. `queue_poison`: `claim_batch` adds one to `attempts` unconditionally, and the
   CHECK `jobs_attempts_bounds` refuses `attempts > max_attempts`. A job abandoned
   on its last attempt is made pending by the reaper and then fails every batch
   that contains it: instead of running again, it stops the queue.
2. `queue_panic`: nothing catches a handler's panic (`task::unconstrained` does
   not); it ends the process's only worker task.
3. `keys_swept`: nothing calls `purge_expired`; an `in_progress` key answers 409
   for ever.

Noted while modelling, without a run of their own.

*Keys and answers*
- A lost acknowledgement of a commit is a 5xx, a 5xx releases the key, and the retry
  does the work again. `ChargesAreExplained` names this and the oversized response
  as the only ways to do work twice. `AnswersTellWhatHappened` therefore says nothing
  of a 500.
- A lost acknowledgement of `acquire`'s INSERT is a 503 ("try again"), and the retry
  meets its own row: 409 for ever.
- When `complete` fails, the comment says that a retry re-executes
  (`api/middleware/idempotency.rs:215`); the row stays `in_progress` and the retry
  gets 409. A panic answers 500 and does not release the key either.
- `record` sends an oversized response with an empty body, although its comment
  says that the caller still gets the response (line 184). The text of an
  order's notes is not bounded, so a success can be oversized. A decline of the same
  request is small and is kept: it names the payment and leaves out its notes.
- The replay precedes the scope check and the extractors: a recorded 403 or 400 is
  replayed to a retry that is properly scoped.
- A replayed error body carries the request id of the first request, its header the
  id of the second.
- A body over the limit is a 413 with a key and a 413 without; a body that cannot be
  read is a 413 with a key and a 400 without.
- The migration of `idempotency_keys` says the same key on another route is
  distinct; the primary key has no route and the fingerprint answers a mismatch.
- A preflight is answered before a request id is made, where `api/routes/mod.rs:20`
  says that every response carries one; the 503 of `/health` is not in the error
  envelope.
- A database outage inside a handler is a 500, inside a layer a 503
  (`api/error.rs:216`).

*Ledger*
- `store/src/error.rs:82` matches SQLSTATE 23001, but the triggers raise
  `integrity_constraint_violation`, 23000: `StoreError::LedgerIntegrity` is never
  produced. Both end as a 500.
- Neither layer checks that the currency of an entry is that of its account, and a
  header without entries passes the second layer.
- `store/src/tx.rs` says that ledger accounts are locked in the order of their ids;
  nothing locks them. `SUM(...)::bigint` can overflow where the balance of an
  account exceeds an `i64`.
- `Money::add`, `sub` and `format` are called by tests only. `negate` is called by
  `LedgerEntry::debit` (`domain/src/ledger/ledger_entry.rs:50`) on a positive amount, which
  always fits.

*Queue, webhooks and the rest*
- "Dead jobs are never claimed again" (`store/src/job.rs:372`): `complete` and
  `fail_and_reschedule` name the id alone, so the retryable outcome of a worker that the
  reaper overtook makes a job pending that died in another worker's hands, and it is claimed
  again. `EndedIsFinal` says that nothing else revives a job.
- Delivery row and job count attempts in separate statements; one failed
  `record_attempt` separates them for good, against "stay in lockstep"
  (`webhooks/worker.rs:8`). `LockstepWithoutFaults` is what does hold.
- A database error while a delivery is loaded is `Permanent`
  (`webhooks/worker.rs:61-71`): the job dies and the row stays pending.
- `open_dispute` and `resolve_risk_review` jobs have no handler yet.
- The comment on the endpoint cap speaks of one over it, and that of the list says that it
  "cannot exceed sixteen rows" (`api/routes/webhook_endpoints.rs:107-110`); n concurrent
  registrations can exceed the cap by n - 1 (`EndpointsAreBounded`).
- A settlement's two events share one `created_at`, so the ties at page boundaries
  that `api/pagination.rs:26` calls rare are systematic in `/v1/events`.
- `should_touch` says "at most once per interval"; requests arrive out of the
  order of their clock readings and a later-dated sweep can shorten the interval
  by as much as a lookup may take (`TouchesAreSpaced` is the exact bound). The map
  of touches is swept, never cleared, so it is not bounded by the capacity.
- `amount_override` says "regardless of card"; only plain successes are overridden.

## 5. Proofs

Proved with TLAPS for every value of the constants, from the assumptions the
modules state: tables of any size, any number of concurrent requests and workers.

What the modules assume of their constants:

| module | assumption | because |
|---|---|---|
| `PaymentEngine`, `Books`, `Money` | amounts are positive and have the width of an `i64`, a refund is within its payment | the domain's constructors and the columns |
| `Books` | there are finitely many payments; the fee of each fits in an `i64` | `FeeSchedule::compute` fails otherwise, before anything is posted (`engine/fees.rs:40-59`) |
| `Books` | hands have names of their own, and write finitely many entries at a time | one INSERT |
| `WebhookDelivery` | a batch fits in its lease (`FitsInLease`), as a premise of its theorems and of `LeasesStayKept`; the other theorems of the queue do without | the defaults allow for 20 s a delivery beyond the send, see section 3 |
| `WebhookDelivery` | a delivery job has one attempt more than its ladder has rungs | `scheduler::MAX_ATTEMPTS` and the ladder's length, `engine/event.rs:62` |
| `AuthCache` | a lookup takes less than a TTL and less than a touch interval | the lookup timeout |
| `Pagination` | the rows there will ever be are finite, and their dates have a latest | a run inserts finitely many; it makes the walk's first cursor a date |
| `HttpApi` | each request's route, body and key are of the kinds the tables of the module list; no merchant starts over its cap; `None` is no response | what the enumerations name is all the router and the extractors tell apart; an `Option` is not what it holds |

### The engine

**`PaymentEngine_proofs!TypeCorrect`**: `Spec => [](TypeOK /\ ViewsAreCurrent)`. The
type invariant alone is not inductive: a commit writes a row computed from
`view`, and that the result is a row needs the view to be one. `ViewsAreCurrent`
says, for each point a request has reached, which locks it holds, that its view is
the table's row, and that the checks it made on it still hold. It is preserved
because a commit changes only rows whose locks its task holds (`CommitKeepsViews`)
and every other step changes no row (`Frame`); one lemma per action.

**`PaymentEngine_proofs!CollectedOnce`, `RefundsBounded`, `ReadsStayCurrent`**: the inductive invariant

    Inv == TypeOK /\ ViewsAreCurrent /\ RowsSound /\ OneCapturePerOrder /\ RefundsWithinPayment

`RowsSound` adds what the two money properties need: amounts are positive, a
payment's order exists, and a payment that does not exist has no refunds. A commit
that captures holds the lock of its order and its view says "not paid", so by
`OneCapturePerOrder` the order has no captured payment, and it gets its first; a
refund's commit has a current total and an amount within the remainder. From
`Invariance` follow `CollectedOnce`, `RefundsBounded` and `ReadsStayCurrent`.

**`PaymentEngine_books!RowsMove`, `SchemaHolds`, `KeepsPromise`**: three results from one description of a commit.
`MoneyMoves` says what a step does to the rows: nothing (`StepMovesMoney`), or it places
an order, attempts a payment, collects one, or returns a part of one. Each form only
moves rows forward (`RowsMove`). `MoneyInvariance` adds to `Inv` that a
payment has the merchant, amount and currency of its order (`PaymentTerms`) and that rows pass
the CHECKs of the schema; `SchemaHolds` follows. Under the mapping of `Due`,
`Collected` and `Returned` each form is a step of `Collection` or a stutter:
`KeepsPromise`, the refinement, by a step simulation.

**`PaymentEngine_proofs!NobodyWaitsInACircle`**. Who waits for a payment holds nothing
of rank payment or above, who waits for an order holds at most a payment, who waits for an
account holds no account. In any set of tasks one waits for the highest rank, and what
it waits for is held by a task that waits for something of a higher rank or for
nothing: the argument takes the ranks from the top and needs no induction over the
set. `LockInv` adds to types and views that a lock's holder is past the step that takes it.

**`PaymentEngine_books!BooksFollow`**: `LedgerReconciles`. A capture opens the books at
`BooksAt(row, 0)`; a refund from `old` to `new` posts `Owed(c, new, a) - Owed(c, old, a)` of
each fee component, so that the sums telescope to `BooksAt(row, new)`, with
`Owed(c, 0, a) = 0` and `Owed(c, a, a) = c` (`OwedFacts`, from `DivFacts` on integer
division). Hence no slicing of a refund drifts.

**`PaymentEngine_books!OutboxTellsTheTables`** and **`TenantsStayIsolated`** share one
description of a commit (`OutboxMoves`): it adds to the outbox events of the one payment it
writes, of the types its change calls for, addressed to its own merchant (`Tells`).
`OutboxMatchesTables` is inductive relative to `Inv`: a payment that was just attempted
had no row and so nothing announced, and a refund's total is past all those announced. For
`TenantsIsolated` the invariant `TenantInv` adds that the list a request prefetched holds only
endpoints its merchant registered (`FanoutsOwned`), that the accounts are those of the settled
payments (`AccountsUsed`), and that every event has a payment (`EventsDelivered`); the
terms come from `MoneyInv`.

### The ledger, row by row

**`Books_proofs!BothCallersShare`**, from `AccountsInv`: a session has inserted at most its
own new account and only while it posts or commits, no two accounts have one key, whether
committed or in an open transaction (an insert waits for every open one with its key, so it
adds a key that nobody has), and a job sees the account it works with.
**`LedgerBalances`** is about checks that see only a part: of the sessions that add to a
transaction, each is checked on what was committed then and on its own rows, and none on what the
others have checked and not committed. Sums are what makes it hold. `ChecksStand`: a transaction
that a session has checked keeps balancing as the session sees it, whatever is committed
meanwhile, because what another session commits to it has itself been checked on top of rows that
balance, so its own part sums to zero (`OwnRows`, `TotalOfBoth`). When a session commits,
what it sees is what is there afterwards (`CommitBalances`). That there are two entries stands
because entries are only added (`TwoStay`).

**`PostingsAreAccepted`** and **`BalancesAreSums`**, from `BooksInv`. The
sums are folds over sets of rows, so first come the facts about such sums: that one exists
(`SumsExist`), that the order in which it is taken does not matter (`SumFromAny`), that it
adds up over disjoint sets (`SumOfBoth`). The library's induction theorems cannot be
instantiated here; what can is that the strict subsets of a finite set are well-founded, so
each of these facts is proved on a smallest set for which it fails (`SmallestSet`).
Then the postings: the transactions of a job have two or three sides that sum to zero, since
a zero share is skipped and a share never exceeds its fee (`TxnsAreFair`), so the first layer
takes them (`FairBuilds`), and together they give every account the amount that `Postings`
gives it (`TxnsGive`). `BooksInv` carries this over to the commit: an open transaction's rows
balance and are a share (`RowsOfJob`); nobody else has rows in it, because a hand adds only to
headers it sees, which are committed (`IsDone`): hence the second layer takes it too
(`JobsCheck`). The balances are stated of every account that is there or could still come
without a clash of keys (`Free`), for which they are zero: an account inserted later
needs no argument of its own. `PostingsAreAccepted` is about first refunds (`RefundOf`, one per
payment); slices after them are in `PaymentEngine`, as sums.

### Keys, queue and deliveries

**`Idempotency_proofs`**: `KeysHaveHolders`, `WorkIsDoneOnce` and `AnswersStayTrue`.
`complete` and `release` name the key alone, so the types need `KeyHasOneHolder` (the row
a request finds when it completes is the one it claimed), which is inductive with them: a
key that is held is not free, so nobody claims it, and a request writes only under a
key it holds or finds free. `ChargesAreExplained` needs `SpentKeysStay` besides: the
row of a key whose work is done and remembered is there, and nobody holds the key but
the request that did the work, about to complete it. Hence whoever executes finds no
such work under its key, and whoever releases releases none. `TruthInv` says what a
recorded response is worth: its work was done under its key for a request with its
fingerprint, so that a replay tells the truth about it.

**`WebhookDelivery_proofs`, the queue**: `ClaimsStayExclusive`, `RunsStayCounted`, `EndedStaysEnded`
and `LeasesStayKept`, from `QueueInv`. The row lock of a claim is gone with its commit, so what
tells claims apart is their attempt: each adds one, so two claims of one job differ (`ToldApart`,
`Issued`), and of those whose handler was not called each has an attempt to spend
(`Unspent`). A claim in hand whose row is not as the claim left it (`Held`) is of a job that
the reaper took from a living holder (`overtaken`, `ReapTakes`). None of this needs a bound on
the handlers. `LeasesStayKept` does, and its argument is about time. `InTime` says that the
age of each claim in hand, and the time of all handlers the worker still has to wait for,
fit in the batch's time and what the current handler has used up; where a batch fits in the lease
no claim in hand is stale (`HeldIsFresh`), so the reaper misses it.

**`WebhookDelivery_proofs`, the deliveries.** Every step of the handler is a step of the
queue's `Handle` or leaves the queue alone, so `QueueInv` carries over to `DeliverySpec`. The
theorems have the premise `FitsInLease`: a delivery row is written by whoever handles its job,
which is one worker then (`LeasedClaim`).
`DeliveryInv` adds that the endpoint has taken an event no more often than the faults so far
allow, one more once the handler has its answer (`TakenOnce`), and that an outcome "ok" is
handed to the queue after the row says so (`LoggedBefore`): `CompletedWasAccepted`,
`DuplicatesStayExplained`. While nothing has failed, `StepInv` follows the two counters
through their separate statements: a running job is in somebody's hand, its row waits for
the attempt its claim has begun until the handler writes it, and tells what the queue is
about to record until the queue does (`RowsWait`, `RowTells`). Its `OnLadder` says that a
pending job has a rung left, from which, with the assumption on `MaxAttempts`, come both
`LockstepHolds` and `PendingStaysClaimable`.

**`AuthCache_proofs`**: `RevocationsPropagate`, `RejectionsStayTrue`, `CacheStaysBounded`,
`TouchesStaySpaced`, from `AuthInv`. A lookup in flight knows of its key what was true no
longer than a lookup ago (`LookupsSound`), and an entry expires within a TTL of the clock
reading its lookup began with, not of its store (`EntriesSound`): so no entry of a revoked
key outlives the revocation by a TTL, whichever lookup stored it last. A rejection is
stored of keys that are not active and cannot become so. `TouchesSound` says that the map
remembers the last touch of a key or that the touch was an interval ago; the next one is
dated by a clock reading that may be a lookup old.

### The edge

**`HttpApi_proofs`**: `AnswersTell`, `OutagesAreTold`, `AuthorityIsNeeded`, `AnswersCarryAll`,
`EndpointsStayBounded`. The five need each other, so there is one invariant, `ApiInv`, with a
part per request and a part for the key rows. `Layered` says what each layer has
established when the next runs (who is past authentication is authentic, who writes passed
the scope and the extractors); `WroteLast`, that a write is the last thing of a handler;
`Handled`, that a response waiting to be recorded tells of its own request; `Replied`, that an
answer does, or repeats one of a request with the same slot and fingerprint. `RowsInv` has
that a key in progress is in one hand and that a kept row holds what its request returned:
so a replay belongs to the merchant that asks and is neither a 5xx nor asks for a retry.
Bounded endpoints need no more than the counts: a registration inserts below the
cap or is one that others overtook.

**`HttpApi_proofs!KeysKeepTheirPromise`**: `Spec => ImplementsIdempotency`, by a step
simulation. `ApiInv` is not enough: what a client was told is read off the code of its
answer, so `KeyedInv` adds that a response of a handler never has one of the codes the
layers around it use, that nothing returns before its handler does or is answered twice, that
a request with a key works only after claiming it, and that the failures at keys
are among all failures. `Looks` says how the mapped state changes when one request
moves, `Telling` what an answer is mapped to and `LineWritten` what a row is; then each action
maps to the one of the same name, a handler's return to `Execute` or `CommitLost`, a
timeout and a panic to `Drop`, and everything before the INSERT of the key, without a key or
inside a handler to a stutter (`Unseen`). The proof found an error of the model:
`Idempotency` had a decline of a request with an oversized success released, where
`record` keeps it.

`KeysWorkOnce` and `KeyedAnswersStayTrue` read `WorkIsDoneOnce` and `AnswersStayTrue`
through that mapping (`Keeper`): across authentication, extractors, routes, engine,
timeout and panics, whatever the traffic, the write behind a key is done once but
where it was given up, and what a request with a key is told is true. Neither is
proved again about `HttpApi`.

**`Pagination_proofs`**: `NothingIsShownTwice`, `WalksAreComplete`, from `WalkInv`. The cursor
divides the rows: what was shown is not before it, so the next query cannot return it
(`NothingShownAhead`), and what was there at the start and is not before it was shown or ties
with a row that was (`NothingMissedBehind`). The next cursor is the least date of a page
(`LeastOfNaturals`, by the well-foundedness of the naturals), and a page that is not full is
all there is, by cardinality.

### Only model-checked

All liveness (`RequestsFinish`, `DeliveriesSettle`, `KeysSettle`): fairness and ENABLED are out of the
prover's reach. The three violations are counterexamples, and TLC's. Every invariant and
every action property of a passing run, and both refinements, are proved. No module here
has a RECURSIVE operator.

## 6. Plan

The order so far: money (`PaymentEngine`), the machinery its promises depend on
(queue, delivery, idempotency), the edge (cache, pages), then the rows under the sums
(`Books`) and the layers around the handlers (`HttpApi`), with the proofs of every
invariant on the way.

Next, modelling:
1. The composition of the outbox with `WebhookDelivery`: every committed event is
   delivered to every endpoint that was active when its transaction began.
2. An abstract queue (a bag of jobs, each of which ends once) that `JobQueue`
   implements when nothing fails.
3. Several processes with a cache each, and revocation across them.
4. Signing with its timestamp tolerance, and the delayed retries against it.

Next, proofs: the safety part of the two compositions above, when they are modelled, and
the refinement of the abstract queue, for which `QueueInv` is the invariant to start from.

## 7. Not modelled

Signatures, digests and envelopes are arithmetic on bytes, and card numbers, ids,
clocks and formatting are functions of one request's data; of them the models keep
what a check refuses, and nothing of how. Messages and the parameters an error names are
left out. Merchants, seeding, configuration, telemetry and the audit log are single
statements nothing depends on. Disputes, settlements, order expiry,
`refund::update_status`, the cache's `invalidate_*` and the job kinds `expire_order`,
`release_settlement` and `purge_expired_data` have no caller: there is no behaviour to be
faithful to yet. Integer widths matter where amounts are added, and `Money` has them;
elsewhere amounts are behind checked arithmetic that refuses an overflow, so the
models use integers.
