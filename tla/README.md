# A TLA+ model of the Blnk ledger

This directory specifies the ledger and the services around it in TLA+,
model-checks them with TLC and proves the main properties of the core with
TLAPS. Line numbers, names and behaviour are those of the source next to it;
`PROJECT.json` maps every definition to the lines it models.

## 1. The system

Blnk is a double-entry ledger: an HTTP server and queue workers written in Go
over Postgres (the state), Redis (locks, the asynq task queues, a cache) and an
optional search index. Several servers and workers run at once. On top of it this
repository adds a brokerage: positions by settlement date, trades, settlement
and an order life cycle.

| Component | State | Operations | What is hard |
|---|---|---|---|
| Transaction execution (`transaction_execution.go`, `database/transaction.go`) | `balances` (amounts, `version`), `transactions` (unique `reference`) | `recordTransactionSingle`: lock, hooks, reference check, read, compute, persist | stale reads when a lock expires, retries, competing debits, crashes |
| Balance arithmetic (`model/model.go`) | – | posting, hold, commit, void, funds and overdraft checks | boundary of the overdraft limit; the pooled holds |
| Locks (`internal/lock`) | Redis keys with TTL and the holder's value | `Lock`, `WaitLock`, `Unlock`, `MultiLocker` | deadlock, expiry under the holder, unlocking another's lock |
| Balances by indicator (`balance.go`) | `balances` with a unique indicator and currency | look up, create | two creators at once |
| Inflight transactions (`transaction_inflight.go`) | INFLIGHT and QUEUED rows, COMMIT and VOID children, inflight-commit locks | commit, void, partial commit, by leg or by parent, directly or queued | all holds share one pool; two ids for one queued hold |
| Inflight workers (`cmd/workers.go`, `queue.go`) | asynq tasks with unique ids | queued action, scheduled commit, expiry | redelivery, retries, racing resolutions |
| Queue, coalescing, rejection, recovery (`transaction_queue.go`, `transaction_coalescing.go`, `queue_recovery.go`) | QUEUED/SCHEDULED rows, their `_q` copies, tasks, `recovery_attempts` | submit, enqueue, process, coalesce, retry, reject, recover | a slow task and the recovery job on one row; commits reported as failed; lost tasks |
| Hot pairs (`internal/hotpairs`) | the state, activity and contention keys of a pair | route, promote, cool down, demote | the state is read, rows are counted and the state is written in separate calls |
| Bulk and refunds (`transaction_bulk.go`, `transaction_refunds.go`, `transaction_batch_processing.go`) | groups of transactions, refund rows and locks | bulk, rollback, refund | half-done atomic groups, refunds that race, refunds of refunds |
| Hash chain (`chain_worker.go`, `database/chain.go`) | `chain_seq`, `chain_hash`, `chain_prev_hash` of each row, `chain_state` | seal a batch, verify | several chainers, rows that appear late, verification during sealing |
| Trades and settlement (`brokerage.go`, `database/brokerage.go`) | positions by settle date, lots, average price, settlement journal | book, sell, settle, reconcile, net roll | crash between the commits of one trade, two runs at once |
| Positions (`brokerage.go`, `database/brokerage.go`, `model/brokerage.go`) | position rows, their holds, holidays | find or create, mutation plan, recompute holds, settle date | plans and transactions use different locks for the same row |
| Orders (`order.go`, `database/order.go`) | order rows, stop list, trading times, limits | create, check, approve, execute, cancel, submit | status written without a condition, checks that are stale, crash after booking |
| Fund lineage (`lineage*.go`) | outbox, shadow balances, mappings | credit, debit, allocate, commit, void | at-least-once processing, expired claims, integer shares |
| Reconciliation (`reconciliation.go`) | rules, uploads, reconciliations, matches, progress, a page cache | three strategies, start, record, finalise | shared counters and cache, fetches that fail, crash |
| Snapshots and history (`balance.go`, `database/balance.go`) | snapshot rows | batched run, balance at a time | the stamp is older than what is read |
| Monitors (`balance.go`) | monitor rows, a cached list per balance | create, update, delete, check | cache filled with old rows |
| Hooks and webhooks (`internal/hooks`, `webhooks.go`) | a Redis key per hook, a set per type, tasks | register, update, delete, deliver | two writes per edit, attempts that write back an old hook |
| API keys (`database/api_key.go`, `api/apikeys.go`, `api/middleware`) | key rows, two levels of cache | authenticate, create, revoke | revocation against cached copies, delegation |
| Search (`internal/search`, `api/reindex.go`) | documents, index tasks, reindex runs | upsert, reindex | a reindex under concurrent inserts, old documents over new |
| Metadata, identities, accounts, ledgers, notifications, tokenization, filters, files, backups, configuration | rows or external services of their own | create, read, update, deliver | no protocol between steps |

How they interact: API handlers call `QueueTransaction`, which either executes
at once (`skip_queue`) or persists a QUEUED row, in the lane that the pair's
state gives it, and enqueues a copy; workers and the recovery job execute copies
through the execution path, alone or coalesced. The SQL transaction of an execution
writes the lineage outbox row; hooks, webhooks, monitors and the index are
triggered after it. Commits and voids of holds, refunds, shadow transactions
and the legs of trades are themselves executed transactions; the chainer reads
the rows everybody inserts; orders book trades, settlement commits their holds.
Redis tasks are delivered at least once, Redis locks and cache entries may expire
at any time, and any process may die between two calls.

## 2. Modules

| Module | Models | Extends / instantiates |
|---|---|---|
| `BalanceMath` | the arithmetic of `model/model.go` as operators | – |
| `Ledger` | abstract: a request is checked and posted in one step | `BalanceMath` |
| `Execution` | `recordTransactionSingle` with the locks, by concurrent workers | `Ledger`, and shown to implement it |
| `HoldBook` | abstract: a hold is committed in parts or its rest voided | – |
| `Inflight` | commit, void, bulk update, queued actions, scheduled commit, expiry | instantiates `HoldBook` |
| `Queue` | submission to decision of queued transactions | – |
| `HotPairs` | the lane of a pair's transactions | – |
| `Bulk` | bulk requests, their rollback, refunds | – |
| `HashChain` | sealing and verification | – |
| `Settlement` | trades, settlement runs, the journal and the net roll of one bucket | – |
| `Positions` | position rows, mutation plans, recomputed holds | – |
| `SettleDates` | the settlement calendar as a function | – |
| `Orders` | the life cycle of orders, into trades | – |
| `Lineage` | outbox, shadow transactions, allocation strategies | – |
| `Matching` | the matching rules and search bounds as operators | – |
| `Reconciliation` | rule changes, strategies, runs | `Matching` |
| `Snapshots`, `Monitors`, `Indicators` | the three parts of `balance.go` with a protocol | – |
| `Hooks` | hooks and webhook deliveries | – |
| `ApiKeys` | authentication, delegation, revocation | – |
| `SearchIndex` | index tasks and reindexing | – |
| `Services` | orders, positions, snapshots, monitors, indicators and keys, one of them active | instantiates the six modules |
| `Delivery` | lanes, hooks and search, one of them active | instantiates the three modules |
| `SumTheorems` | what the proofs need to know of sums over finite sets | `TLAPS` |
| `ExecutionProofs`, `InflightProofs`, `HashChainProofs`, `SettlementProofs` | the theorems of each (`ExecutionProofs` also those of `Ledger`) | their module, `TLAPS` |
| `ServicesProofs` | the theorems of `Orders`, `ApiKeys`, `Indicators`, `Monitors`, `Snapshots`, `Positions` | `Services`, `TLAPS` |
| `DeliveryProofs` | the theorems of `Queue`, and of `HotPairs`, `Hooks`, `SearchIndex` | `Queue`, `Delivery`, `TLAPS` |
| `BatchProofs` | the theorems of `Bulk` and of `Reconciliation`, which both page through rows for workers | `Bulk`, `Reconciliation`, `TLAPS` |
| `MC*` | constants and compositions for TLC | see section 3 |

Each action is one call of the code that other processes can fall between:
one SQL transaction, one Redis command, one enqueue. What a layer below is known
to make atomic is one step in the layer above: the execution of a transaction
(`Execution` implements `Ledger`) is one step of `Queue`, `Bulk`, `Settlement`,
`Orders`, `Lineage` and `Positions`; a commit or void of a hold (`Inflight`) is
one step of `Settlement` and `Lineage`; booking a trade has the same steps in
`Orders` as in `Settlement`. Several modules have *history* variables (`moved`,
`raced`, `stale`, `torn`, `overtaken`, `outdated`...): no guard reads them; they
let a property name exactly the accidents that the code does not prevent, so
that it fails for any other.

### Execution

A worker's attempt is one action per call that touches shared state: one SETNX
per lock key in sorted order, the rollback of a partial acquisition in reverse
order, waiting and timing out, the pre hooks, the reference check, the two
SELECTs, the computation, the SQL transaction, one compare-and-delete per key.
`Persist` is one step because it is one SQL transaction; it is guarded as the
code is, by both versions and by the unique index on `reference`. Locks expire
at any moment (`ExpireLock`), whoever holds them; a crash leaves its locks
behind. A request may be attempted again whatever became of the earlier attempt.
`enable_queued_checks` is off, its default. Currencies and metadata are left out;
the outbox row that goes into the same SQL transaction is `Lineage`'s. Mutation
plans, which change totals without a transaction row, are `Positions`'.

### Inflight

A *target* is an id that can be committed or voided: the leg (the INFLIGHT row)
and, for a hold that went through the queue, also the QUEUED row, because
`fetchAndValidateInflightTransaction` accepts both. `committed` and `voided` sum
the children of each id, as `GetTotalCommittedTransactions` and
`IsParentTransactionVoid` do; `pool` is the inflight balance that all holds
between the two balances share, as `CommitInflightDebit` sees it. The TTL of the
inflight-commit lock is assumed to outlive the attempt that took it (the code
neither extends nor rechecks it). asynq gives a
task enough retries to outlast its transient errors; an expiry, which is retried
on any error, is archived in the end when its hold is resolved. `Place` schedules
expiry and commit with the row in one step, or only a prefix of them, which is
what a crash or an error between the calls leaves. Holds have a single leg.

### Queue

A request `r` has the row with its reference and the copy with reference `r_q`.
`row` and `copy` are the statuses of the two, "none" without a row, so that the
unique index is a guard on them. `moved` counts how often money moved. An
execution is one step that inserts and
moves, or one of the errors that `processTransaction` tells apart; whether funds
suffice is left open. Every SQL commit
may succeed and be reported as an error. `processTransaction` tries the
coalesced batch before `ProcessQueuedTransaction` tries it again ("first" and
"second"). Which rows share the leader's pair, source or destination is left open
as well, so `LoadSiblings` may pick any rows that wait. A worker that dies, and a
handler that returns an error, give the task back to asynq, which delivers it
again or archives it. The recovery job works on what one query returned, also
when the rows change meanwhile. References are numbers in the order of
`created_at`. Left out: splits, atomic groups.

### HotPairs

One pair. A request reads the state, may ask whether there was contention, may
count the rows of a lane, may write the state and then stores its row, each a
step of its own, as `ResolveQueueLane` does; workers that lose a lock count and
promote (`RecordContention`). Keys expire and calls fail. `raced` is set when a
request was overtaken between its read and its store, when a promotion
overwrites a hot pair, or when a key is lost; `OneLaneAtATime` holds otherwise.

### Bulk

A movement is a member of the request or a refund of a refund of ... of one;
its rows are the transaction as submitted, the queue's copy and the VOID
children of both. The fetcher of a rollback or refund pages by offset through
`GetRefundableTransactionsByParentID` or its inflight counterpart while its
worker adds rows, as `ProcessTransactionInBatches` does. A refund takes its
lock, validates, checks the reference and submits; for a queued refund the row
is written after the lock was released. Refund locks may expire. Calls fail,
`mode.faults` times in all: the listing of the rows (`ListFails`; the select of
`ProcessTransactionInBatches` may report it or not), the worker's call
(`WorkerFails`), the insert of a submitted row (the submission is then enqueued
under its own reference) and the enqueue or all of a task's attempts (`GiveUp`).
A member whose expiry or commit cannot be scheduled fails after it was recorded.
A cancelled context is one of these faults; a copy that was not enqueued although
its row was written waits for the recovery job, whose work is `Queue`'s. A caller
that was told of an error is still running until its worker is done.
`RolledBackWhenReported` excepts rollbacks whose listing failed (`unlisted`),
`BatchesSettle` also what the queue gave up (`lost`). The model shows two
behaviours that no property excludes because nothing in the repository
promises otherwise: members that are still queued when a request rolls back are
applied afterwards, and a refund that skipped the queue is refunded by the
next request for the same parent.

### HashChain

A batch locks the `chain_state` row, scans and commits or rolls back; links
written before the commit are visible to nobody, so the commit is one step.
SHA-256 is taken to be free of collisions: a hash is the sequence of what went
into it. Rows appear out of order of their ids, as inserts of concurrent SQL
transactions do. `Alter` is an edit of a row behind the application.

### Settlement

One client, one instrument, and trades that are due on the same day: their
security legs meet on one future balance, whose bucket settlement rolls to the
spot balance. Booking a trade takes the caller several steps (the seller's reads
and check, the money leg, the security leg, the compensation), and so does a run:
list the pending journals, complete each, look for matured buckets, read the spot
position, list the legs, and for each leg the journal, the two commits and the
completion, then the read and the roll of the net quantity. A run recovers the
`Limit` oldest pending journals, by the order in which they were written (`at`);
one whose average price cannot be computed, since the position was short, is
passed over and stays pending; a listing that fails is only logged. `Runs` may be in
progress at once, as `RunSettlement` and `SettleTrade` calls take no lock; a run
can start again any number of times. A call may fail
with or without effect and any caller or run may die, `MaxFaults` times in all;
refusals, such as missing funds or a commit of a leg that is already resolved,
are not counted. The average price is represented by how often each buy was
blended into it: that is what the recovery may get wrong, and the arithmetic of
one blend is not. Within buys and within sells the order in which legs are
settled is left open. Left out: several buckets and a price that does not parse.

### Positions

Keys are numbers in the order of their lock key; a row is a record identified by
its key and by who generated its id, and the table is a set of rows, so that two
rows for one key are possible and `OnePositionPerKey` says something. A mutation
plan is normalised (merged per key, sorted), takes its Redis locks, then in one
SQL transaction locks, checks and writes one row after the other; a ledger
transaction reads rows and later writes those whose version is unchanged;
`RecomputeHolds` locks a row, sums the live holds and writes. Row locks of
Postgres are modelled, since the Redis locks of plans and of transactions are
different keys. `OpenKeys` have a row from the beginning: a bound for TLC, since
every row is first created by `FindOrCreatePosition`. `ComputeSettleDate`
(`SettleDates`) is a recursive function over days, checked against its definition
in words for sets of holidays; its lookahead, 366 days in the code, is a parameter,
and `NoDay` is the error when it does not reach far enough.

### Orders

Every operation reads the order, works and writes the whole row back. Callers
interleave between all of these and may die. Checks run in the code's order:
stop list, trading time, size, funds; trading windows and size limits are data that
no property depends on, so these two checks pass or reject. `sells` says which
orders sell. Booking is the money leg, which must not overdraw, then the security
leg, then the compensation if that fails. Answers get lost and compensations
fail, counted with the deaths of callers (`Mishap`).

### Lineage

The transaction and its outbox row are recorded in one step. Workers claim
entries for a time; a claim may run out while its worker is at it, a worker may
die, a call may fail, together `MaxMishaps` times. A debit reads what was
released before, takes the lineage locks, allocates and records one release and
one receive per provider; the references of these rows make them unique.
A hold is committed in parts or in full, or its rest voided; each commit, also of
a part, commits all its shadows in full, each void voids them, directly and, if
that fails, through an outbox entry. A shadow that was voided refuses all later
work, one that was committed is passed over. `ShadowFollowsParent` therefore says
that shadows are committed only when some of the hold was and voided only when its
rest was; that the amounts agree after a partial commit does not hold. Shadow balances are the sums of their rows. `AllocationsExact`
compares the three strategies with what they must allocate, for up to three
sources; `AlgorithmsExact` checks it together with the other pure algorithms.

### Reconciliation

The matching rules are operators of `Matching` (`MatchesRules`, `WithinBounds`); amounts are whole,
drifts of amounts percentages, of dates units of time; `partialMatch` is the
given relation `Alike`. A run reads its rules, fetches page by page through the
cache that all runs share, and hands each transaction to one of its workers, which
match, record, count and save progress in separate steps; matched ledger
transactions are marked by updates that are under way when the run ends. A
completed run reports what it counted. The process may die: there is no code
that resumes a run, so the saved progress is never read again.
Two limits of the code are visible in the model: from the second page of groups
on, more unmatched transactions are sent than the channel takes and the
worker hangs (stage "hung"); and `calculateMatchingBounds` takes drifts of the
external amount, `matchesRules` of the internal one, and bounds a field as soon as
one rule does, which is why `BoundsKeepMatches` is about exact amounts and rules
that all compare both fields.

### Snapshots, Monitors, Indicators

`Snapshots`: a run stamps its rows with the time it began, reads one batch of
balances at a time and skips those that have a snapshot of that day. The two ways
of `GetBalanceAtTime` are operators; the property says by which transactions they
differ. Balances change by transactions only; mutation plans, which write totals
without a transaction row and which neither answer would see, are outside. `Monitors`: writers change the row and then delete a cached list, readers
fill it; the calls are those of one server, the copies that other processes keep
for up to a minute are left out. `Indicators`: the unique index decides between
concurrent creators; `CreateBalance` returns an empty balance without error when
it loses, which the API announces.

### Hooks, ApiKeys, SearchIndex

`Hooks`: each Redis command of an edit is a step; a task carries a copy of its
hook, whose status the attempt writes back, so an attempt can revive a deleted
hook (`torn`). `UpdateHook` does not call `validateHook`: types are then open and
retries uncapped. `ApiKeys`: servers have a local cache over a shared one; a
revocation updates the row, then deletes its own and the shared copy, which is one
step here (the cache library deletes one after the other). Scopes
are pairs with wildcards. `SearchIndex`: two collections stand for the five, in
the order in which batches and reindexing write them. The task of a row is queued
by a goroutine after the commit; it may be refused, or its process die, and QUEUED
rows never get one. Such rows are in `missed` until some later task or a reindex
writes their document; tasks may run out of retries the same way. Pages are by offset, newest
first, so rows inserted during a reindex are seen twice (its progress counts
them twice) and never skipped.

## 3. What the runs check

Components that share no state are checked in one run: a variable `active`, chosen
in Init, says which of them moves, and the others keep the values they have. A
behaviour of such a run is a behaviour of one of its components, never
a product of several. The properties of a component are conditional on it being
active. `Services` and `Delivery` are such compositions for any constants;
`MCServices` adds `Inflight` to the first and `MCDelivery` adds `Queue` to the
second, which move when `active` is "holds" or "queue"; `MCPayments` is made of
`Execution` and `Lineage`, `MCBatches` of `Bulk` and `Reconciliation`.

| Run | Question | Bounds |
|---|---|---|
| `MCPayments_ledger` | Payments: are balances covered, does only the holder unlock, and is this the atomic ledger, whatever locks expire? Lineage and the pure algorithms: see the invariants below | 3 balances, 4 requests (two share a reference, one has an overdraft limit), 2 workers, 1 attempt each; lineage flows of a credit and debits, some held, with 2 workers, 2 attempts, 1 mishap; an upload of 2 rows against 4 transactions, 3 rules; 3 possible holidays |
| `MCLocks_longttl` | When no live lock expires: do the sorted locks alone keep reads current and end every attempt, does every lock become free after crashes, do holds, commits and voids of one pool keep it non-negative and equal to the rows? Is the lineage outbox emptied in the end? | 3 balances, 5 requests (two transfers in opposite directions, a hold, its commit, a void), 2 workers, 1 attempt each; 3 lineage scenarios, 2 outbox workers |
| `MCInflight_ids` | Does each id behave as a hold of its own, for queued holds too? | holds of 2 and 1, one of them queued, 2 workers, 1 call, 1 queued action, expiry, 1 crash |
| `MCInflight_queued` | Is a committed queued hold left alone by its expiry? **Violated**, see below | holds of 1 and 1 |
| `MCDelivery_queues` | Is money moved at most once and are outcomes final? Do the rows of a pair wait in one lane at a time? Hooks, search: see the invariants below | 2 requests, 1 worker, 1 recovery job, batch of 2, 1 retry, 1 crash; 3 submissions of 2 references, one scheduled, 2 workers, no crash; one pair, 2 calls, threshold of 2, 3 contentions since a demotion, or 2 and a mishap; 1 hook, 1 task, 3 edits by 2 editors, or 2 and a mishap; 2 balances, 1 transfer and 2 reindexes, or 1 and a mishap |
| `MCQueue_live` | Is every QUEUED row decided in the end? | 2 requests, batch of 2, sweeps of 1 row |
| `MCProgress_fair` | One contiguous immutable chain that reaches every row in the end, is the verifier right? Does a scheduled expiry resolve its hold, does a queued action leave the queue? | 2 rows, 2 chainers, batches of 2, 2 batches a tick, pages of 1; 1 hold of 2, expiry, 2 queued actions, 2 workers, 1 crash |
| `MCServices_calls` | The services behind the API under two concurrent calls: see the invariants below | holds of 2 and 1 with expiry, scheduled commit and two of a call, a queued action and a crash; two orders with money for one, a blocked client, or a death, lost answer or failed void; 2 position keys, 3 plans, 4 ledger entries, 5 jobs; 2 balances, 1 transfer, 3 hours; 1 monitor, 2 balances; 3 lookups of 2 indicators; 2 keys that share a prefix, an expiry or a failed deletion |
| `MCBatches_fair` | Does a bulk request that fails return each member's money once and say the truth about it, with refunds by a client meanwhile? Does all of it end? Does a completed reconciliation report what it did? | 1 or 2 members, pages of 1 row, 1 client with up to 2 calls, 1 expiry of a refund lock, up to 1 failing call, the modes listed in `MCBatches`; an upload of 2 rows against 3 transactions, each strategy and a dry run, 4 rules, pages of 1, 2 workers, 1 mishap (a failed query, a failed record, a rule change or a crash) |
| `MCReconciliation_upload` | Does a reconciliation work on its own upload? **Violated**, see below | 2 uploads, 2 reconciliations, pages of 1 |
| `MCSettlement_bucket` | Is nothing delivered unpaid, are quantities conserved, does the journal precede the commits? Does every delivered buy get its lot in the end, unless it is starved? | two settings: a buy of 2 and a sell of 1, settled position of 0 or 1, 2 runs, 1 fault; two buys, settled position empty or short, 1 run again and again, pages of 1 journal, 2 faults |
| `MCSettlement_price` | Is a buy blended into the average price once? **Violated**, see below | the same |

The invariants of the newer modules are conjunctions with a name for each part:

* `LineageInv`: the releases of a debit never exceed it (`ReleasedWithinDebit`),
  a receive has its release (`ReceivesHaveReleases`), no provider's funds are
  spent twice (`ShadowsCovered`), a shadow is committed only if some of its parent
  was and voided only if the rest was (`ShadowFollowsParent`).
* `AlgorithmsExact`, of what has no state: each strategy allocates all that can be
  allocated, from sources that have it (`AllocationsExact`); the bounds of the
  candidate query lose no match (`BoundsKeepMatches`); a trade settles exactly so
  many settlement days after its day, or is refused because the lookahead (4 or 30
  days) holds too few (`SettlesOnTime`). The bounds are checked for a drift of 0.
* `HooksInv`: a hook is in the list of its type and of no other, but for edits
  that were torn by another or by a crash.
* `SearchInv`: when no task and no run is left, every row has its document, but
  for those whose task was never queued or was lost (`IndexIsComplete`); a document's references resolve (`ReferencesResolve`).
* `ReconInv`: a completed run's counts are those of its rows (`CountsMatchRows`),
  it decided every transaction once (`DecidedExactlyOnce`), marks have matches
  (`MarksHaveMatches`).
* `LanesInv`: `OneLaneAtATime`, and a pair is promoted after at least the
  threshold of contentions (`PromotedOnContention`).
* `HoldsInv`: `HoldResolvedOnce`, `PoolCoversHolds`, `ActionAppliedOnce`.
  `HoldWorkEnds`: `ExpiryResolves`, `QueuedActionsEnd`.
* `OrdersInv`: orders that passed their checks on the same money are not all
  booked (`HoldsCovered`); an EXECUTED order has both legs
  (`ExecutedOrdersAreBooked`). `BookedOrdersWereChecked`: nothing is booked for
  an order that was not read as checked. Neither excludes that an order is traded
  although it says CANCELLED, which the code allows (see the end of this section).
* `PositionsInv`: `OnePositionPerKey`, `NothingLost` (a position is the sum of
  what was committed), `HoldsFollowTransactions`, `PlansWaitUpwards` (a plan waits
  for a row lock only of a plan that has larger keys left, so that plans never wait
  in a circle).
* `BalancesInv`: `AnswersDifferByStraddlers` (a balance at a time from a snapshot
  and one from the source differ by the transactions that the stamp puts on
  the wrong side), `OneBalancePerIndicator`. `RunsCoverAllBalances` and
  `AlertsAreDue` are action properties of snapshots and monitors.
* `KeysInv`: `RevokedCopiesAreKnown` (a usable copy of a revoked key is one of
  the named kinds, a fill that raced the revocation among them),
  `DelegationNeverWidens`.
* `BulkInv`: `RefundedOnce`, `RolledBackWhenReported`, `QueuedRefundsStand`.
* `VerifierIsRight`: `NoFalseAlarm`, `AlterationFound`, `VerifiedInFull`.

* `DeliveredBuysGetLots`: a delivered buy gets its lot, or from some point on
  `Limit` or more older journals that cannot be completed are always before it (`Starved`).

Why these bounds are enough to be interesting: two workers and one more request
than workers make every pair of steps interleave; a third balance makes the two
lock orders differ; an amount of 2 is the smallest that can be committed in parts;
two requests are the smallest batch; one crash is enough for each "dies between
two steps"; sweeps smaller than the number of stuck rows exercise the LIMIT; a
page smaller than the chain, the upload or the group makes paging take several reads
while rows are added; settled positions of 0 and 1 make the tradable check go both
ways and let a buy meet an empty and a short position; money for one of two
orders makes the funds check go both ways. The counters that are capped are
`MaxAttempts`, `MaxCalls`, `MaxActions`, `MaxCrashes`, `MaxFaults`, `MaxMishaps`,
`MaxDeaths`, `MaxDisturbances`, `MaxExpiries`, `MaxJobs`, `MaxIds`, `MaxTime`, `Hours`;
`MaxRetry`, `MaxRecovery`, `BatchSize`, `SweepSize`, `MaxBatches`, `Page`,
`PageSize`, `MatchWorkers` and `ProgressInterval` are
parameters of the code. The runs say CHECK_DEADLOCK FALSE where all requests may
have been dealt with: the system then waits for the next. Workers and calls are
symmetric where no property of the run is a liveness property; in `MCServices_calls`
the same model values serve as orders, owners and watched balances of components
that share no state, so that one permutation serves all of them.

Every property has a mutant in `PROJECT.json`: an operator marked *Faulty* that
replaces a definition as a plausible bug would, and under which TLC finds that
property violated.

### The disagreements

`MCInflight_queued` checks `CommittedHoldsStayCommitted`: after a hold was
committed in full nothing voids it any more. The expiry task of a queued hold
names the QUEUED row (`queue.go`), while a commit through the API is recorded as
a child of the INFLIGHT leg. `processInflightExpiry` (`cmd/workers.go:302`) voids
by the row's id, sums that id's children, finds nothing committed and voids the
whole amount a second time, out of whatever else is held between the two
balances. `transaction_test.go:1579` expects the opposite of a void after a
commit.

`MCSettlement_price` checks `BlendedOnce`. The journal row of a buy is written
before its legs are committed. When the settlement stops in between (it dies, or
the first commit fails), the next run's `ReconcileSettlement` finds the row
pending, does not look at the legs, and blends the buy into `wa_price`; the leg is
still inflight, so the same run settles it and blends it once more, starting from
the price that has it already. `brokerage.go:828` says that the recovery is
"recomputed deterministically and applied idempotently", and
`database/brokerage.go:895` that `CompleteSettlementJournal` is "Safe to call
repeatedly".

`MCReconciliation_upload` checks `ReconcilesItsUpload`. A page of external
transactions is cached for five minutes under a key made of page size and offset
only (`database/reconciliation.go:617`); the reconciliation of another upload
that asks for the same page is given the first one's transactions and records
matches for them. The comment at `database/reconciliation.go:602` says that the
transactions are retrieved "based on the provided upload ID".

### What the properties except

Four more behaviours of the code, which the models have, contradict a text of the
repository. The properties that pass are stated so as to allow exactly them:

* `BulkInv` and `BatchesSettle` except rollbacks whose listing failed (`unlisted`).
  A failing listing sends its error and closes the jobs channel, so the worker ends
  too, and the select at `transaction_batch_processing.go:99` may take either. If it
  takes the end, the answer says "All transactions in this batch have been %s."
  (`transaction_bulk.go:246`) of members that nobody listed, although
  `transaction_bulk.go:169` promises that "Any failure will cause all transactions
  to be rolled back (or voided if inflight)".
* `DeliveredBuysGetLots` excepts starved buys. A journal written while the position
  was short cannot be blended, and the recovery skips it (`brokerage.go:854`); it
  stays pending and among the oldest that `ListPendingSettlementJournals` returns
  (`database/brokerage.go:953`). With as many of them as the limit, a later buy whose
  run died after its delivery is never looked at, although "ReconcileSettlement
  completes settlement journal rows whose side effects (wa_price + lot) did not
  finish" (`brokerage.go:825`).
* `OutboxSettles` lets an entry end as failed. `voidShadowTransactions` passes over
  errors that say "already committed" or "not in inflight status"
  (`lineage_shadow.go:91`), but a shadow that was voided before answers "transaction
  has already been voided" (`transaction_inflight.go:544`): a void that is repeated
  fails on every attempt, although the comment at `lineage_shadow.go:70` says that
  "Already-voided/committed shadows return "already committed" error which is
  treated as success".
* `OrdersInv` and `BookedOrdersWereChecked` say nothing of cancelled orders.
  `CancelOrder` (`order.go:335`) checks the transition on what it read, and
  `UpdateOrder` writes without a condition (`database/order.go:109`): a cancellation
  that read the order before another caller executed it and writes after leaves it
  CANCELLED with both legs booked. `docs/orders.md:36` defines CANCELLED as
  cancelled before execution and line 38 calls EXECUTED, REJECTED and CANCELLED
  terminal.

## 4. Fairness

* `Execution`: a worker that does not crash runs on (weak fairness of its
  steps: they are Go code after non-blocking calls) and Redis honours TTLs. Only
  orphaned locks expire in `LongTTLSpec`: the default TTL is 30 minutes. Nothing
  is asked of `WaitLock`'s deadline, so `EveryAttemptEnds` rests on the order of
  the locks alone; without the sorting two opposed transfers can make each other
  roll back for ever.
* `Lineage`: an outbox worker that does not die runs on and polls again, and
  claims and locks that a dead one left run out. Mishaps are bounded.
* `Inflight`: a worker runs on, asynq keeps delivering what is pending, a lock
  left by a crash expires. Strong fairness of taking the lock and of recording on
  behalf of a task stands for retries with a backoff that do not fail for ever,
  and that of the end of an expiry task for asynq's retry limit;
  what a client does is not assumed.
* `Queue`: nothing is asked of workers or of Redis. The recovery job keeps
  sweeping (its ticker) and finishes what it began unless it dies, at most
  `MaxCrashes` times; the database does not refuse for ever its writes of one
  row's attempts or rejection (strong fairness).
* `Bulk`: the goroutines of a request, of its fetcher and of its worker run on, and
  queued copies are executed, unless a bounded number of calls fails; the client's calls are not assumed.
* `Settlement`: settlement is run again and again and a run that does not die
  goes on; nothing is asked of those who book trades.
* `HashChain`: chainers keep ticking and batches do not roll back for ever.

## 5. What is proved

All theorems hold for any values of the constants that satisfy the named
assumptions of the modules (`LedgerAssumption`, `ExecutionAssumption`,
`InflightAssumption`, `HashChainAssumption`, `QueueAssumption`,
`SettlementAssumption`, `OrdersAssumption`, `KeysAssumption`,
`IndicatorsAssumption`, `MonitorsAssumption`, `SnapshotsAssumption`,
`PositionsAssumption`, `HotAssumption`, `HooksAssumption`, `SearchAssumption`,
`BulkAssumption`, `ReconAssumption`): these say that sets are
what they are meant to be, amounts and bounds are natural numbers, what is
counted is finite, ids are unique and model values differ. `BulkAssumption` also
says that clients refund members, by the id of any of their rows, or the batch, as
`Targets` stands for; `PositionsAssumption` that a commit or void has the ends of
its hold, which it copies from it. `Services` and `Delivery` assume those
of the modules they instantiate (`ServicesAssumption`, `DeliveryAssumption`), so
that TLC evaluates each of them.

* `SumTheorems`: `MapThenSumSet` is defined on every finite set, does not depend
  on the order in which it takes the elements, and changes by the weight of the
  element that is added or altered. The inductions are done by hand, on a
  smallest counterexample.
* `ExecutionProofs`, first the atomic ledger: one posting keeps every balance
  covered and the pooled holds non-negative, from the checks of `BalanceMath`,
  and the four amounts of a balance are the sums of its recorded rows
  (`LedgerMatchesRows`; a posting adds one row to the sums of two balances).
  Then `Inv` of `Execution` is inductive. Its parts are the types, the
  bookkeeping of locks at each phase, and `ReadsConsistent`: a balance that still
  has the version a worker read has the amounts it read, and the funds check that
  let the worker reach its SQL transaction is true of them. This last part is
  what makes the version check sufficient: locks appear nowhere in the argument,
  so it holds whatever locks expire. From it every step of `Execution` is a step
  of `Ledger` or leaves its variables alone (`Refinement`), and the ledger's
  guarantees carry over, `BalancesMatchRows` included. The other half is about
  the locks: `LateWorkersUnlockNothing` (whatever expires), and
  `LocksKeepReadsCurrent`: if no lock expires under its holder, reads stay
  current until the write, and the version check never has to refuse one.
* `InflightProofs`: `Inv` says that the worker past `TakeLock` owns the lock,
  that an amount it has validated is still there, and that no id is resolved
  beyond its amount. The lock is needed: without it the claim does not survive
  the steps of others. `Refinement` maps each id to a hold of `HoldBook`.
  `UnqueuedHoldsKept` is about holds, which have two ids when they go through the
  queue; its hypothesis, that none does, is the code path `skip_queue`, and
  without it the statement is false (section 3, `MCInflight_queued`). `UnqueuedInv`
  adds to `Inv` that only legs are resolved, that a reference belongs to the
  worker or task that may still record it, and that the pool is the sum of what
  the open holds have left.
* `HashChainProofs`: `Inv` says that whoever is between scan and commit has
  locked `chain_state`, that its batch is unsealed, and that the sealed rows are
  numbered 1 to `lastSeq`, each linked to the one before; intactness and
  immutability follow. `VerifierInv` says that the pages compared so far are a
  prefix of the chain without an edit made before the start, and that the hash
  carried over is that of its last row: sealing only appends, so it stays true.
* `DeliveryProofs`, first the queue: `Inv` says that whatever is, or is about to be, executed as a
  copy belongs to a row that waits (`CopiesWait`: rows, tasks, jobs, batches and
  sweeps), and that `moved` is 1 exactly when one of the two rows is APPLIED. The
  first part is what excludes an execution under both references. Then money is
  moved at most once, never for a rejected request, and outcomes are final.
* `SettlementProofs`: `Inv` says that a leg is recorded only by its caller, that
  a run past the journal has one for its buy, that a run about to commit a
  security has committed its money, and that every price, also those that runs
  and journals remember, is made of buys that have lots. The last part is what
  keeps price and lots together although runs write prices from old reads.
  Delivery versus payment and the order of the journal follow, for any number
  of faults. `QuantityKept` needs only a small part of it: two runs that roll
  the same net quantity leave a future balance of the wrong sign, but what one
  balance gains the other loses, and the one step that delivers, the commit of
  an inflight security leg, moves the future balance by the leg's quantity.

* `ServicesProofs`. `ServicesStrong` has one part for each service while it is the
  active one; a step of another service leaves its variables alone. Orders:
  `OrdersStrong` says what each call has read and
  passed at each stage, that at most one caller is between the two legs of a
  trade, and that whoever remembers an order as EXECUTED is right; the writes
  are unconditional, so it has to speak of what callers remember. Keys:
  `KeysStrong` says that copies and answers are rows of the table under their
  own prefix; delegation is by case on the wildcards of two scopes. Indicators:
  rows with one key are one row, so that the conflict of two creations is
  resolved in favour of the same. Monitors: a cached list is that of the table
  unless a writer is about to delete it or it is marked outdated (`ListsCurrent`).
  Snapshots: a balance is the count of the committed transactions into and out of
  it (`BooksOK`), a snapshot the count of those it has (`ShotOK`), and committed
  transactions do not change; the two answers then differ by a count of disjoint
  sets. A run has left no balance up to its `last` without a snapshot of its day
  (`CoversUpTo`): the batch is made of the first `BatchSize` balances that lack
  one, the cursor moves by the first `BatchSize` ids, so that whatever it passes is
  in the batch or had a snapshot. Positions: `PosStrong` says that what a plan is
  about to write was computed from the row it has locked, as it still is, and that
  what a transaction is about to write was computed from the row as it is or has
  a version that is no longer the row's (`JobOK`); so each write changes the row by
  exactly what is added to the sums of committed plans and transactions, and the
  holds by what the transaction opens or resolves (`BooksKept`, with
  `SumTheorems`). The Redis locks of plans are not needed for this and may expire;
  the row locks and the version are. Plans take row locks in the order of their
  keys (`PlansWaitUpwards`).
* `DeliveryProofs`, then the three components of `Delivery`. Lanes: as long as nothing was raced, the state says which
  lane is empty, and a request that was not disturbed still knows the state
  (`RoutesOK`). Hooks: at most one edit of a hook is under way, and its stage
  explains exactly the difference between key and type sets (`EditOK`). Search:
  `SearchStrong` says for every row whose document is not current who will write
  it (`Unindexed`: a goroutine that has the task to queue, a task, a worker, a page of a run, or a page that a run has still
  to read, as its offset is below the row's place in the table) or that its task was lost, and for a
  transaction's document that the balance's document is there or will be written
  before the run that dropped it ends (`Safe`).

* `BatchProofs`, first bulk requests. `BulkStrong` has two halves. The table: a
  movement is made by its row or by the queue's copy of it, and a copy belongs to a
  row that is QUEUED (`ExecutedOnce`), so that money is returned once without any
  help from the refund lock, which may expire; without the queue a member is
  submitted and recorded once in one step (`MembersRecorded`); refunds that go
  through the queue have rows that stay QUEUED and are their own queued parent, so
  that no query lists them (`RefundsQueued`). The callers: while the rollback of a
  request that skipped the queue pages by offset through the rows under the
  batch, its own refunds and those of clients are added to the table, but the
  list is that of the members and does not change (`ListedMembers`); hence every
  member before the offset is a job, is being undone, or has failed (`RollbackOK`),
  and an empty page means that there is no other, unless the listing failed. That ranks have no gaps, which
  the paging needs, is a counting argument (`RankFacts`).
  Then reconciliations: each transaction that a run has fetched is in one place
  only, in the channel, with one worker, or recorded (`Placed`), the counters are
  those of what is recorded or about to be (`Counted`), and pages never repeat a
  row, whichever upload a cached page is of. The statement does not depend on the
  cache holding the right upload, and is proved for any number of reconciliations
  that share it; that it may hold the wrong one is `MCReconciliation_upload`.

Only model-checked: the liveness properties (fairness and ENABLED are beyond the
prover); `AlgorithmsExact`, whose recursive functions and folds need induction
over data; and `LineageInv`, whose allocations are such folds, and whose sums are
over rows that a debit selects by them.

## 6. What is not modelled, and the plan

To be proved next: the parts of `LineageInv` that do not depend on how an
allocation is computed, namely that receives have releases and shadows follow
their parent, from what `AllocationsExact` says of the strategies.

Behaviour of modelled components that no model has yet:

* deletion of rows at the end of the chain, which the verifier does not look
  for (`chain_worker.go:212`);
* expiry of the inflight-commit lock under its holder (`transaction_inflight.go:187`);
* SCHEDULED rows whose task was lost, which the recovery query leaves out
  (`database/transaction_recovery.go:42`), as a liveness question;
* the overdraft limit of recovered and coalesced rows
  (`transaction_coalescing.go:599`), which needs `Queue` composed with `Ledger`;
* that a paid trade is delivered (`brokerage.go:774`) and that competing sells do
  not oversell (`brokerage.go:265`): the code promises neither; several buckets;
* split transactions and atomic groups.

Left out for good: tokenization (format-preserving encryption of strings),
filters (SQL text), files, backups, configuration, metrics, tracing and
notifications (pure I/O), ledgers, accounts and identities (independent rows
without a protocol). Metadata updates read, merge and write without a lock, so
that the later of two concurrent updates of one entity wins; nothing says
otherwise.
