# Verification of hmdp-plus

hmdp-plus sells vouchers in flash sales. Redis decides who may buy, MySQL keeps
the books, Kafka carries the orders from one to the other, and several
schedulers repair what a crash or a lost answer leaves behind. The modules here
model that machinery; paths below are relative to `src/src/main/java/com/hmdp`
unless they start with `resources`.

## 1. The system

An order goes through these hands, each of which may see it more than once:

```
 request --> seckill.lua --> handoff ZSet --> outbox table --> Kafka topic --> order table
             (Redis, atomic)    | relay          | relay          | consumer      |
             stock, permits     v                v                v               v
                            quarantine       MANUAL_REVIEW <-- dead letters     cancel --> Redis
```

| component | state | operations | hard behaviour |
|---|---|---|---|
| admission (`resources/seckill.lua`, `VoucherOrderServiceImpl.seckillVoucher`) | stock, permit set, handoff, accepted hash | check and reserve in one script | the answer may be lost; a recovery key refuses requests |
| handoff (`SeckillOrderHandoffRelay`, `SeckillOrderHandoffService`, `SeckillOrderOutboxBatchWriter`) | ZSet per voucher, quarantine, relay lease | insert a batch in the outbox, then remove it; bisect and quarantine bad members | crash between commit and removal; lease expiry with a round in flight |
| outbox relay (`SeckillOrderOutboxRelay`, `SeckillOrderOutboxMapper`) | row status, claim, retry time | claim, send, mark sent or schedule a retry | late answers, two relays, redelivery of what was sent |
| group commit (`SeckillOrderOutboxService`) | bounded queue, writer threads | accept with time-out, batch, shutdown | time-out racing the commit, a batch dropped at shutdown |
| consumer (`SeckillOrderKafkaConsumer`, `SeckillOrderConsumerService`, `VoucherOrderPersistenceServiceImpl`) | order rows, MySQL stock | one transaction per batch, then acknowledge | duplicates inside and across batches; a failing record condemns its batch |
| recovery (`SeckillAcceptedOrderRecoveryService`) | outbox status | requeue or complete, from a dead letter or from manual review | check and update are separate statements |
| cancellation (`VoucherOrderServiceImpl.cancelVoucherOrder`) | order row, MySQL stock, Redis stock and permit | a MySQL transaction with a Redis script inside it | rollback after Redis changed, refused, missing or late compensation, a commit whose answer is lost |
| reconciliation (`SeckillOrderReconciliationService`) | recovery key, staging set | rebuild Redis from MySQL and the handoff | snapshots taken at different moments while the pipeline moves |
| order status (`VoucherOrderServiceImpl.querySeckillOrderStatus`) | none | three reads, from the order back to the accepted hash | the order moves forward between the reads |
| order ids (`DatabaseSegmentOrderIdGenerator`, `IdSegmentAllocator`) | segment per JVM, high-water mark in MySQL | take, prefetch, refill | prefetch racing refill, crash with ids in hand, exhaustion |
| voucher administration (`VoucherServiceImpl`, `SeckillVoucherRedisSynchronizer`, `SeckillVoucherStockInitializer`) | MySQL voucher, Redis stock and metadata | create, update, adjust stock, restore at start-up | Redis changes before MySQL commits; roll-back compensation that may fail or be wrong |
| voucher cache (`SeckillVoucherCacheService`) | metadata in Redis with a logical expiry, null marker, rebuild lock | read, rebuild when missing or expired | a slow rebuild next to a change; a lease that ends |
| shop cache (`ShopCacheServiceImpl`, `ShopServiceImpl`, `ShopCacheInvalidationOutboxRelay`, its consumers, `CacheConsistencyLockAspect`) | a copy per JVM, a copy in Redis, invalidation outbox | read through, save, update, evict, broadcast | a stale fill after an eviction; an eviction that fails, or never arrives |
| rate limit, access tokens, top buyers, reminders, subscriptions | Redis keys | scripts and queries | boundaries, repeated calls |
| blogs, follows, users, shop types | MySQL and Redis sets | queries and simple updates | none that these models reach |

What makes each part correct:

- **Admission, transport, persistence.** Every admitted order is somewhere until
  it is in the order table; stock in Redis and MySQL differs by exactly the orders
  under way; a user holds one permit; a record that arrives twice counts once.
- **Recovery.** What is final stays final although the check and the update of
  every recovery path are two statements; every order that MySQL can store is
  stored in the end.
- **Cancellation.** One unit and one permit come back per cancelled order; where the
  transaction ends badly after Redis changed, the difference between Redis and
  MySQL is accounted for, unit by unit.
- **Group commit and handoff.** Success is answered for committed orders only;
  whatever is given up is still listed somewhere; one bad row does not hold up
  the others and nothing but a bad row is isolated.
- **Reconciliation.** A rebuild next to the live pipeline forgets no order it has
  seen, counts none twice, and repairs Redis when nothing disturbs it.
- **Status.** An order that exists is found, and answers never go back.
- **Order ids.** No id is returned twice, no call waits for ever.
- **Voucher administration.** A change that is rolled back leaves no trace in
  Redis, a stock adjustment keeps both stocks in step and strands no order.
- **Caches.** Once a JVM has evicted a shop, no older copy returns to it, and every
  change reaches every JVM; the voucher's metadata ends up as MySQL has it.
- **The whole sale.** To whoever sees neither stores nor messages, an order is
  accepted, placed and cancelled in one step each.

## 2. Modules

| module | role |
|---|---|
| `SeckillSale` | what the sale promises, as an abstract specification: an order is accepted, placed and cancelled in one step each |
| `SeckillOrder` | the pipeline of one voucher from `seckill.lua` to the order row and its cancellation, all hops and all failures |
| `SeckillReconciliation` | `SeckillOrder` with the scheduled rebuild of Redis working next to it |
| `SeckillOrderStatus` | `SeckillOrder` with a buyer who queries his order |
| `HandoffRelay` | the handoff in detail: lease, rounds, batches, halving, quarantine, several relays |
| `OutboxRelay` | the relays from the outbox to Kafka in detail: select, claim, lease, send, report |
| `OutboxGroupCommit` | the acceptance mode `mysql-outbox`: queue, futures, writers, time-outs, shutdown |
| `OrderIdSegment` | the order ids: segments, prefetching, threads of several JVMs |
| `ShopCache` | a shop in MySQL, Redis and every JVM, with the invalidation outbox, its relay and consumers, and the consistency lock |
| `VoucherCache` | the metadata of a seckill voucher in MySQL and Redis, with the transactions that change it and the rebuilds |
| `VoucherStock` | the stock of a voucher in MySQL and Redis under adjustments and orders |
| `MC...` | the instances for TLC: which request belongs to whom, which thread to which JVM, symmetry |
| `...Proofs` | the theorems on the module of that name; `SeckillOrderProofs` holds those on `SeckillReconciliation` and `SeckillOrderStatus` as well, which rest on its lemmas |

`SeckillReconciliation` and `SeckillOrderStatus` extend `SeckillOrder`: their
next-state relations are every step of the pipeline, which leaves the new
variables alone, or a step of the new actor.

The specifications of the order path refine each other, checked by TLC and proved:

```
 HandoffRelay ------------\
                           ==> SeckillOrder ==> SeckillSale
 OutboxGroupCommit -------/
      ImplementsHandoff         ImplementsSale
```

`HandoffRelay!ImplementsHandoff` maps the sorted set, the outbox and the quarantine to
those of `SeckillOrder`, with every request a buyer of his own and the steps behind the
outbox never taken: every lease, round, halving and script is one of its
`HandoffInsert`, `HandoffComplete`, `HandoffQuarantine`, or a stutter.
`OutboxGroupCommit!ImplementsHandoff` does the same for the queue, the futures and the
writers. `SeckillOrder!ImplementsSale` maps an order to its phase (`Phase`): a new one
is accepted by `Seckill` and placed by the transaction of the consumer, everything
between is a stutter; a cancellation is a step of the sale at the Redis script, at the
commit, and where it is undone. A commit whose answer is lost is a step of the sale as
well (`Confirm` may go unheard), and what the compensation then takes off the sale is
`Withhold`.
`OutboxRelay` stands alone: it is the hop from the outbox to Kafka with columns that
`SeckillOrder` leaves out, and it is not a refinement of it. Consumer and recovery
appear there in one step each, where `SeckillOrder` has their reads and updates apart,
and one round sends and reports several rows, where `Send` moves one at a time. What
they have in common is that a row is sent as it was read: `Send` needs a row and not an
open one, because the record of an earlier round may have closed it in between, so a
record may reach the consumer after its order is stored, cancelled or in manual review.
The caches and the stock of a voucher share no state with the order path but the
voucher, and stand alone too.

**SeckillOrder** keeps, per order id, where the order is: a member of `handoff`
or `quarantine`, the status of its `outbox` row, of its `order` row, and the
Kafka records (`topic`, `dlt`) not acknowledged yet. A record is kept in a set:
two unacknowledged records of one order act like one that is delivered twice,
and a consumer that crashes before the acknowledgement leaves it there. Redis
holds `stock` and `purchased`, MySQL `dbStock`. One action stands for one
atomic step of the code: a Lua script, a MySQL transaction, or a single SQL
statement. What the code does in several steps keeps a program counter: the
dead-letter listener (`dltPc`), the manual-review scheduler (`reviewPc`), and
the cancel transaction (`cancelPc`), which holds the row lock of the voucher
until it ends. `afterCompletion` compensates in Redis for every status but
`STATUS_COMMITTED`. Spring reports `STATUS_UNKNOWN` when the commit throws, and MySQL
may have committed all the same. So two sets hold the compensations that are due:
`undone`, where MySQL rolled back (`CancelRollback`), and `unheard`, where it committed
(`CancelUnknown`; it takes effect before the compensation runs). The script cannot tell
them apart. It runs after the row locks are gone, so the buyer may cancel the
same order again before it does. Four ghosts record what became of a bad end: `leaked`
counts units put back on sale for good, `reopened` holds the buyers of cancellations
undone, `withheld` the cancelled orders whose unit a compensation took off the sale, and
`blocked` the buyers to whom one gave a permit when they had no order.

**SeckillReconciliation** adds the reconciler's program counter and its local
variables (`recStock` from `list()`, `recReserved`, `recUsers`, `recMembers`,
`recHandoffOnly`). Each read of `reconcileVoucher` is an action (`RecList`,
`RecLock`, `RecReadEvents`, `RecReadUsers`, `RecReadHandoff`, `RecLookUp` per
member), `RecRebuild` is `seckill_rebuild.lua`; a failure, a crash and the end of
the lease are `RecAbort`, `RecCrash`, `RecExpire`. The ghosts `recRows` and
`disturbed` remember what was stored when the lease was taken and whether
anything moved since.

**SeckillOrderStatus** models one query at a time with the place it looks next
(`askPc`): `AskOrder` (`getById`), `AskOutbox` (`findByOrderId`), `AskAccepted`
(`HGET`). The ghost `known` says where the order was when the query began.

**HandoffRelay** models the sorted set (`handoff`, `score`), the lease, and per
relay where it is (`pc`), the batches `persistWithIsolation` has still to handle
(`work`, next first) and whether `insertCommitted` has returned for the first
(`committed`). `CompleteBatch` and `Quarantine` are the Lua scripts.

**OutboxRelay** models the columns of an outbox row that the claim protocol reads
(`status`, `owner`, `leased`, `due`) and per relay where its round is (`pc`), the
rows it works on (`batch`) and those Kafka confirmed (`sent`). Each SQL statement
of `relayPending` is an action; the sends of a batch are one, because they touch
nothing but Kafka. Leases end (`LeaseEnds`) and rows become due (`BecomesDue`) at
any moment, which covers clocks that differ and rounds that outlast their lease.
Consumer, dead letters and manual review appear as what they do to a row. The
ghost `valid` holds the rows a relay claimed and nobody has freed, `fresh` the
rows with a confirmed send since they were last queued.

**OutboxGroupCommit** models the bounded `queue`, one `future` per request, where
each request thread is, and each writer with its batch and interrupt flag.
`shutdown` is four actions, because writers and requests run between them. The
relay appears as the two steps that clear the handoff.

**OrderIdSegment** models `tb_id_segment.max_id`, the `LocalRange` objects ever
created (`heap`), and references to them, because a thread may hold a range that
was replaced long ago; each access to a shared field is a step, as is each entry
of the monitor. Longs wrap at `Limit`.

**ShopCache** models one shop by the number of its last committed version, `redis`
and `l1[j]` by the version they hold. A reader is at one of the places where
`queryById` touches shared state (`pc`) in its first pass, its second pass under the
rebuild lock or its last chance (`stage`). The READ side of the consistency lock is
held by every reader that is not idle, the WRITE side by `updater` or for the one
step of a consumer (`Consume`): nothing is visible between the two deletions while
no reader runs. A commit adds the outbox row; `EvictAfterCommit` is the synchronous
eviction with its swallowed failure, and `CommitUnheard` the commit whose answer is
lost, after which nothing is evicted. The Redis rebuild lock protects MySQL from load
only; the model lets both outcomes of `tryLock` happen at any time, which covers
leases that end. Assumed: the watchdog keeps the consistency lock while its JVM
lives, and a crashed JVM's locks are gone when it is replaced. The ghost `fresh[j]`
is the version for which j last evicted under the lock.

**VoucherCache** models the two rows of a voucher by the administrator who wrote
each, so that a projection that mixes old and new fields can be told apart. A
transaction is four steps: read, UPDATE (which waits for the row locks of another),
projection to Redis, commit; each may fail before, after, or halfway (`HashOnly` is
HSET without EXPIRE), a failed commit may have been carried out, and the
compensation of `registerRollbackCompensation` may fail. A rebuild holds a lease that
may end, reads one table after the other, and writes. The ghost `doubt` says that
two changes, or a change and a rebuild, have met, or that one was not undone.

**VoucherStock** models `updateSeckillVoucherStock` step by step with the row lock
(`holder`) between UPDATE and the end of the transaction, next to admissions and
persisted orders, which are counted (`underway`). What open adjustments make Redis show
is counted as well: `Raised` and `Lowered` have one element for each unit of an
adjustment that Redis shows and MySQL does not.

## 3. Runs

| run | shows |
|---|---|
| `order_pipeline` | stocks, permits and orders stay accounted for while two users buy, one of them comes back, MySQL refuses the order of the other, a record dies and is recovered, and a cancellation may be undone, or committed unheard and compensated; the pipeline implements `SeckillSale` |
| `order_status` | recovery revives nothing final; a stored order is always found, an outcome once told is never taken back, every order is persisted, and whoever keeps asking learns it |
| `rebuild_races_sale` | a rebuild interleaved with every step of the pipeline forgets no stored order, subtracts no unit twice, and repairs Redis when undisturbed |
| `handoff_relays` | two relays with overlapping rounds lose nothing, implement the handoff of `SeckillOrder` and drain it |
| `outbox_group_commit` | SUCCESS means committed; time-outs, refused rows, shutdown and crashes leave the order with the handoff; queue and writers implement the handoff of `SeckillOrder` |
| `outbox_relays` | two relays never hold a row together, a late report changes no row it does not own, and every row is stored although sends, statements and one relay fail |
| `order_ids` | two threads of one JVM and one of another never receive the same id; the prefetch flag matches its task, also when the next segment no longer fits; with failed allocations and a shut-down executor every call of `nextId` ends |
| `shop_cache` | no slow reader, lost eviction, redelivery or restart brings an older shop back after the eviction; every change reaches every JVM, or is parked by the relay or dead-lettered |
| `voucher_cache` | roll-backs and lone rebuilds leave Redis as MySQL is; concurrent changes, crashes and unheard commits may not, but the logical expiry repairs it |
| `voucher_stock` | refused, failed and rolled-back adjustments keep the stocks in step, and a reduction leaves no admitted order without a unit |

Two runs check what a document or comment of the repository says and find a
behaviour of the code that contradicts it:

| run | what the trace shows |
|---|---|
| `stuck_review` | a row put in manual review while a second record of the same order is consumed never leaves it: `markCompleted` does not match `MANUAL_REVIEW` |
| `rebuild_oversells` | the stock is read before the lease and the reservations after it; an order consumed in between is subtracted by neither, and a unit that MySQL has sold is for sale again |

The properties above hold with exceptions that a reader should know:

- `OnePermitPerUser` excuses a user whose cancellation was undone: he may hold two
  active orders if he bought again in between. `docs/并发优化.md:77` speaks of a
  unique index that would refuse the second; migration V4 has dropped it.
- A cancellation that MySQL commits and whose answer is lost is compensated in Redis:
  Redis is one unit short and the buyer, who has no order any more, is refused as one
  who has, until a rebuild puts both right. `StockConserved` counts the unit
  (`withheld`), `PermitsEarned` excuses the buyer (`blocked`), and the sale has a step
  for it (`Withhold`). `PermitsEarned` also excuses a buyer whose second cancellation
  of the same order commits before the compensation of the first runs.
- For each cancellation that is undecided, or undone and not compensated (`leaked`), MySQL
  may lack the unit of an order that Redis has admitted, and `decrementStock` refuses
  it. `AdmittedFits`, which follows from the two ledgers, says that it does so for no
  other.
- `OutcomeLearned` and `StoredIsFound` begin with the outbox row. Before it, an order
  that moves from the accepted hash to the outbox between the second and the third
  read of a status query is reported as missing, until the buyer asks again.
- `Converges` excuses a voucher whose transaction died between the HSET and the EXPIRE
  of its projection (`Abandoned`): no rebuild deletes the hash, since one that finds
  no rows only writes the null marker. TLC finds the hash staying for ever without
  the exception. It is visible only where the Bloom filter lets the id pass.
- `ReachesEveryJvm` ends in the parking lot of the relay and in the dead-letter topic:
  no code looks at either again, and the copies stay until they expire (60 s in
  a JVM, 30 min in Redis). Queries of a hot shop are enough to starve a consumer.

**Bounds.** Two users and three requests give a user who buys, cancels and buys again,
and another, whose order MySQL refuses and whose unit stays with it: of two units one is
left to be sold out, come back, and be sold again while a cancellation is undecided.
`MaxFailed` bounds the cancellations whose transaction ends badly after Redis changed,
undone or committed unheard; one is enough to separate Redis from MySQL. A second
roll-back of an order waits until the compensation of the first has run
(`CancelRollback`). In `rebuild_races_sale` the record of a stored order is not delivered
again (`DeliveredOnce`): a second delivery changes neither MySQL nor Redis, and
`order_pipeline` has it. `Dying` bounds the orders whose records may become dead
letters to one of those that can still be cancelled, sent twice, and retried while it is
consumed. The rebuild runs with two buyers and two
units: one order can move past each read while the other stands still; the
buyers are interchangeable, so their permutation is a symmetry. The status query
concerns one order and the pipeline does not let orders influence where another
one is, so one order is enough. Three orders, the middle one refused, make a
batch of three that is halved twice and a refused order between two good ones.
Two rows in one batch let a batch fail in part and two relays share its rows.
Three requests with batches of two fill the queue and split a batch. `MaxFaults`
bounds failed calls, crashes and shutdowns. In `order_ids`, `Limit` is placed so
that the mark reaches it: the last segment does not fit. Its segments of two ids are
too long for the calls it makes to increment a replaced range beyond its end: that case
rests on the theorem `IdsUniqueHolds`, and was looked at once with segments of one id
and a single JVM, where `IdsUnique` holds as well. No run increments a counter past the
end of the long range. Two JVMs with a reader each are enough for
the caches: one reader can be slow while the other fills, and one JVM evicts while
the other has not heard. A shop that is saved or updated once has an older state to
fall back to, which is all a stale fill needs (`MaxChanges`). Two administrators, one
change each, meet in every step of a voucher's transaction. Three adjustments with
both signs over a stock of up to three reach the refused, the negative and the
rolled-back case one after the other. With `MaxFaults` = 2, checked once for safety,
`VoucherCache` shows nothing new.
Deadlock is not checked, because the sale may simply be over.

**Fairness.** Relays, consumer, schedulers, writers and the prefetch executor
poll for ever, so their steps are weakly fair; a step that competes with
failures, locks or another instance is strongly fair, because a dependency that
recovers is up at infinitely many attempts. Requests, cancellations, failures,
crashes and shutdowns are not fair. In `order_status` the buyer asks for ever,
which is his patience and not the code's. In `handoff_relays` one relay stays up at any
time (`Spare`, a bound); in `outbox_relays` one relay polls for ever (`Steady`), the
other may stop anywhere, and the lease does not end each time between the claim
of the steady relay and its next statement (30 seconds against two statements);
in `outbox_group_commit` the relay inserts what is left in the handoff. In
`shop_cache` the relay is polled and every consumer runs, as scheduler and listener
do; a query need not end, and a consumer kept out by queries gives up, so no fairness
of the lock is assumed. In `voucher_cache` the voucher goes on being queried and time
passes: expiries happen, and threads inside a method go on. Faults are bounded, so
that what is lost is lost a finite number of times.

## 4. Proofs

Every theorem holds for all values of the constants that satisfy the named
assumptions: finite sets of orders where they are counted, positive batch sizes
and segment steps, a queue that holds a batch.

- `SeckillOrderProofs`. `TypeOK` is strengthened by `Registers` (a busy actor's
  register holds an order, the one being cancelled is active) and `Compensations` (a
  commit is unheard for a cancelled order only, and compensated once), the recovery
  properties by `Remembered` (what a recovery loop has read stays true until it
  writes, which is why its stale read is harmless), the ledger needs both, and
  `OnePermitPerUser` needs `PermitRecorded` (whoever holds an order is in the set
  the script consults). `PermitsEarned` is inductive with the types alone, and
  `AdmittedFits` is the difference of the two ledgers. The ledger lemmas say which set of orders a step moves;
  the counters change by its size. `FinalStates` and `AdmittedForever` follow
  from one lemma per group of steps that says how far a row may advance.
  `PipelineImplementsSale` has one lemma per group of actions (a step that moves no
  phase is a stutter, the others are the step of the sale); its guards need the
  permits (whoever is admitted holds no order) and the registers of the cancellation.
- `SeckillOrderProofs`, the reconciliation. `RebuildKeepsRows` needs that the registers
  of the reconciler cover every order that had a row when the lease was taken and
  was not cancelled since, read by read (`Collected`). `RebuildRepairs` needs
  `Undisturbed`: while nothing moves, each register has what it was read from, and the
  count of handoff members is that of the ones looked up so far. `RebuildLosesNoUnit` is
  about a rebuild that *is* disturbed. `Accounts` says that three disjoint sets
  of orders exist, none of them cancelled, that bear the stock read, the reserved
  orders read and the handoff members counted; every unit is subtracted for one
  order at most, whichever way orders move past the reads. The sets are
  quantified, because which orders the stock in MySQL had lost when it was read can
  no longer be told from the state. `DbLedger` is proved of the
  pipeline with the reconciler, too, because MySQL is what a rebuild starts from; with
  it goes `OversaleEndsInRedis`, the other half of `rebuild_oversells`: the unit that a
  stale rebuild puts on sale twice is refused by MySQL, which never has more active
  orders than the voucher had units.
- `SeckillOrderProofs`, the status query. `Seeking` says what the query has seen so far: it
  goes on only while nothing final was answered, and a row that was there when it
  began is there when the outbox is read. `Truthful` says that final answers agree
  with the order table. Both rest on the invariants of the pipeline.
- `HandoffRelayProofs`. `Durable`: a batch marked as committed is in the outbox,
  with no relation to the lease, which is why overlapping rounds do no harm.
  `OnlyRefusedIsolated` needs `Isolating`: a relay about to isolate holds a batch of
  one refused order. `HandoffImplementsPipeline` maps a script
  over a batch to `HandoffComplete` because the batch is durable by then.
- `OutboxRelayProofs`. `ClaimsHold`: a claim nobody has freed is backed by the row
  (owner, running lease, due), which makes two holders impossible.
  `ReportsAreFresh`: a row that a relay has sent and still owns was not queued
  again since, because queueing clears the owner and a relay claims only between
  rounds (`SentInRound`). The lemmas say what a claim and a release of rows keep.
- `OutboxGroupCommitProofs`. `Durable` follows a committed order from the writer
  through the future to the request thread, `IdleIsEmpty` gives the batch bound.
  `GroupCommitImplementsPipeline` needs `Placed`: nothing in the queue, in a batch or in
  a store is ahead of its admission.
- `OrderIdSegmentProofs`. `Ranges` (segments of all JVMs lie below the mark and
  are disjoint), `Accounted` (an id that was returned, or is about to be, was
  taken from a range) and `Single` (it has one holder) together are inductive as
  long as the mark is not at the end of the long range (`Roomy`); beyond, nothing
  is claimed. `FlagMatchesTask` needs nothing but types, and holds
  at the end of the range as well.
- `ShopCacheProofs`. `CarriedInv` says why a slow reader is harmless: what a reader
  has in hand is no older than what any JVM has evicted for, because an eviction that
  raises `fresh` needs the WRITE side and finds no reader (`LockInv`), while
  `saveShop`, which does not take it, raises nothing. `ChangeIsKept` follows a version
  from the outbox to the inbox of a JVM, and to `dead`.
- `VoucherCacheProofs`. Everything about `RedisMirrors` is conditional on the ghost:
  as long as it has no doubt, one change is open at a time and no rebuild reads next to
  it (`Alone`), what a rebuild has read is still committed (`Fetched`), and an open
  change has the committed rows to put back, while Redis shows those, or the ones it is
  about to commit, or nothing (`Restorable`). These together are inductive; a step that
  would break them is shown to raise the doubt.
- `VoucherStockProofs`. `Locked` (whoever is between UPDATE and commit holds the row
  lock, and MySQL has not changed since he asked) and `Floor` are inductive with
  `StockAgrees`. Adjustments torn by a crash or by a
  commit whose answer is lost are excluded by both (`torn`). `Floor` is why nothing is stranded: Redis is below zero by no more
  than was withdrawn, and by the one adjustment that has just seen so and is going to put
  it back; the lock makes it the only one. Any number of adjustments may wait to be
  undone. Their amounts are counted as elements of a set instead of summed,
  so that a step adds or removes the units of one adjustment and the theorems on
  cardinalities apply (`UnitsWithOne`, `UnitsWithoutOne`); a sum would need an
  induction the prover cannot do.

Some theorems state what no run lists any more because a stronger property or a
refinement covers it: `AdmittedForever`, `RecordsHaveRows`, `StatusTypeOK`,
`AcceptedUntilDurable`, `OnlyRefusedIsolated`, `AdmittedFits`, `AdmittedIsKept`, `HolderIsDue`.

Every safety and action property of a passing run is a theorem. Only model-checked: all
liveness (`EventuallyPersisted`, `OutcomeLearned`, `FuturesComplete`,
`UnconfirmedIsStored`, `HandoffDrains`, `RowsStored`, `CallsEnd`, `ReachesEveryJvm`,
`Converges`), which is out of the prover's reach. Fairness plays no part in the theorems: they are about `Spec`
and hold of `LiveSpec` because it implies `Spec`.

## 5. Not modelled

`PROJECT.json` lists every component with its status.

- Time, voucher status and access tokens refuse a request without a change and are
  left out of admission. Several vouchers are independent except in a consumer batch
  and its locks.
- Loss of Redis data (up to a second of the append-only file) is outside the models,
  as are malformed handoff members, which `seckill.lua` never writes.
- The Bloom filters. That of the shops sets its ready flag only after a full load.
  That of the vouchers sets it on every `put`, also when the load at start-up has
  failed (`cache/SeckillVoucherBloomFilter.java:58`, against
  `cache/ShopBloomFilter.java:66-68`): legal ids not loaded by then are refused. This
  shows by reading and has no interleaving to explore.
- The copies of voucher metadata in the JVMs and the broadcast that shortens their
  life: they expire after 30 s and protect Redis from load.
- Rate limit and pressure feedback: one atomic script and a sampled number. Top
  buyers: a ranking nothing decides on. Reminders and subscriptions: best effort, in
  memory; the hazard of a key set before the task is queued is listed. Generic cache
  client and lock: no service calls them. Blogs, follows, users and sign-in, shop
  types: queries without a protocol.
- The browser side. `nginx-1.18.0/html` holds pages, a request interceptor
  (`js/common.js`) and the third-party libraries Vue.js and Element as they are
  published. They keep no state of the sale, and the libraries are not this program.
  All of the sale's logic is in Java and Lua; a line count that looks at the
  JavaScript files alone sees none of it.
- `resources/lua/seckill_auto_issue.lua` is called by no code.

## 6. Plan

What would come next, in this order:

| subject | why |
|---|---|
| `SeckillOrder` with the relays of `OutboxRelay` in the place of `Send` | closes the chain of refinements on the order path; the consumer and the recovery come from `SeckillOrder` then |
| reminders and access tokens | the key before the queue; a token issued twice by two retries |
