# Verification of the inventory service

TLA+ models of the inventory service in `src/`, the TLC configurations that check them,
and TLAPS proofs of their central facts. Paths below are relative to `src/src/`.

The service keeps stock for many stores. Several Node processes share one PostgreSQL
database and one Redis. There are no database transactions around the reservation and
transfer operations: what keeps two requests apart is a lock in Redis, and what the code
does when something fails is to run the operation again. Almost everything worth
verifying here follows from those two facts.

## 1. Inventory

| component | state it keeps | operations |
|---|---|---|
| `InventoryItem` aggregate (`domain/models/inventory-item.model.ts`) | five counters: onHand, available, reserved, committed, inTransit | reserveStock, releaseStock, confirmSale, addStock, adjustStock, markInTransit, receiveTransfer, confirmTransferOut |
| decorators (`shared/decorators/{distributed-lock,circuit-breaker,retry}.decorator.ts`), `DistributedLockManager` | a Redis key per lock with a lease; one breaker per operation and process; the attempt number | acquire by polling, release by compare-and-delete, fire with a 3 s timer, up to 3 attempts |
| `ReservationService` | rows of `inventory`, `reservations`, `inventory_transactions` | reserveStock, releaseStock, confirmSale |
| `TransferService`, `Transfer` | rows of `transfers` and of the inventory of two stores | createTransfer, startTransfer, completeTransfer, failTransfer |
| `InventoryService` | inventory rows, the availability cache | adjustStock, restock, getStockAvailability; listInventoryByStore, listLowStockItems |
| event bus, publisher, `CacheInvalidationHandler`, `RedisCacheService` | handler registry; cached availability with a TTL | publish, subscribe, get, set, invalidate |
| `CategoryService`, `ProductService`, `StoreService` | catalogue rows with unique names, SKUs and codes | create, update, delete, list |
| `UserService`, `AuthenticationService`, `JwtService` | rows of `users` with unique columns; tokens, which the server does not keep | create, updateProfile, changePassword, assignStore, activate, deactivate, delete, login, refreshToken |
| auth middleware, security decorators, `StoreAccessValidator` | none (a function of the token and the route's metadata) | authenticate, authorise |
| `HealthService` | none; it reads the data source and the Redis client | health, readiness, liveness |
| `main.ts` | the process, the data source | start, SIGTERM, SIGINT |
| controllers, DTOs, mappers, error handler, container | none | translation and wiring |

**How they interact.** A controller calls a service method. For every method that changes
stock that call goes through `DistributedLock(CircuitBreaker(Retry(body)))`. The body reads
and saves rows through repositories, one awaited round trip at a time, then publishes
events, which would invalidate the cache. `InventoryService` writes the same inventory rows
under a lock key of its own (`inventory:`) and, alone of the three, in a database transaction.

**Which behaviours are hard.** A body is not stopped when the breaker's timer answers for
it: it goes on without the lock (an *orphan*). Retry runs a body again after an attempt
that failed half-way, and after a refusal by the domain as well. Different operations on
the same rows use different lock keys. A save is a SELECT and an UPDATE of the columns in
which the object differs from the row, with no version check, so two overlapping saves mix
their columns. `PROJECT.json` lists every such place with its line under "hazards".

**What makes each component correct.**

* aggregate: no counter negative; what is on the shelf is available or reserved; no unit
  appears or vanishes;
* decorators: two calls are never fired under one key; every call is answered; no key is
  kept for ever; a body ends;
* reservations: a reserved unit belongs to exactly one active reservation; an order has at
  most one; a settled reservation stays settled, in the same way; a refusal changes
  nothing; an acknowledgement is durable;
* transfers: units leave one store, are in transit, and arrive once or come back;
* adjustments: stock and recorded transactions agree; a call takes effect once or not at all;
* availability cache: once the row is left alone, what is served becomes right;
* users: names stay unique under concurrent changes; tokens only for who deserves them; a
  call undoes nothing that was finished before it began;
* catalogue: unique names and existing categories under concurrent changes, and answers that
  were true at some moment of their request;
* authorisation: the decision agrees with the decorators for every input;
* process: every request ends, every signal ends the process.

## 2. Plan

| step | modules | state |
|---|---|---|
| 1 | `InventoryItem`, `InventoryItemLife` and proofs | done |
| 2 | `GuardedCall`, `ReservationService`, `StockLedger`, `ReservationRefinement`, `MCReservation`, `ReservationProofs` | done |
| 3 | `TransferService` over `GuardedCall` and `InventoryItem`; `TransferLedger`, in which units are conserved over all stores; `TransferRefinement`, `TransferProofs` | done |
| 4 | `InventoryService`: transactional writes, availability reads, the cache with its TTL and invalidation, and proofs | done |
| 5 | `TimedCall` (polling, lease and timer against a clock, the breaker's states), shown to implement what `GuardedCall` assumes, and proofs | done |
| 6 | `UserAccounts` and its `AccountHistory` (whole-row saves without any lock), `UserAccountsProofs` | done |
| 7 | `Catalog` (check-then-act against the tables' constraints), `Authorisation` (the middleware as a function), and `HttpServer`, which composes both with the life of the process and the health checks; `HttpServerProofs` | done |
| 8 | reservation life cycle: expiry, extend, partial use | left out: no code calls them |

Open: the theorems about units for several transfers at a time, and a composition of the
three services that write inventory rows.

## 3. Modules

### InventoryItem, InventoryItemLife

`InventoryItem` has, for each method of the aggregate, the guard under which it does not
throw (`CanReserve`, ...) and the item it leaves (`ReserveStock`, ...). `AdjustStockThrown`
is the object that `adjustStock`'s second throw leaves, with onHand already changed.
`receiveTransfer` has the body of `addStock` and shares its operator.

`InventoryItemLife` runs the methods in every order, one caller at a time: load the row,
call a method, save the object if it returned, drop it if it threw. `received`, `sold` and
`shipped` are history variables.

### GuardedCall

The decorator stack, without the body. A call has an outer half, `client`:

    idle -> waiting -> fired -> releasing -> answered        (or crashed)

and an inner half, `pc` and `attempt`: the body and its retries, off while none runs.
`Timeout` ends the outer half's wait and leaves the inner half alone: that is the orphan.
A module that EXTENDS `GuardedCall` supplies the steps of the body, each ending in
`BodyContinues`, `BodyReturns` or `BodyThrows`.

| action | code |
|---|---|
| `AcquireAndFire`, `AcquireAndReject` | SET NX answers OK; the breaker fires or rejects |
| `WaitTimeout` | the last poll finds the key taken |
| `AcquireFails` | redisClient.set throws, before or after it took effect |
| `Timeout` | the breaker's 3 s |
| `Release`, `ReleaseFails` | the finally block; its error is logged and dropped |
| `LeaseExpires` | Redis drops the key |
| `BodyThrows`, `Retry` | the catch clause, the delay, the next round of the loop |
| `Crash` | the process dies: both halves stop, the key stays |

Abstractions, each wider than the code:

* Polling is one step that may happen whenever the key is free, and giving up one that may
  happen whenever it is taken.
* The breaker's statistics are left out. It may reject a call once a call of the same
  operation has failed or timed out, which is necessary for it to be open.
* Lease and timer are not measured. The lease is 60 s and the timer 3 s, so
  `LeaseExpires` requires that its holder is not `fired`. This is the only place where the
  model relies on durations, and `TimedCall` shows that it may.

### TimedCall

The same stack against a clock, with the breaker's states. Its purpose is to justify
`GuardedCall`: `ImplementsGuardedCall` says that each step here is a step there, or changes
nothing that `GuardedCall` knows. It EXTENDS `GuardedCall` for the actions that need no
more than a timer around them, and adds:

| state | code |
|---|---|
| `poll`, `age`, `due` | the loop of `acquireLock`: SET NX, its reply, the sleep of 100 ms, the wait's limit |
| `pause` | Retry's `delayMs` |
| `ttl` | the lease, which begins in Redis when the SET takes effect |
| `breaker`, `trial`, `resetIn` | opossum: closed, open, half open, and whether the trial is still to be given |
| `fires`, `fails` | opossum's counts in its rolling window |

A SET takes effect when it is sent, and the program learns of it later. `KnownLock` is the
lock as the program knows it, and what `lock` of `GuardedCall` stands for. A reply, and a
timer, may be late by up to `Late`. That a lease covers its holder then needs
`Lease > Timer + 2 * Late` (`LeaseAssumption`): one late reply before the timer starts, and
a late timer. The code's 60 s and 3 s leave 28 s for each. A process that stops for longer is outside
the model.

opossum is not under `src/`: it is modelled from its documented rules for the options the
decorator passes. One breaker is one operation in one process. A process that dies
(`Die`) takes its calls and its breaker with it and leaves its keys.

### ReservationService

The three operations as `GuardedCall` bodies over the tables. `pc` names the next round
trip:

| pc | await in the code |
|---|---|
| start | reservationRepository.findActiveByOrderRef |
| readInventory | inventoryRepository.findByProductAndStore(.., true), then the checks and both aggregates' methods, which run without an await |
| saveReservation | reservationRepository.save |
| diffInventory | inventoryRepository.save: the ORM's SELECT by id and the comparison |
| writeInventory | inventoryRepository.save: UPDATE of the columns that differ |
| saveTransaction | transactionRepository.save |
| publish | both eventPublisher.publish calls, which do no I/O, and the return |

The ORM's `save` is external code, modelled from its documented use: columns that equal the
stored row are not written, and the version column is not compared. `reservationRepository.save`
is one step, because only its status column ever differs and the SELECT and UPDATE of one
column have the effect of one of the two.

One row stands for one (store, product) pair. A reservation's id is the call and the
attempt that created it, as `uuidv4()` makes a new one in every attempt. Prices, names, customer ids
and time stamps decide nothing here and are left out, and so is `expiresAt`, which nothing
reads.

The services and their tests are written for a row lock that ends with the statement that
took it, since no transaction is open, and so is the model: `setLock('pessimistic_write')`
keeps nothing apart here. What TypeORM 0.3 does with it is in section 7.

### StockLedger, ReservationRefinement

`StockLedger` is what the service promises: holds on stock, with one indivisible step for
placing, cancelling and selling a hold. `ReservationRefinement` maps the service to it.
A body takes its ledger step at its first save. Until its inventory UPDATE, the ledger's
row is the object in the body's memory. `Held` sums the active reservations of a row.

### TransferService

The four operations as `GuardedCall` bodies, over the same decorators and the same item.
`pc` names the next round trip, and each operation makes some of them:

| pc | await in the code | create | start | complete | fail |
|---|---|---|---|---|---|
| start | the lookups that come first | x | x | x | x |
| readSource | findByProductAndStore for the source | x | x | x | in transit |
| readDest | findByProductAndStore for the destination | | | x | |
| diffSource, writeSource | inventoryRepository.save(source) | | x | x | in transit |
| diffDest, writeDest | inventoryRepository.save(dest) | | | x | |
| saveTransaction | transactionRepository.save | | x | x | in transit |
| saveTransfer | transferRepository.save, and the return | x | x | x | x |

Transfers of different products share nothing, so all are of one product and an inventory
row belongs to a store. `completeTransfer` may insert a row for the destination: rows have
ids, and a store may come to have more than one. Which of several
`findByProductAndStore` returns is left open. The lookups in the store and product tables
are one step with the first checks, since no operation here writes those tables. A
published event does no I/O, so the events go with the step before them. The row locks end
with their SELECT, as above.

### TransferLedger, TransferRefinement

`TransferLedger` moves units between shelves: a move is planned, departs, is delivered or
is called off, each in one step. Planning promises nothing about the units, because
`createTransfer` checks them and takes none. `TransferRefinement` maps the service to it. A
body takes its ledger step at its write of the source's row. Until it has written the
destination, the ledger shows the object it holds for that store.

### InventoryService

`adjustStock` and `restock` as `GuardedCall` bodies, for one product in one store, with the
reads of `getStockAvailability` beside them.

| pc | await in the code |
|---|---|
| start | the lookups of store and product, and restock's check of the quantity |
| readInventory | findByProductAndStore(.., true): a row lock that is kept to the end of the transaction |
| save | inventoryRepository.save, transactionRepository.save and both publish calls |
| commit | COMMIT, issued by `@Transactional` |

The saves are one step, because under READ COMMITTED nobody sees them before the commit and
a body that throws or dies leaves nothing. The row lock is not a variable: `HoldsRow` says
which bodies have read a committed row and not ended. A row that is not there cannot be locked, so
a body that finds none inserts one with a new id, and there may come to be two.

The events are published *before* the commit. A reader goes through the cache miss, the
query and SETEX one step at a time; a DEL is on its way until `Invalidate`. Nothing in
`main.ts` constructs `CacheInvalidationHandler`, so `subscribed` starts with either value:
FALSE is the program as deployed, TRUE as it is meant. `RedisCacheService` turns an error of
Redis into a miss or into nothing, which is the fault "redis" here.

No controller calls the two writers yet, so the requests are taken from
`domain/ports/in/inventory.use-case.ts`.

### UserAccounts, AccountHistory

The operations that change a user, login and refresh. There are no decorators here: no lock,
no retry, no transaction around the read and the save. `pc` names the next round trip:

| pc | await in the code |
|---|---|
| start | findById, findByUsername; for refresh the only read |
| checkEmail | findByEmail, then the lookups of role and store, which no call here changes |
| select | userRepository.save: the ORM's SELECT by id and the comparison |
| write, insert | its UPDATE of the columns that differ, or its INSERT if the row was not there |
| delete | userRepository.delete |
| reload | userRepository.save: the SELECT of what was saved, and the answer |

A password stands for its hash, and a new hash always differs. `known` says whether the role
and the store that a request names exist. `Fails` ends a call at any round trip; after a
write it is also the reply that got lost. A refresh token is never withdrawn: `tokens` holds
whom one was issued for, and `Refresh` may still refuse it for its age. Only create,
delete, login and refreshToken have a route; the other operations are called as the ports
declare them.

`AccountHistory` EXTENDS the state machine with one history variable, `during`: the states of
the table between a call's first step and its answer. Calls that are not atomic may see and
store any of these. What they may not do is store anything older.

### Catalog

The three services over their tables, which have one shape: look for what must not be there
and for what must be, then save or delete. No lock, no retry.

| pc | await in the code |
|---|---|
| start | create: findByName, findBySku, findByCode; otherwise findById |
| findName | update: the same for a new name |
| findCategory | a product's categoryRepository.findById |
| select, write | save: the ORM's SELECT by id and comparison, its UPDATE |
| insert | save of an object whose row is not there: INSERT |
| delete | DELETE |

What makes the tables sound is declared in the entities (`unique: true`, `@ManyToOne`), and
is a guard of the statements here: `Unique`, `Refers`, `Referenced`. Only
`CategoryService.update` runs in a transaction; under READ COMMITTED its reads see what
everybody's do, and its COMMIT is one step with its UPDATE. An update or a delete of a row that is
gone meanwhile changes nothing and succeeds.

### Authorisation

`globalSecurityMiddleware` as a function. A method's decorators are a sequence as they stand
in the source; each is evaluated from the bottom up and writes its metadata key, so the
topmost of several role decorators counts. `Metadata` is what they leave, `Decide` what the
middleware makes of it, and `Entitled` says the same without metadata.

### HttpServer

`main.ts`, and the requests of the process. `process` goes from connecting to listening to
exited; `pool` is the data source, which says `isInitialized` also while `destroy()` is
waiting for the database.

| action | code |
|---|---|
| `Connect`, `Listen` | initializeDatabase, and app.listen after it; a failure is exit 1 |
| `Signal`, `Destroyed` | the SIGTERM and SIGINT handlers: destroy() and exit 0 |
| `Receive` | the middleware's verdict, validateDto, and the operation's first turn; or isReady |
| `Work` | one round trip of a `Catalog` operation; when it is the last, the controller's answer or errorHandler's |
| `Checked` | SELECT 1 or PING comes back |
| `RedisChanges` | the client loses Redis or finds it again |

`tables` and `alive` are history variables: what the tables held, and which services were up,
during each request. Without a database, or while it is being destroyed, a query fails.

The routes of `MCServer` are the category controller as it stands, with `@Public` on the
class and five decorators on `create`, and the same controller without `@Public`.

## 4. Runs

| run | instance | shows |
|---|---|---|
| item_life | quantities 1 and 2, at most 4 units | counters, balance and units under every legal sequence; what isConsistent() says |
| serial | 3 calls, reserve and release, 3 orders, 2 attempts, no fault | the service implements its ledger; a refusal leaves nothing behind |
| faulty | 2 calls, 3 attempts, failed statements, lost replies, Redis errors, crashes | one reservation per call and order, in spite of retries |
| orphans | 2 calls of all operations, an ill-fitting one too, 2 attempts, every fault and the timer | what survives two keys for one row and bodies that run without the lock |
| decorators | 2 calls of one operation for one key, 2 attempts, Redis errors, crashes, bodies that may hang | the clocked decorators implement the untimed ones; answers in time, breakers decided, keys freed |
| transfer_serial | 3 calls, create, start and complete, 2 attempts, no fault | the service implements its ledger: a transfer asked for twice moves once |
| transfer_faulty | 2 calls, 3 attempts, failed statements, lost replies, Redis errors, crashes | no unit invented, one row per store |
| transfer_orphans | 2 calls on 2 transfers of one row and one more to create and start, 2 attempts, timer and lost replies | counters, acknowledgements, statuses that have their transaction and never return to PENDING |
| inventory | 2 writers, 1 reader, 2 attempts, failed statements, Redis errors and the timer; no row at first, or one | stock and ledger agree, each call once or not at all, the cache is right in the end |
| accounts | 3 calls about one user and users to come, every operation, failing statements and lost replies | unique names and emails; tokens only for an account that was active, with this password, during the call; no save older than its call |
| server | 2 requests: every catalog operation, guarded routes with every credential, health and readiness; 2 signals | sound tables, the right admissions, true answers, and an end to every request and process |
| settleRace | the smallest instance that shows it | the finding of section 7 |

**Bounds, and why they are enough.** The interference is between pairs: an operation and
one that overtakes it between its read and its write. Two calls give every such pair, and a
third gives the lock a next holder while one releases late, and an order of three on one
row. Two rows separate what is per row (locks, stock) from what is per order. Quantities 1
and 2 against two or three units make reservations compete, fail and succeed. Two attempts
are enough for a retry to meet what the first attempt left; `faulty` uses the code's three.
`Prior` puts a held order into the start state, so that settling calls find something.
Symmetry is over calls only, and is not used in the runs with liveness. For transfers, two
calls are again every pair of operations on one transfer or one row. Three in
`transfer_serial` let a transfer start and be completed twice. One store starts without a
row, so that a delivery inserts it, and one is unknown to the catalogue. For the inventory
service, a restock and a correction of two units against one that is available make each
of the two depend on the other's commit, and one reader is enough to overtake a writer. For
users, three calls are a victim, one that overtakes it and one that acts on the result: a
deletion, a login whose save brings the row back, and a create of the same name. For the
decorators, two calls are a holder and a waiter, and enough to open a breaker and to be its
trial. Their durations keep the code's order (poll and delay below the timer, the timer
below wait and reset, the lease beyond timer and lateness), and their small values make polls, timers
and leases end in every order that this leaves. For the server, two requests are every pair of a
lookup and a change that overtakes it; a category with a product and an empty one make a
deletion fail and succeed, and two signals are one that interrupts another.

**Fairness.** `TimedCall`'s `LiveSpec` asks that time passes and that timers and replies come
when they are due: Node's timers, the client's replies or errors, Redis's expiry. It asks
nothing of the bodies, so `EveryLockFreed` holds although the database may never answer.
`HttpServer`'s asks that the database and Redis answer or fail what they were asked, each
request's round trip on its own, `initialize()` and `destroy()` among them; not that signals
come, that Redis stays, or that anybody sends a request. A driver's connection and
statement either return or raise an error, which is all that `Work`, `Checked` and
`Destroyed` assume. `InventoryService`'s `LiveSpec` asks only that Redis drops an entry whose
TTL is over. No strong fairness is used.

**What does not hold, and is therefore not claimed.** After a failed inventory save,
or an orphan, `ReservedIsBacked` is false: the reservation is saved and the units are not.
Bodies are not exclusive once the timer can fire. `ReservedIsBacked` is false for callers
that release another quantity or another row than the order's. For transfers, units can be
lost when a completion fails between its saves or is retried, and two completions of one
row's transfers at once can invent some. A completed transfer can still become failed, and one of
two reservations of a row be lost (section 7); `NeverPendingAgain` and `CountersNeverNegative`
bound what comes of these and do not exclude them. `ImplementsTransfers` is checked where a
start finds its units: that a start must not take units that are gone is what
`CountersNeverNegative` shows in `transfer_orphans`, whose retries use up the row. An entry that
was read before a COMMIT and stored after the invalidation is wrong until its TTL is over;
`EventuallyFresh` says no more than that it ends. So `UnitsConserved` is checked where the database answers, and under faults the
weaker `NothingInvented`. An adjustment whose COMMIT took effect while its reply was lost is
applied again by Retry, so `OnceOrNotAtAll` is checked where replies arrive. One row per store
and product is not claimed of the inventory service: an orphan and the next holder of the lock
may both insert it. The runs are chosen so that each property is checked in the widest
setting in which the code keeps it.

## 5. Proofs

* `InventoryItemProofs`: what each method adds to each counter, so that other proofs cite these
  lemmas and never expand the records; and what the sum of a finite function is, gains and
  loses (`SumGrows`, `SumChanges`). The community modules define a sum by recursion over
  subsets. No induction theorem can be instantiated here, so the lemmas take the smallest
  subset for which a claim fails, which exists because inclusion is well-founded on the
  subsets of a finite set (`SubsetsInduct`).
* `InventoryItemLifeProofs`, for any set of positive quantities and any bound:
  `StockNeverNegative`, `ShelfStaysBalanced`, `UnitsAccountedFor`, and
  `ConsistencyEndsAtFirstSale`, which follows from balance and units. `LifeInv` joins them, since
  none is inductive alone, and adds that the object in memory equals the row
  while it is loaded, and that the counters are non-negative there.
* `ReservationProofs`, for any sets of calls, rows, orders and requests, any faults and any
  number of attempts:
  * `TypeCorrect`. `TypeOK` is not inductive: that a save stores a reservation needs the
    found one to exist, and that an UPDATE leaves an item needs the row to exist. `Shape`
    says for each step of a body what the earlier steps have given it. A body's step
    disturbs no other body's shape, since no row of a table is ever deleted
    (`BodyStepKeepsTypeInv`).
  * `LockCorrect`. `FiredHoldsLock` is inductive given the types: a held key is not
    acquired, a release compares first, and a lease outlives the timer (the premise above).
  * `StockCorrect`. An UPDATE writes columns of an object computed earlier, so the
    invariant also speaks of the objects the bodies carry: they passed their method's
    check on a row without a negative counter. An UPDATE that mixes two such items, by
    whichever columns, has no negative counter either. No lock is used in the argument,
    which is why the theorem also covers orphans. onHand is not among these counters: no
    method that lowers it in a sale checks it, and a mixed row can take it below zero.
  * `DurableCorrect` and `SettledCorrect`, under every fault. `Recorded` says that an
    attempt's uuid is unused until its own save, so a body that writes ACTIVE writes it into a
    row nobody else knows; that a body past its first save has its reservation as its caller
    will be told; and that an ok ends the call. `RecordsKept` is what a step leaves to the others.
  * `RefusedCorrect`, where the database neither refuses nor loses a reply. `Traceless`: a body
    then throws only before its first save, so an error comes from attempts without a trace.
    `SettlersKnown`: a reservation settled since the start has a body past that save, which
    goes on to its end. The theorem covers what the run `serial` has no caller for: a release
    that finds its reservation and is then refused by the row.
  * `OneActiveCorrect` and `OneReservationCorrect`, without the breaker's timer, which is what
    orphans bodies. reserveStock only looks and then saves; that what it saw still holds
    (`OrderIsFree`) is the lock's doing: whoever runs is fired (`Attended`), so holds its lock, and
    two reserving bodies of one order need the same one. The premise `OrdersFit`, one
    row per order, is the callers' to keep: two orders' rows have two locks. The second theorem
    needs `OneLockPerRow` too, since a sale under its own lock could settle the reservation
    between two attempts of the body that made it, and the next attempt would reserve again.
  * `ImplementsCorrect`, the step simulation of `StockLedger`, under `Serial` (see
    `ReservationRefinement`), which the run `serial` meets: one lock per row, orders that fit,
    and no faults but those of Redis. `ReadIsFresh` says
    that what a body read is so until it saves; then the save of the reservation is the ledger's
    operation, and the UPDATE gives the row what the ledger has shown since
    (`MergeOfDifferences`).
  * `BackedCorrect`: the same premises, and a start state with its counters backed
    (`PriorIsBacked`). Counter and reservations are equal sums only as the ledger shows them
    (`Backed`); the ledger's operations, which change both, keep them so, and where no save is under way
    the ledger shows the tables.
* `InventoryServiceProofs`, for any sets of calls, readers and requests, any faults and any
  number of attempts:
  * `TypeCorrect` and `RowsCorrect`, from one invariant. `RowsSound` is not inductive alone:
    what COMMIT stores is the object a body made earlier, so `BodyShape` says that this
    object is sound, and that the request passed restock's check of the quantity.
  * `AppliedOnce`, under the hypothesis that "replyLost" is not among the faults. `OnceInv`:
    while a body runs, none of its attempts has committed, since the one that does ends it;
    an answer other than a timeout is given only before a body starts or where it ends.
  * `LedgerCorrect`, under every fault. COMMIT stores an object that was made earlier, so that
    the sums agree needs that nobody changed the row in between. Here that is the row lock's
    doing, not Redis's: of the bodies that have read a row one at a time holds it
    (`OneHolder`), orphans included. A body that found no row inserts one of its own, under an id
    that is unused until then.
* `TransferProofs`, for any sets of calls, stores and transfers, any faults and any number
  of attempts: `TypesCorrect`, `CountersCorrect`, `StatusCorrect`, `DurableCorrect` and the
  action theorem `NeverPendingCorrect`, all from one invariant `Inv`. None of the four is
  inductive. `BodyShape` adds what a body at each step has in hand (the transfer it loaded,
  objects without a negative counter, the transaction it has written), that an ok was earned,
  and that the id an attempt will insert under is still free: that is why an INSERT
  cannot overwrite a transfer that has moved on. `OthersKept` is what one call's step leaves
  to all the others, and takes the place of a lock in the argument.

  Four more theorems are about the units, and need two premises, without which section 7 shows
  them false: `OneTransfer`, that nobody fails a transfer and that all who start or complete one
  mean the same (any number of others may be created meanwhile), and no timer that orphans a
  body. Then the locks do what they are there for, which is `Orderly`: a body that moves stock is
  alone (`OneMover`: of the same operation two would hold one lock, of different ones they would have
  found the transfer in different states), and its objects are the stored rows and what it
  does to them.
  * `OneRowCorrect`: the INSERT that is retried because its reply was lost finds its row.
  * `NothingInventedCorrect`: between a body's two saves the source has lost what the
    destination has not got, and whatever ends the body there leaves it so (`NoneInvented`).
  * `UnitsCorrect`, where no fault but Redis's is left: then a body that has written the
    source goes on to write the destination, and the inequality is an equation (`NoneLost`).
  * `TransfersImplemented`, the step simulation of `TransferLedger`, under the same premises.
    `Shown` says what the ledger shows in each state in terms of the tables and the one body under way;
    a write of the source's row is the ledger's move, every other step changes nothing
    that is shown.
* `TimedCallProofs`, for any calls, keys, circuits, and any durations under the assumptions:
  `HalfOpenCorrect`; `AnswerCorrect`, from `Timely`, which bounds the age of a call at each
  place it can be; and `ImplementsCorrect`, the step simulation. For it `Covered` says that
  what is left of a holder's lease exceeds what is left of the reply, or of the timer, it waits for; so
  Redis cannot drop the key before the call is answered. `Opened` says that a breaker that is
  not closed has a failed call of its own to show for it, and so has whoever it rejects.
* `HttpServerProofs`, for any calls, rows, requests and signals: `CategoriesCorrect` and
  `NamesCorrect` need `KindsFit`, that every id is of one kind for ever, whether its row is
  stored, deleted or in the memory of a call, since an UPDATE that changed a row's kind could
  take a category from its products. `AnswersCorrect`, an action property: `Informed` says that
  an unanswered call has seen the tables as they are now, that its object carries what it was
  asked for as soon as it is past the lookup of each column (`Carries`), and that a column its UPDATE will not write had its
  value at the SELECT (`CleanWasSeen`). `AdmittedCorrect` first shows that `Decide` agrees with
  `Entitled` for every sequence of decorators, and then (`VerdictStands`) that no later
  step of a request gives it one of the middleware's answers.
* `UserAccountsProofs`, for any calls and users: `TypesCorrect`; `DistinctCorrect`, where a row
  that was deleted and comes back from an object in memory is the case that needs the
  unique columns; `TokensCorrect`, from `TokenEarned`: a login past its lookup has already
  seen the account that entitles it, and what a call has seen stays seen;
  `NothingStaleCorrect`, from `FromTheCall`: what a call is about to save, in each column, it was
  asked for or has seen there, and a column that its UPDATE leaves alone it sees now.

The assumptions are those named in the modules: at least one attempt, requests with
positive quantities (the DTOs demand it), a start state whose rows are balanced and
non-negative, unique and complete, a lease longer than the timer and the lateness around
it, and `None` distinct from data. TLC evaluates them in every run.

Every invariant and action property of the passing runs is thus a theorem, under the
premises named. Only model-checked are the liveness properties (`EveryLockFreed`,
`EveryRequestEnds`, `SignalEnds`, `EventuallyFresh`), which are out of the prover's reach.

## 6. Not modelled

* The listing queries, `isAlive` and logout keep nothing and promise nothing.
* Of the controllers, response formats and page numbers; of start-up, the container and the
  loggers: wiring without state.
* `Reservation.isExpired`, `extend` and `usePartially`, `@Cacheable`, `deletePattern` and
  `validation.middleware.ts` have no caller, so there is no behaviour of the program to state
  a property of.
* Events of reservations and transfers are recorded as published and no further: no handler
  is registered in the deployed program.
* The models of the three stock services are not composed: `adjustStock` next to an unlocked
  reservation of the same row is the interference that orphans and transfers already show.
* The clock of `TimedCall` is not carried into the service modules; they rest on
  `ImplementsGuardedCall` instead.

## 7. Findings

* **settleRace** (`reservation.service.ts:192`): a sale and a release of one order hold
  different keys; the reservation ends as whichever saved last, and the stock has moved for
  both or is mixed from both.

The modelling also met these, which have no run of their own:

* `transfer.service.ts:168`: a retry of `startTransfer`, whose first attempt saved the
  inventory row and failed later, finds the transfer still PENDING and reserves again. When
  the transfer fails, one of the two is given back, although line 348 says "If transfer was in
  transit, release reserved stock".
* `circuit-breaker.decorator.ts:24`: no `volumeThreshold` is passed, so one failed call, or
  one that the domain refused, alone exceeds the threshold and closes the operation to
  everybody of that process for 30 s.
* `main.ts:111`: the message says "closing HTTP server", but nothing closes it: requests are
  accepted until the exit, fail while the data source is being destroyed, and are cut off.
  `isReady` answers 200 meanwhile, and a second signal ends the process with exit code 1.
* `validation.util.ts:13`: a body that fails validation is an `Error` and no
  `DomainException`, so errorHandler answers 500; `__tests__/e2e/error-handling.e2e.spec.ts:70`
  expects 400.
* `category.controller.ts:16`: `@Public()` on the class overrides the five decorators of
  `create`, so the middleware admits every request to categories; the end-to-end tests expect 401
  without a token.
* `category.service.ts:17`, `product.service.ts:27`, `store.service.ts:16`: of two creates of one
  name that both find it free, the second violates the unique column and is answered 500, not 409; an update of a row
  deleted since it was read is answered 200.

* `inventory-item.model.ts:23`: `confirmSale` takes sold units from onHand and adds them to
  committed, while `isConsistent` counts committed as on hand. `ConsistentUntilSale` states
  when the two agree.
* `transfer.service.ts:329`: completing and failing a transfer hold different keys, so a
  transfer whose units have arrived can be marked failed, as in settleRace.
* `transfer.service.ts:143`: two transfers of one row start under different keys, both save
  the row they read, and one of the two reservations is gone.
* `reservation.service.ts:49`: `setLock('pessimistic_write')` without a transaction. TypeORM
  0.3 (the version of `package.json`) throws `PessimisticLockTransactionRequiredError`, so no
  reservation would succeed. The tests of the services mock the repository;
  `__tests__/e2e/inventory-flow.e2e.spec.ts:100` goes through the real one, and expects only a
  404 where the product has no row. The transfer service asks for the same lock in the same
  way. **The results about reservations and transfers are therefore about the logic of the
  services over their repository ports**, not about the program with this driver.
* `reservation.service.ts:43`: the duplicate check is per order, the lock per store and
  product. Two calls of one order on two rows both pass it and leave two ACTIVE reservations,
  although `__tests__/unit/services/reservation.service.spec.ts:57` says "should throw
  AlreadyExistsException for duplicate orderRef". `OneActivePerOrder` is therefore checked
  (run faulty) with requests that keep an order on its row.
* `user.repository.ts:19`: any save that overlaps a deactivation, a change of password or
  another change writes back the values it read, and one that overlaps a deletion inserts the
  user again. Every login is such a save (`authentication.service.ts:39`).
* `user.controller.ts:21`: the role's name is passed where `create` expects its id, as the
  comment there says; the lookup of the role then finds nothing and the request is refused.
* `inventory.service.ts:60`: two bodies that find no row, one of them an orphan, insert one
  each; no unique constraint on product and store prevents it.
