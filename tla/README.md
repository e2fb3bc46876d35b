# Formal model of storefront

TLA+ modules for the parts of storefront in which something can go wrong that
a test would hardly reach: the store's transactions, the product cache, the
outbox relay, the keyset listings, the process lifecycle, the two transports and
the deployment of schema and settings. TLC checks each of them on small
instances; TLAPS proves the safety properties of all of them for every
instance. `PROJECT.json` lists the components, the runs, the hazards
behind the properties and, definition by definition, the lines that are modelled.

## The system

storefront is a Go service in any number of identical instances over one
PostgreSQL, one Valkey and one RabbitMQ.

| Part | State | Operations | Talks to |
|---|---|---|---|
| `internal/store` | tables `products`, `orders`, `idempotency_keys`, `outbox`, `outbox_dead` | `Save`, `Update`, `Delete`, `CreateOrder`, `PurgeIdempotencyKeys`, `DrainBatch`, reads and listings | PostgreSQL, one transaction per write |
| `internal/service` | the flights of `callGroup` | `FindByID`, and every write followed by `invalidate` | store, cache |
| `internal/cache` | one Valkey key per product | `Get`, guarded `Set`/`SetMissing`, `Invalidate` | Valkey |
| `internal/outbox`, `internal/bus`, `internal/pg` listener | place in the `Run` loop, LISTEN connection | drain, publish, settle, wait, back off | outbox table, RabbitMQ, NOTIFY |
| `internal/pg` janitor | none | periodic purge | store |
| `internal/domain` | none | validation, cursors, page sizes | |
| `internal/transport/{http,grpc}`, `internal/auth` | requests in progress, with their deadlines | request checks, status mapping, recovery, graceful shutdown | service |
| `internal/config` | none | defaults, `Load`, `validate` | environment |
| `migrations`, `cmd/migrate` | `goose_db_version`, goose's session lock | `up`, `down`, `status`; `Verify` at startup | PostgreSQL |
| `cmd/storefront` | open resources, errgroup | start, run, drain, close | everything |

What is hard about it:

* **Orders are idempotent per (user, key)** although requests race, keys
  expire, the janitor deletes them, `now()` stands still inside a transaction
  that waits for locks, and a COMMIT may succeed without its answer arriving.
* **Events and data are written together**, and event ids are drawn before
  the commit that makes them visible.
* **The cache is filled by readers and invalidated by writers** of all
  instances without a common lock; a slow reader must not bring back an old row.
* **The relay publishes inside a transaction**: what the broker took cannot be
  rolled back, several relays share one table, and wakeups get lost.
* **Listings are walked page by page** while rows come and go.
* **A request has three clocks**: the server's read and write deadlines, the
  handler's context and the contexts of detached calls. An answer may be lost
  after its write has committed, and the client then sends the request again.
* **Two transports** check the same input and map the same errors, each in its
  own code.
* **Migrators and instances of several releases** meet in one database.
* **Shutdown** closes resources that requests and loops are still using.

## Modules

| Module | Models | Runs |
|---|---|---|
| `ShopData` | rows, events, orders; what each SQL statement makes of a row | through the others |
| `Shop` | abstract specification: every write is one atomic step | as `ImplementsShop` |
| `OrderStore` | the store's writes and the purge, statement by statement | `order_keys`, `order_catalogue`, `order_liveness` |
| `ProductCache` | service and cache for one product, many instances | `cache_*` |
| `Delivery` | abstract specification: at-least-once delivery | as `ImplementsDelivery` |
| `OutboxRelay` | relays, `DrainBatch`, publisher, listener | `relay_delivery` |
| `Pages` | the keyset listings and a client's walk through them | `pages` |
| `Lifecycle` | `run` of `cmd/storefront` | `lifecycle` |
| `Config` | the defaults and every check of `validate.go` | through the next two |
| `Transport` | a request through HTTP or gRPC, its deadlines and its retries | `transport`, `write_deadline` |
| `Deployment` | `cmd/migrate`, `Verify` and `Load` over one database | `deployment` |
| `OrderStoreProofs`, `ProductCacheProofs`, `OutboxRelayProofs`, `PagesProofs`, `LifecycleProofs`, `TransportProofs`, `DeploymentProofs` | theorems about the module each is named after | TLAPS |
| `StockProofs` | conservation of stock in `OrderStore`, and sums over sets of orders | TLAPS |
| `MC...` | symmetry sets, the settings to try | |

The modules meet at tables and calls rather than in one product: `OrderStore`
commits the events `OutboxRelay` begins with (`Write`), `ProductCache` takes the
commits of `Shop` as its `CommitWrite`, and `Transport` takes from `OrderStore`
what a call can answer: a key is looked at before its product, an order and its
key commit together, and stock never grows (`StockLedger`), so a purchase that
was refused stays refused.

A definition named "Mutant" is the definition after it with a plausible bug.
It is used by no action: substituting it shows that the property it is listed
with in `PROJECT.json` would notice.

### OrderStore

Variables are the committed tables, the locks on rows of `products` and
`idempotency_keys`, and per client the place in its transaction (`pc`), its
request (`req`, with `now` = start of the transaction) and its uncommitted
writes (`work`). PostgreSQL's READ COMMITTED is modelled by what a statement
sees: it reads committed rows, waits while another transaction holds the row
it writes, and then judges the row it finds. One action is one statement that
can wait or that reads something others can change; statements that only touch
rows the transaction already holds are part of the action before them.

| Code | Action |
|---|---|
| `withTx` begin / commit / rollback | `Begin...`, `Commit`, `Rollback`, `Abort` |
| `createOrderIdempotent`: `queryInsertIdempotency` | `ClaimKey`, `ConflictKey` |
| `replayIdempotent` | `Replay` |
| `purchaseTx`, `updateIdempotencyResult` | `Purchase` (the rows appear with `Commit`) |
| `purchaseNoRowError` | `PurchaseNoRow`, `NoRowError` |
| `Save`, `Update`, `Delete` | `Save`, `Update`, `Delete`, `Refuse` |
| `PurgeIdempotencyKeys`, by the janitor of each instance | `PurgeBegin`, `PurgeRow`, `PurgeEnd` |

`Commit` may leave its client with an error (`status = "failed"`), and `Abort`
may end a transaction anywhere, so crashes, cancelled contexts and retries are
all there; a retry is a new request with the same key. Purges of several
instances run side by side. Each DELETE takes the rows in an order of its own,
so two of them can wait for each other; PostgreSQL then rolls one back, which
`PurgeEnd` may do at any time. A statement that waited and finds that its row no
longer matches keeps the row's lock, so `PurchaseNoRow` may hold a product and a
purge every key it looked at. `outbox` holds every
event ever committed, because the relay that empties the table has a module of
its own. Left out: names, currencies, the user of an order apart from its key,
and serialization failures (`Abort` covers them).

### ProductCache

One product (keys do not interact). A Valkey value is its tag, the version of
the row it holds, a token that tells tombstones apart, and the ticks it has
left. Every instance has at most one flight, which goes get, load, fill. Flights
carry the ticks left of `SERVICE_LOAD_TIMEOUT`; `Tick` ages entries and flights
and waits for no one but a flight whose deadline is now. `Failures` selects what
may fail. A cache command that fails at the client but takes effect is the
action of its success, since the service ignores the error; it is assumed not
to take effect after the flight's deadline.

The other variables are history. `fence` is the version at the last invalidation
that succeeded; `missed` says that one failed since then, or was skipped because
the commit's answer was lost. `past` is the fence at each of the last
`LoadTimeout + 1` ticks. A call that misses keeps the oldest of them in `since`,
and `unseen` collects what an answer fell behind: the fence at the start of its
flight, or the `since` of a call that joined. A call that joins a flight under way may be
answered from before it began, so the bound is what `callGroup` does promise, a
load timeout.

### OutboxRelay

One action per step of the `Run` loop: claim, one publish, the settling commit,
and the ways each can fail. A batch's row locks are the domain of `batch[r]`;
`attempts` as read by the claim are kept in it, as in `outboxRow`. A transient
publish error may or may not have reached the broker. `Stop` is cancellation or
crash, anywhere in the loop. Whether a row is due is a flag: the length of the
backoff is no part of any property. `faults` counts transient errors, lost
transactions and restarts and is bounded by `MaxFaults`; refusals by the broker
and failures of the listener are not bounded. `ImplementsDelivery` maps the
table to `pending`, the rows the broker took to `delivered` and `outbox_dead` to
`dead`: claims, pauses, restarts and lost transactions are stuttering there, and
a commit settles the rows of its batch, delivered or poisoned, at once.

### Pages

`FindAll` and `FindOrders` are one module, because `productPage` and `orderPage`,
and the queries but for direction and owner, are the same code twice. A page is
one query, so one action: its answer is any sequence that satisfies `ORDER BY id
LIMIT n` over the rows that match (`OrderedLimit`; ids are unique, so there is one). Ids are drawn before commits and by clocks of several
instances, hence rows appear anywhere in the order.

That a walk ends is not claimed: product ids are UUIDv7 and ascend, so a writer as
fast as the client always leaves it a next page. `WalkAdvances` is what the cursor
gives: each page takes at least one row from those to come, and only inserts add
to them.

### Lifecycle

`opened` is the stack of deferred closes. Servers drain until their last
request ends or `SHUTDOWN_TIMEOUT` is over; HTTP then reports an error, gRPC
does not. Requests left behind go on, and `pool.Close` waits for the
connections they hold. Recent grpc-go waits in `GracefulStop` for handlers even
after `Stop`; the model lets the gRPC server leave them as well, which is more than
such a version does, and the properties hold either way.

### Transport

A request is its transport, its operation and the set of things wrong with it.
`Before` and `After` are the checks of middleware, interceptors and handler in
the order of the code, before and after the body is read; the first one that
meets a defect answers. gRPC has the whole message before its first
interceptor. A check is the set of defects it refuses, so a handler is short:

| Code | Definition |
|---|---|
| `NewMiddleware`, `csrf`, `Auth`, `NewMux` | `Csrf`, `RequireAuth`, `Before` |
| the handlers of both packages | `Add` ... `ListOrders`, `CreateProductRPC` ... `ListOrdersRPC` |
| `respondServerError`, `mapDecodeError`, `toStatus` | `ServerError`, `HTTPRefusal`, `ToStatus` |
| `decodeBody` under `ReadTimeout` | `BodyRead`, `BodyLost` |
| `context.WithTimeout` of handlers and `timeout` | `Budget`, `Call` |
| the service call | `StoreAnswers`, `StoreCommits`, `StoreFails`, `CacheHit`, `CacheMiss` |
| `callGroup.Do`, `invalidate` | `FlightEnds`, `Invalidated`, both within `Detached` |
| `recovery` | `Panics` |

Time is in seconds since the headers, which is where net/http starts the write
deadline. A call may use all of its context and return at its end; it is not
modelled that a library returns later than that. `StoreFails` may follow a
COMMIT that took effect. The client may leave, repeat a request it has no certain
answer to, or repeat it while the first attempt is still in the store
(`RetryEarly`, `LateEnds`). For an order the module also keeps the state of its
key and whether the product can still be bought. The key's window is not over
during the retries; `OrderStore` has expiry.

`Wide` is a product whose stock or name passes `Validate` and not the column: its
INSERT fails, so it is answered as a server error by both transports.

### Deployment

Migrations are numbers, a release is how many it embeds, and `applied` is
`goose_db_version`. goose itself is modelled from how it is used: `Up` and `Down`
hold its session lock from the listing of versions to the end, each migration is
one transaction, and `HasPending` compares the newest versions. `Break` is an
error, a signal or a crash anywhere; PostgreSQL then frees the lock. Migrations 3
and 4 refer to tables of 1 and 3, as their SQL does. `undone` records that a
`down` was committed after a process looked: nothing protects a running instance
from that, and the command's usage text calls it "local dev only".

All processes share one environment, which `Load` refuses or not; `cmd/migrate`
looks at the database settings alone. The run has one that both accept, one that
both refuse and one that only `cmd/storefront` refuses.

## What the runs show

| Run | Shows | Bounds |
|---|---|---|
| `order_keys` | the inductive invariant `Inv`; `OneOrderPerKey`, `ReplayFindsOrder`, `ReplyTruthful`, `NoCircularWait`; `ImplementsShop` | 2 clients, 2 janitors, 1 product with a stock of 3, 1 key, 4 requests, TTL 1, clock to 2: create, order, expiry, purge and a third order all fit |
| `order_catalogue` | `EventPerVersion`, `OrderPerPurchase`, `StockLedger`, `OrderedProductsStay`, `StockConserved` | 2 clients, 1 janitor, 2 products, 2 keys, 2 prices, 4 requests, no passing of time |
| `order_liveness` | `RequestsFinish` | 2 clients, 2 janitors, 3 requests |
| `cache_fencing` | `NoOldFill`, `ReadsSeeInvalidated`, `SettledIsFresh` | 2 instances with 2 calls each, 2 writers, 3 versions, timeout 1 < negative TTL 2 < TTL 3; cache, store and client failures |
| `cache_liveness` | `EventuallyCoherent`, `ReadsFinish` | 1 instance, 2 readers, all failures and eviction |
| `cache_disconnect` | expected violation, see below | 1 instance, 1 writer |
| `relay_delivery` | `RepeatsNeedFaults`, `AttemptsAreRefusals`, `DeadAtMaxAttempts`; `ImplementsDelivery`; `EventuallySettled` | 2 relays, 2 events, batches of 2, 2 attempts, 1 fault |
| `pages` | `WalkComplete`, `ListedInOrder`, `WalkAdvances` | 4 ids, 2 users, pages of 1, 2 and 3 |
| `lifecycle` | `RunningTasksHaveResources`, `RequestsAreDrained`, `ExitStatusHonest`, `ShutdownEnds` | all tasks and resources, 2 requests |
| `transport` | `AnswerMatchesEffect`, `PurchaseOnce`, `SameVerdict`, `ResponseInTime`, `RequestsAnswered` | the default timeouts in seconds, every operation on both transports, up to 2 defects, 3 tries |
| `write_deadline` | expected violation, see below | timeouts of 1, 2 and 3, one try |
| `deployment` | `SchemaHasNoGap`, `SchemaIsComplete` | 2 migrators, 1 instance, releases of 2 and 4 migrations, three environments |

Two of anything that competes is what these races need; the third request,
version or id is the one that meets the leftovers of the first two. The proofs
remove the bounds for the safety properties, which leaves them for liveness. Two
defects are what an order of checks can be
told apart by. The clock of `transport` goes beyond every sum of timeouts, and
`deployment` has no bound: processes may start, fail and die for ever. One fault
in `relay_delivery` is a crash, an outage or a lost commit at any point, on
either relay.

Deadlock is checked except in the `OrderStore` runs, which stop when
`MaxRequests` requests are done. Symmetry of clients, janitors, instances, their
calls, writers and migrators is used in safety runs only, and they are interchangeable in all of them.

### Fairness

* `OrderStore`: strong fairness of a client's next statement and of each purge's
  next row, because PostgreSQL queues the waiters of a lock; a purge ends, by
  its commit or by PostgreSQL when it is part of a deadlock. No request needs
  to be sent, no purge to start, no time to pass.
* `ProductCache`: goroutines run and time passes. Every detached call has the
  deadline `loadTimeout`. Nobody needs to read or write.
* `OutboxRelay`: a relay's loop goes on, since each of its waits has a timeout,
  and a stopped process is started again. The faults of the environment end
  (`MaxFaults`); without that no relay could promise delivery.
* `Transport`: goroutines run, time passes, and a call whose context has ended
  returns its error. No client has to send its body, and neither the store nor
  the cache has to answer.
* `Lifecycle`: goroutines run, and store calls end because their contexts do.

### Findings

`service.go:48` says that "a client disconnect cannot leave the cache
unwritten". The invalidation is detached from the caller, but the store call
before it is not: if the caller's context ends between PostgreSQL's commit and
its answer, `withTx` returns an error and the service returns before
`invalidate`. `cache_disconnect` shows the state that remains: a committed row,
no writer under way, and a cache that answers the old one until its TTL.
`EventuallyCoherent` in `cache_liveness` shows that the TTL does end it.

`validate.go:67` says that `validateResponseDeadline` "keeps the write deadline
past the handler budget, or a response gets cut". It compares
`HTTP_WRITE_TIMEOUT` with `HTTP_REQUEST_TIMEOUT` alone, but the write deadline
also has to cover the reading of the body before the handler's context starts
and a detached flight or invalidation after it. `write_deadline` takes accepted
settings and finds a response that is ready too late, its write committed. The
defaults leave room: `ResponseInTime` holds in `transport`, where the slowest
answer comes after 5 + 2 + 1 of 10 seconds. For the same reason an RPC may take
`SERVICE_LOAD_TIMEOUT` longer than the `timeout` interceptor allows.

### Preconditions worth knowing

`NoOldFill` needs `SERVICE_LOAD_TIMEOUT` below both cache TTLs and no eviction:
otherwise the tombstone can be gone before the flight it fences. The defaults
(1s against 5m and 1m) satisfy it; `config.validate` does not check it.

`validateListenAddresses` compares addresses as text, so an empty host and
`0.0.0.0` with one port are accepted and collide when they are bound. That is a
loud failure of startup (`Lifecycle`). The checks of `validate` guard startup and have no
property of their own; what they leave open for the timeouts is `ResponseInTime`. `IDEMPOTENCY_TTL` reaches PostgreSQL in microseconds, and a positive TTL
below one half of that is stored as zero.

## What is proved

Every safety property of the passing runs, and both refinements, for all values of
the constants. The proofs assume what the `ASSUME`s of the modules name (positive
quantities, prices, TTLs, limits and timeouts; null values that are not values;
clients that are not janitors; integer settings), which TLC evaluates in every run,
and two modules state a further hypothesis, which the configuration does not
enforce. No property is an induction by itself; each module's inductive invariant
was checked by TLC on the instance of its run before it was proved, and is kept by
one lemma or step per action.

| Module | Inductive invariant | Theorems |
|---|---|---|
| `OrderStoreProofs` | `Inv` | `Invariance`, `TypeCorrect`, `KeyIsExclusive`, `ReplaysFindOrders`, `RepliesAreTrue`, `NoDualWrite`, `PurchasesAreOrders`, `StockIsAccountedFor`, `OrderedProductsAreKept`, `RequestsDoNotDeadlock`, `StoreImplementsShop` |
| `StockProofs` | `StockInv` | `StockIsConserved` |
| `ProductCacheProofs` | `CacheInv` | `CacheTypes`; under `EntriesOutliveFlights`: `CacheInvariant`, `NoOldRowIsFilled`, `ReadsAreRecent`, `SettledCacheIsFresh` |
| `OutboxRelayProofs` | `RelayInv` | `RelaysInvariant`, `RelayTypes`, `RepeatsOnlyAfterFaults`, `AttemptsCountRefusals`, `DeadExactlyAtMaxAttempts`, `RelaysImplementDelivery` |
| `PagesProofs` | `PagesInv` | `PagesInvariant`, `PagesTypes`, `WalksAreComplete`, `WalksAreOrdered`, `WalksAdvance` |
| `LifecycleProofs` | `LifecycleInv` | `LifecycleInvariant`, `LifecycleTypes`, `TasksHaveResources`, `OnlyLateServersLeaveRequests`, `ExitStatusIsHonest` |
| `TransportProofs` | `TransportInv`, `CheckInv` | `TransportInvariant`, `AnswersMatchEffects`, `PurchasesHappenOnce`, `VerdictsAgree`; under `TimeoutsAddUp`: `ResponsesAreInTime` |
| `DeploymentProofs` | `DeployInv` | `DeployInvariant`, `SchemaIsGapless`, `ServedSchemaIsComplete` |

### The store

`Inv` adds to the types:

* `SessionInv`: what a place in a transaction says of its request and the
  locks it holds;
* `LockInv`: who holds a lock is past the statement that took it;
* `IdInv`, `SeqInv`: order ids and outbox ids are never used twice, and the id
  a transaction drew lies beyond those of its product's committed events
  (it holds the row's lock since before it drew it);
* `TimeInv`: no transaction, claim or purge is from the future;
* `RowInv`: an uncommitted row is still what its statement makes of the
  committed one, which is where the row locks do their work;
* `KeyInv`: the row of a key outlives the window of every order made with it,
  and whoever holds a claim came after all those windows;
* `ResultInv`: a committed key names its order, and the row a replay locked
  stays.

Each part has a lemma that every step preserves it, one step per action. The
properties about events and orders are then invariants relative to `Inv`: only
`Commit` changes the tables, and `CommitEffect` says how. `OrderPerPurchase` compares an
order's price with the event one version before its own, so it also needs
`PricePublished`: the price of a committed row is the one its version's event
carries. The refinement maps
`Commit` to the write of `Shop` its request names, `Tick` to `Tick` and every
other step to stuttering.

`RequestsDoNotDeadlock` is the safety half of `RequestsFinish` and follows from
`LockInv`: who is waited for because of a key waits at most for a product's row,
and who holds a row waits for no other lock. Purges can wait for each other and
are the only ones that can.

`StockIsConserved` needs to know what a sum over a set of orders is. `Units` is
the fold of the community modules, a recursive function that picks any order
first. `StockProofs` shows that its equation has a solution on every finite set,
that the result does not depend on which order is picked first, and that one
order more adds its quantity (`UnitsAdded`). These are inductions over the number
of orders; the library's induction rules take a predicate as their parameter, which the
provers cannot instantiate, so the rule is first proved for a set of numbers
(`SetInduction`, from the well-foundedness of `<`). The step is then short:
a purchase moves its quantity from the row to the orders, an update moves
nothing, and a creation starts a product that no event (`EventPerVersion`) and no
order (`OrderedProductsStay`) speaks of yet.

### The cache

`EntriesOutliveFlights` says that `SERVICE_LOAD_TIMEOUT` is below both TTLs and that
Valkey evicts nothing. The argument is about a flight between its load and its
fill: either the row it loaded is no older than the last invalidation, or it is
`Fenced`, which means that the key holds something other than what the flight
found and will hold it for longer than the flight has left, so that `guardedSet` refuses.
An invalidation fences every flight under way, because its tombstone has a token
none of them has seen and a full TTL; `Tick` takes as much from the entry as from
the flight. `FenceInv` adds that a version without an invalidation is some writer's to
announce or was missed, which is what `SettledIsFresh` needs. `TimeInv` orders `past`, and a
flight with `l` ticks left began no more than `LoadTimeout - l` ticks ago; hence its floor
is no lower than the fence of `LoadTimeout + 1` ticks ago that a joining call keeps
(`FloorIsRecent`).

### The relays

`ClaimInv`: a row is in at most one batch (`FOR UPDATE SKIP LOCKED`), pending, with
the attempts the batch read. `CountInv` then relates what the broker saw to what
the row says: a pending row that is in nobody's `sent` was taken at most as often
as there were faults, and its refusals exceed its attempts by no more than faults
and the one refusal under way. A commit turns `sent` into deleted rows and
`failed` into attempts, and a lost one turns both into a fault. The refinement
follows from `ClaimInv` and `RowInv`: a commit settles rows that are pending, and
all else stutters.

### The listings

A page is described by its query and not by an algorithm, so the proof reasons
from `ORDER BY` and `LIMIT`: a full page has all rows up to its last one, and a page that
is not full has all there are. `WalkInv` says that what is listed is behind the cursor and
that a row that was there throughout is listed or ahead. Rows may be inserted or
deleted anywhere, the row of the cursor included, and every page may have another size.
`PageTakes` describes what is ahead after a page: exactly what was ahead of it before, without
the rows shown. With `WriterAdds`, the same for inserts and deletes, it gives `WalksAdvance`.

### The lifecycle

`StageInv` says which tasks exist at each stage of `run` and that everything is open
while it serves; `ServerInv` and `RequestInv` that a server which broke or ran late
has reported it (gRPC excepted) and that a request outlives its server only if the
server ran late.

### The transports

`TimeInv` gives every wait its share of `ReadTimeout + RequestTimeout + LoadTimeout`;
`TimeoutsAddUp` compares that sum with the write timeout, and `write_deadline` shows
that what `validate` checks is not enough. `AnswerInv` and `KeyInv` say what is known
of the write, the key and the product at each point and in each answer, and give
`AnswerMatchesEffect` and `PurchaseOnce` for any number of repeats. `SameVerdict` compares two lists of
checks in different orders: `CheckInv` says that an answer names a defect of the
first check that fails, and a lemma for each operation shows that the lists of both
transports look for the same shared defects and agree on the class of whichever
comes first.

### The deployment

`Prefix`: the applied migrations are `1 .. n`. `JobInv` gives the lock its meaning: who
lists or runs migrations holds it, so what it has left to do still fits the schema.
`SchemaIsComplete` is inductive with these.

### Only model-checked

* Liveness (`RequestsFinish`, `EventuallyCoherent`, `ReadsFinish`, `EventuallySettled`,
  `ShutdownEnds`, `RequestsAnswered`): the prover has no rules for
  fairness.

## Not modelled

* Response bodies and headers, CORS, compression, logging, the probes and pprof
  (`Transport` keeps the status and the time of an answer), routes the mux does
  not know, and the JSON and protobuf decoders beyond accept and refuse.
* The check of a token's signature and claims, which is a library's; the ways
  it can fail are there.
* Environment parsing, secrets and the logger.
* The token command, a developer tool that prints one token, and the generated
  API code.
* The SQL of the migrations beyond tables and references, and goose's retries
  for its lock beyond taking it or giving up.
* The order in which the relay delivers events of one product: a refused event
  is retried after later ones, and the repository's README promises no order and
  has consumers compare `version`.
