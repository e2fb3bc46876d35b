----------------------------- MODULE OrderStore -----------------------------
(***************************************************************************)
(* internal/store: the transactions that write products, orders,           *)
(* idempotency_keys and outbox, and the janitor's purge, interleaved one   *)
(* SQL statement at a time.  PostgreSQL runs them READ COMMITTED: a        *)
(* statement reads committed rows, a write waits for the row's lock, and   *)
(* locks are held to the end of the transaction.  Statements that only     *)
(* touch rows the transaction already holds are part of the action of the  *)
(* statement that took the lock.                                           *)
(***************************************************************************)
EXTENDS ShopData, FiniteSetsExt

CONSTANTS
    Clients,        \* concurrent requests, of any number of instances
    NoOne,          \* the holder of a free lock
    Janitors,       \* the janitors of all instances
    NoRow,          \* a missing row of idempotency_keys
    NoReq,          \* an idle client's request
    MaxRequests,    \* bound on the number of requests
    MaxClock        \* bound on the clock

ASSUME ClientAssumption ==
    /\ NoOne \notin Clients \cup Janitors /\ Clients \cap Janitors = {}
    /\ MaxRequests \in Nat /\ MaxClock \in Nat

VARIABLES
    products,   \* committed rows of products
    orders,     \* committed rows of orders
    keys,       \* committed rows of idempotency_keys
    outbox,     \* every event committed to outbox (the relay is elsewhere)
    clock,      \* PostgreSQL's wall clock
    nextSeq,    \* the identity sequence of outbox, not transactional
    issued,     \* number of requests begun, it also numbers the order ids
    rowLock,    \* holder of the lock on each row of products
    keyLock,    \* holder of the lock on each row of idempotency_keys
    pc,         \* where each client's transaction is
    req,        \* its request, with now() = the start of the transaction
    work,       \* its uncommitted results
    purge,      \* the DELETE of each janitor
    replies     \* history: every answer given to an order request

vars == <<products, orders, keys, outbox, clock, nextSeq, issued, rowLock,
          keyLock, pc, req, work, purge, replies>>
tables == <<products, orders, keys, outbox>>
locks == <<rowLock, keyLock>>
session == <<pc, req, work>>

-----------------------------------------------------------------------------
(* A committed row of idempotency_keys.  The hash of the request is its    *)
(* product and quantity (hashOrderRequest).                                *)
KeyRow == [product : Products, qty : Quantities, order : Nat, expires : Nat]

ASSUME RowAssumption == NoRow \notin KeyRow

OrderReq == [op : {"order"}, product : Products, id : Nat, now : Nat,
             key : Keys, qty : Quantities]
SaveReq == [op : {"save"}, product : Products, id : Nat, now : Nat,
            stock : Stocks, price : Prices]
UpdateReq == [op : {"update"}, product : Products, id : Nat, now : Nat,
              price : Prices]
DeleteReq == [op : {"delete"}, product : Products, id : Nat, now : Nat]
Request == OrderReq \cup SaveReq \cup UpdateReq \cup DeleteReq

ASSUME RequestAssumption == NoReq \notin Request

(* row: the product row the transaction wrote; seq: the id of its outbox   *)
(* row; claimed: the clock when it claimed its key.                        *)
Work == [row : Row, seq : Nat, claimed : Nat]
NoWork == [row |-> FreshRow, seq |-> 0, claimed |-> 0]

Purge == [active : BOOLEAN, now : Nat, todo : SUBSET Keys, doomed : SUBSET Keys]
NoPurge == [active |-> FALSE, now |-> 0, todo |-> {}, doomed |-> {}]

Statuses == {"created", "replayed", "mismatch", "notfound", "insufficient",
             "noresult"}
Reply == [key : Keys, product : Products, qty : Quantities, id : Nat,
          status : Statuses, order : Nat]

TypeOK ==
    /\ products \in [Products -> Row]
    /\ orders \in SUBSET Order
    /\ keys \in [Keys -> KeyRow \cup {NoRow}]
    /\ outbox \in SUBSET Event
    /\ clock \in Nat /\ nextSeq \in Nat /\ issued \in Nat
    /\ rowLock \in [Products -> Clients \cup {NoOne}]
    /\ keyLock \in [Keys -> Clients \cup Janitors \cup {NoOne}]
    /\ pc \in [Clients -> {"idle", "begun", "claimed", "replay", "norow", "written"}]
    /\ req \in [Clients -> Request \cup {NoReq}]
    /\ work \in [Clients -> Work]
    /\ purge \in [Janitors -> Purge]
    /\ replies \in SUBSET Reply

Init ==
    /\ products = [p \in Products |-> FreshRow]
    /\ orders = {}
    /\ keys = [k \in Keys |-> NoRow]
    /\ outbox = {}
    /\ clock = 0 /\ nextSeq = 1 /\ issued = 0
    /\ rowLock = [p \in Products |-> NoOne]
    /\ keyLock = [k \in Keys |-> NoOne]
    /\ pc = [c \in Clients |-> "idle"]
    /\ req = [c \in Clients |-> NoReq]
    /\ work = [c \in Clients |-> NoWork]
    /\ purge = [j \in Janitors |-> NoPurge]
    /\ replies = {}

-----------------------------------------------------------------------------
(* withTx and what every operation shares.                                 *)

Free(lock, x) == lock[x] = NoOne

Take(lock, x, c) == [lock EXCEPT ![x] = c]

(* Mutant: a transaction that is never rolled back keeps its locks. *)
ReleasedNever(lock, c) == lock

(* The end of a transaction frees every lock its client holds. *)
Released(lock, c) ==
    [x \in DOMAIN lock |-> IF lock[x] = c THEN NoOne ELSE lock[x]]

(* pool.Begin: the transaction starts and fixes now(). *)
Begin(c, r) ==
    /\ pc[c] = "idle"
    /\ issued < MaxRequests
    /\ issued' = issued + 1
    /\ pc' = [pc EXCEPT ![c] = "begun"]
    /\ req' = [req EXCEPT ![c] = r]
    /\ UNCHANGED <<tables, clock, nextSeq, locks, work, purge, replies>>

Running(c, at, op) == pc[c] = at /\ req[c].op = op

(* The answer to an order request.  The answers of the other operations    *)
(* are not kept, nor is a failure: it tells its client nothing.            *)
Answered(c, status, id) ==
    IF req[c].op = "order" /\ status # "failed"
    THEN replies \cup {[key |-> req[c].key, product |-> req[c].product,
                        qty |-> req[c].qty, id |-> req[c].id,
                        status |-> status, order |-> id]}
    ELSE replies

Finish(c, status, id) ==
    /\ pc' = [pc EXCEPT ![c] = "idle"]
    /\ req' = [req EXCEPT ![c] = NoReq]
    /\ work' = [work EXCEPT ![c] = NoWork]
    /\ rowLock' = Released(rowLock, c)
    /\ keyLock' = Released(keyLock, c)
    /\ replies' = Answered(c, status, id)
    /\ UNCHANGED <<clock, nextSeq, issued, purge>>

(* fn returned an error, so withTx rolls back: the tables keep their rows. *)
Rollback(c, status) == Finish(c, status, req[c].id) /\ UNCHANGED tables

(* insertOutbox after a write: the sequence advances at once, the rows wait *)
(* for the commit.                                                         *)
Written(c, r) ==
    /\ pc' = [pc EXCEPT ![c] = "written"]
    /\ work' = [work EXCEPT ![c] = [row |-> r, seq |-> nextSeq, claimed |-> @.claimed]]
    /\ nextSeq' = nextSeq + 1
    /\ UNCHANGED <<tables, clock, issued, req, purge, replies>>

-----------------------------------------------------------------------------
(* createOrderIdempotent.                                                  *)

BeginOrder(c) ==
    \E k \in Keys, p \in Products, n \in Quantities :
        Begin(c, [op |-> "order", product |-> p, id |-> issued, now |-> clock,
                  key |-> k, qty |-> n])

(* Mutant: the key is free at the very end of its window. *)
ClaimableAtExpiry(k, now) == keys[k] # NoRow => keys[k].expires <= now

(* The WHERE clause of queryInsertIdempotency, against the transaction's   *)
(* own now(), which may be long past when the statement waited for a lock. *)
Claimable(k, now) == keys[k] # NoRow => keys[k].expires < now

(* queryInsertIdempotency affected a row: the key is this order's. *)
ClaimKey(c) ==
    /\ Running(c, "begun", "order")
    /\ Free(keyLock, req[c].key)
    /\ Claimable(req[c].key, req[c].now)
    /\ keyLock' = Take(keyLock, req[c].key, c)
    /\ pc' = [pc EXCEPT ![c] = "claimed"]
    /\ work' = [work EXCEPT ![c] = [row |-> @.row, seq |-> @.seq, claimed |-> clock]]
    /\ UNCHANGED <<tables, clock, nextSeq, issued, rowLock, req, purge, replies>>

(* Mutant: ON CONFLICT DO NOTHING takes no lock. *)
ConflictKeyUnlocked(c) ==
    /\ Running(c, "begun", "order")
    /\ Free(keyLock, req[c].key)
    /\ ~Claimable(req[c].key, req[c].now)
    /\ pc' = [pc EXCEPT ![c] = "replay"]
    /\ UNCHANGED <<tables, clock, nextSeq, issued, locks, req, work, purge, replies>>

(* It affected none: ON CONFLICT DO UPDATE still locks the row it found. *)
ConflictKey(c) ==
    /\ Running(c, "begun", "order")
    /\ Free(keyLock, req[c].key)
    /\ ~Claimable(req[c].key, req[c].now)
    /\ keyLock' = Take(keyLock, req[c].key, c)
    /\ pc' = [pc EXCEPT ![c] = "replay"]
    /\ UNCHANGED <<tables, clock, nextSeq, issued, rowLock, req, work, purge, replies>>

(* querySelectIdempotency joins the key's row with its order. *)
StoredOrder(k) == {o \in orders : keys[k] # NoRow /\ o.id = keys[k].order}

(* Mutant: the request hash leaves the quantity out. *)
SameProduct(k, r) == keys[k].product = r.product

SameRequest(k, r) == keys[k].product = r.product /\ keys[k].qty = r.qty

(* replayIdempotent, then the commit or rollback of a transaction that     *)
(* wrote nothing.                                                          *)
Replay(c) ==
    /\ Running(c, "replay", "order")
    /\ LET k == req[c].key IN
        \/ StoredOrder(k) = {} /\ Rollback(c, "noresult")
        \/ StoredOrder(k) # {} /\ ~SameRequest(k, req[c]) /\ Rollback(c, "mismatch")
        \/ /\ StoredOrder(k) # {} /\ SameRequest(k, req[c])
           /\ Finish(c, "replayed", keys[k].order) /\ UNCHANGED tables

(* Mutant: the stock is read without the row's lock and written back. *)
PurchaseUnlocked(c) ==
    /\ Running(c, "claimed", "order")
    /\ Purchasable(products[req[c].product], req[c].qty)
    /\ UNCHANGED locks
    /\ Written(c, Purchased(products[req[c].product], req[c].qty))

(* purchaseTx: the decrement waits for the row; the order, the event and   *)
(* the key's result follow under its lock.                                 *)
Purchase(c) ==
    /\ Running(c, "claimed", "order")
    /\ Free(rowLock, req[c].product)
    /\ Purchasable(products[req[c].product], req[c].qty)
    /\ rowLock' = Take(rowLock, req[c].product, c)
    /\ UNCHANGED keyLock
    /\ Written(c, Purchased(products[req[c].product], req[c].qty))

(* The decrement matched no committed row.  When its snapshot showed none, *)
(* it waits for no lock; when the row it waited for no longer matches, it  *)
(* keeps that row's lock.                                                  *)
PurchaseNoRow(c) ==
    /\ Running(c, "claimed", "order")
    /\ ~Purchasable(products[req[c].product], req[c].qty)
    /\ pc' = [pc EXCEPT ![c] = "norow"]
    /\ \/ UNCHANGED rowLock
       \/ /\ products[req[c].product].state = "live"
          /\ Free(rowLock, req[c].product)
          /\ rowLock' = Take(rowLock, req[c].product, c)
    /\ UNCHANGED <<tables, clock, nextSeq, issued, keyLock, req, work, purge, replies>>

(* purchaseNoRowError reads the product again, in a later snapshot. *)
NoRowError(c) ==
    /\ Running(c, "norow", "order")
    /\ \/ products[req[c].product].state # "live" /\ Rollback(c, "notfound")
       \/ products[req[c].product].state = "live" /\ Rollback(c, "insufficient")

-----------------------------------------------------------------------------
(* Save, Update, Delete.                                                   *)

(* uuid.NewV7 never returns an id that is in use. *)
BeginSave(c) ==
    \E p \in Products, s \in Stocks, price \in Prices :
        /\ products[p].state = "fresh"
        /\ \A d \in Clients : pc[d] # "idle" =>
                ~(req[d].op = "save" /\ req[d].product = p)
        /\ Begin(c, [op |-> "save", product |-> p, id |-> issued, now |-> clock,
                     stock |-> s, price |-> price])

Save(c) ==
    /\ Running(c, "begun", "save")
    /\ Written(c, Inserted(req[c].stock, req[c].price))
    /\ UNCHANGED locks

BeginUpdate(c) ==
    \E p \in Products, price \in Prices :
        Begin(c, [op |-> "update", product |-> p, id |-> issued, now |-> clock,
                  price |-> price])

(* Mutant: the whole row is read without its lock and written back. *)
UpdateUnlocked(c) ==
    /\ Running(c, "begun", "update")
    /\ products[req[c].product].state = "live"
    /\ UNCHANGED locks
    /\ Written(c, Repriced(products[req[c].product], req[c].price))

Update(c) ==
    /\ Running(c, "begun", "update")
    /\ products[req[c].product].state = "live"
    /\ Free(rowLock, req[c].product)
    /\ rowLock' = Take(rowLock, req[c].product, c)
    /\ UNCHANGED keyLock
    /\ Written(c, Repriced(products[req[c].product], req[c].price))

BeginDelete(c) ==
    \E p \in Products :
        Begin(c, [op |-> "delete", product |-> p, id |-> issued, now |-> clock])

(* orders.product_id REFERENCES products ON DELETE RESTRICT. *)
InUse(p) == \E o \in orders : o.product = p

(* Mutant: the check for orders does not wait for the row. *)
DeleteUnlocked(c) ==
    /\ Running(c, "begun", "delete")
    /\ products[req[c].product].state = "live"
    /\ ~InUse(req[c].product)
    /\ UNCHANGED locks
    /\ Written(c, Removed(products[req[c].product]))

Delete(c) ==
    /\ Running(c, "begun", "delete")
    /\ products[req[c].product].state = "live"
    /\ Free(rowLock, req[c].product)
    /\ ~InUse(req[c].product)
    /\ rowLock' = Take(rowLock, req[c].product, c)
    /\ UNCHANGED keyLock
    /\ Written(c, Removed(products[req[c].product]))

(* ErrNotFound of Update and Delete, and ErrProductInUse of Delete. *)
Refuse(c) ==
    /\ pc[c] = "begun" /\ req[c].op \in {"update", "delete"}
    /\ \/ products[req[c].product].state # "live"
       \/ /\ req[c].op = "delete"
          /\ Free(rowLock, req[c].product)
          /\ InUse(req[c].product)
    /\ Rollback(c, "failed")

-----------------------------------------------------------------------------
(* The end of a transaction that wrote.                                    *)

EventType(op) == CASE op = "order" -> "purchased" [] op = "save" -> "created"
                   [] op = "update" -> "updated" [] op = "delete" -> "deleted"

OrderQty(r) == IF r.op = "order" THEN r.qty ELSE 0

PendingEvent(c) ==
    NewEvent(work[c].seq, EventType(req[c].op), req[c].product, work[c].row,
             OrderQty(req[c]))

(* Mutant: the price comes from a copy of the product read earlier. *)
PendingOrderCopied(c) ==
    [id |-> req[c].id, key |-> req[c].key, product |-> req[c].product,
     qty |-> req[c].qty,
     price |-> (CHOOSE e \in outbox : e.product = req[c].product /\ e.version = 1).price,
     version |-> work[c].row.version,
     created |-> req[c].now, claimed |-> work[c].claimed]

(* queryInsertOrder; the price is the one the decrement returned. *)
PendingOrder(c) ==
    [id |-> req[c].id, key |-> req[c].key, product |-> req[c].product,
     qty |-> req[c].qty, price |-> work[c].row.price,
     version |-> work[c].row.version,
     created |-> req[c].now, claimed |-> work[c].claimed]

(* The key's row after queryInsertIdempotency and updateIdempotencyResult. *)
PendingKey(c) ==
    [product |-> req[c].product, qty |-> req[c].qty, order |-> req[c].id,
     expires |-> ExpiresAt(req[c].now)]

(* The server commits.  The client may still get an error, when its        *)
(* connection or context ends before the acknowledgement arrives.          *)
Commit(c) ==
    /\ pc[c] = "written"
    /\ products' = [products EXCEPT ![req[c].product] = work[c].row]
    /\ outbox' = outbox \cup {PendingEvent(c)}
    /\ IF req[c].op = "order"
       THEN /\ orders' = orders \cup {PendingOrder(c)}
            /\ keys' = [keys EXCEPT ![req[c].key] = PendingKey(c)]
       ELSE UNCHANGED <<orders, keys>>
    /\ \E status \in {"created", "failed"} : Finish(c, status, req[c].id)

(* Any statement can fail: a lost connection, a cancelled context, a crash *)
(* of the instance.  PostgreSQL rolls back.                                *)
Abort(c) == pc[c] # "idle" /\ Rollback(c, "failed")

-----------------------------------------------------------------------------
(* PurgeIdempotencyKeys, run by each instance's janitor once per interval: *)
(* one DELETE that visits the rows its snapshot shows expired, waits for   *)
(* each one's lock and checks the row it then finds again, keeping the     *)
(* lock either way.  A DELETE that finds no expired row is a stuttering    *)
(* step.                                                                   *)

Expired(k, now) == keys[k] # NoRow /\ keys[k].expires < now

PurgeBegin(j) ==
    /\ ~purge[j].active
    /\ \E k \in Keys : Expired(k, clock)
    /\ purge' = [purge EXCEPT ![j] =
                    [active |-> TRUE, now |-> clock,
                     todo |-> {k \in Keys : Expired(k, clock)}, doomed |-> {}]]
    /\ UNCHANGED <<tables, clock, nextSeq, issued, locks, session, replies>>

Visited(j, k, doomed) ==
    [purge EXCEPT ![j] = [active |-> TRUE, now |-> purge[j].now,
                          todo |-> purge[j].todo \ {k}, doomed |-> doomed]]

(* Mutant: the DELETE trusts its snapshot after it waited. *)
PurgeRowStale(j) ==
    /\ UNCHANGED <<tables, clock, nextSeq, issued, rowLock, session, replies>>
    /\ \E k \in purge[j].todo :
        /\ Free(keyLock, k)
        /\ keyLock' = Take(keyLock, k, j)
        /\ purge' = Visited(j, k, purge[j].doomed \cup {k})

PurgeRow(j) ==
    /\ UNCHANGED <<tables, clock, nextSeq, issued, rowLock, session, replies>>
    /\ \E k \in purge[j].todo :
        /\ Free(keyLock, k)
        /\ keyLock' = IF keys[k] # NoRow THEN Take(keyLock, k, j) ELSE keyLock
        /\ \/ /\ Expired(k, purge[j].now)
              /\ purge' = Visited(j, k, purge[j].doomed \cup {k})
           \/ /\ ~Expired(k, purge[j].now)
              /\ purge' = Visited(j, k, purge[j].doomed)

(* The DELETE has visited all its rows and commits, or it is rolled back:  *)
(* it failed, or two janitors waited for each other and PostgreSQL ended   *)
(* one of them.                                                            *)
PurgeEnd(j) ==
    /\ purge[j].active
    /\ \/ /\ purge[j].todo = {}
          /\ keys' = [k \in Keys |-> IF k \in purge[j].doomed THEN NoRow ELSE keys[k]]
       \/ UNCHANGED keys
    /\ purge' = [purge EXCEPT ![j] = NoPurge]
    /\ keyLock' = Released(keyLock, j)
    /\ UNCHANGED <<products, orders, outbox, clock, nextSeq, issued, rowLock,
                   session, replies>>

Tick ==
    /\ clock < MaxClock
    /\ clock' = clock + 1
    /\ UNCHANGED <<tables, nextSeq, issued, locks, session, purge, replies>>

-----------------------------------------------------------------------------
BeginRequest(c) == BeginOrder(c) \/ BeginSave(c) \/ BeginUpdate(c) \/ BeginDelete(c)

Step(c) ==
    \/ ClaimKey(c) \/ ConflictKey(c) \/ Replay(c)
    \/ Purchase(c) \/ PurchaseNoRow(c) \/ NoRowError(c)
    \/ Save(c) \/ Update(c) \/ Delete(c) \/ Refuse(c)
    \/ Commit(c)

Next ==
    \/ \E c \in Clients : BeginRequest(c) \/ Step(c) \/ Abort(c)
    \/ \E j \in Janitors : PurgeBegin(j) \/ PurgeRow(j) \/ PurgeEnd(j)
    \/ Tick

Spec == Init /\ [][Next]_vars

(* PostgreSQL grants a lock to its waiters in turn, so a statement whose   *)
(* lock comes free again and again is not passed over forever.  Nothing    *)
(* obliges a client to send a request, a janitor to start or time to pass. *)
Fairness ==
    /\ \A c \in Clients : SF_vars(Step(c))
    /\ \A j \in Janitors : SF_vars(PurgeRow(j)) /\ WF_vars(PurgeEnd(j))

FairSpec == Spec /\ Fairness

-----------------------------------------------------------------------------
(* A key makes no second order before the window of the first is over: of  *)
(* two orders with one key, the later claim happened when the earlier      *)
(* order's key had expired (createOrderIdempotent, the purge, and every    *)
(* retry, crash and lost acknowledgement between them).                    *)
OneOrderPerKey ==
    \A o1, o2 \in orders : o1.key = o2.key /\ o1 # o2 =>
        \/ ExpiresAt(o1.created) < o2.claimed
        \/ ExpiresAt(o2.created) < o1.claimed

(* replayIdempotent always finds the stored result: a request that lost    *)
(* the claim never ends in pgx.ErrNoRows, whatever the janitor purges      *)
(* between its two statements.                                             *)
ReplayFindsOrder == \A r \in replies : r.status # "noresult"

(* An answer tells the truth: a created or replayed order is committed and *)
(* is the one this key and this body asked for; a refusal or a replay left *)
(* no order of its own; a mismatch means the key did buy something else.   *)
ReplyTruthful ==
    \A r \in replies :
        /\ r.status \in {"created", "replayed"} =>
            \E o \in orders : /\ o.id = r.order /\ o.key = r.key
                              /\ o.product = r.product /\ o.qty = r.qty
        /\ r.status \in {"replayed", "mismatch", "notfound", "insufficient"} =>
            \A o \in orders : o.id # r.id
        /\ r.status = "mismatch" =>
            \E o \in orders : /\ o.key = r.key
                              /\ <<o.product, o.qty>> # <<r.product, r.qty>>

(* No dual write: each product's committed events carry the versions       *)
(* 1..version, once each, and the outbox ids order them as the versions do, *)
(* although ids are drawn before the commit (insertOutbox).                *)
EventPerVersion ==
    /\ \A p \in Products : \A v \in 1..products[p].version :
        \E e \in outbox : e.product = p /\ e.version = v
    /\ \A e \in outbox : e.version > 0 /\ e.version <= products[e.product].version
    /\ \A e, f \in outbox : e.product = f.product /\ e.version <= f.version =>
        e = f \/ e.seq < f.seq

(* Every order is one purchased event of its product, with its quantity,   *)
(* and every purchased event one order.  An order's unit price is the one  *)
(* the product's event just before it published: no price that was changed *)
(* by then, and none that a concurrent update has yet to set (purchaseTx). *)
OrderPerPurchase ==
    /\ \A o \in orders : \E e \in outbox :
        /\ e.type = "purchased" /\ e.product = o.product
        /\ e.version = o.version /\ e.qty = o.qty
    /\ \A o \in orders : \E e \in outbox :
        e.product = o.product /\ e.version + 1 = o.version /\ e.price = o.price
    /\ \A e \in outbox : e.type = "purchased" => \E o \in orders :
        o.product = e.product /\ o.version = e.version
    /\ \A o1, o2 \in orders :
        o1.product = o2.product /\ o1.version = o2.version => o1 = o2

(* The stock each event reports follows from the event before it: a        *)
(* purchase takes its quantity, an update nothing, and neither a lost      *)
(* update nor an oversell can hide between two versions.                   *)
StockLedger ==
    /\ \A e, f \in outbox :
        /\ e.product = f.product
        /\ f.version = e.version + 1
        /\ f.type # "deleted"
        => e.stock = f.stock + f.qty
    /\ \A e \in outbox : e.version = products[e.product].version =>
        e.stock = products[e.product].stock

(* The units the orders of a set ask for, and those sold of a product. *)
Units(S) == MapThenSumSet(LAMBDA o : o.qty, S)
UnitsSold(p) == Units({o \in orders : o.product = p})

(* Stock is set at creation and changed only through purchase: what is     *)
(* left and what the orders took add up to what the product was created    *)
(* with (queryPurchase under concurrent purchases and updates).            *)
StockConserved ==
    \A e \in outbox : e.type = "created" /\ products[e.product].state = "live" =>
        products[e.product].stock + UnitsSold(e.product) = e.stock

(* Delete never removes a product an order refers to, even when the order  *)
(* commits while the delete waits (README: 409 once a product has orders). *)
OrderedProductsStay == \A o \in orders : products[o.product].state = "live"

(* x has to wait for d, which holds the lock of x's next statement. *)
Waits(x, d) ==
    \/ /\ x \in Clients /\ Running(x, "begun", "order")
       /\ keyLock[req[x].key] = d
    \/ /\ x \in Clients
       /\ \/ Running(x, "claimed", "order")
          \/ pc[x] = "begun" /\ req[x].op \in {"update", "delete"}
       /\ rowLock[req[x].product] = d
    \/ x \in Janitors /\ x # d /\ \E k \in purge[x].todo : keyLock[k] = d

(* Locks are taken in one order, a key's before a product's, and a request *)
(* that holds a product's row waits for no other lock.  So a request that  *)
(* someone waits for waits at most for one that waits for nobody, and no   *)
(* circle of waits goes through a request: it could only be one of purges. *)
NoCircularWait ==
    \A x, e \in Clients \cup Janitors : \A d \in Clients :
        Waits(x, d) /\ Waits(d, e) =>
            e \in Clients /\ \A f \in Clients \cup Janitors : ~Waits(e, f)

(* The parts of the inductive invariant behind the theorems of             *)
(* OrderStoreProofs.                                                       *)

Holding(c) == pc[c] \in {"claimed", "norow"} \/ Running(c, "written", "order")

(* What a transaction's program counter says of its request and locks. *)
SessionInv ==
    \A c \in Clients :
        /\ pc[c] = "idle" <=> req[c] = NoReq
        /\ pc[c] \in {"claimed", "replay", "norow"} => req[c].op = "order"
        /\ pc[c] = "replay" \/ Holding(c) => keyLock[req[c].key] = c
        /\ pc[c] = "written" /\ req[c].op # "save" => rowLock[req[c].product] = c

(* Who holds a lock is in a transaction, and past the statement that took  *)
(* the lock.                                                               *)
LockInv ==
    /\ \A p \in Products, c \in Clients : rowLock[p] = c =>
        pc[c] \in {"norow", "written"}
    /\ \A k \in Keys, c \in Clients : keyLock[k] = c =>
        pc[c] \in {"claimed", "replay", "norow", "written"}

(* Order ids come from one counter: none is used twice. *)
IdInv ==
    /\ \A c \in Clients : pc[c] # "idle" =>
        /\ req[c].id < issued
        /\ \A o \in orders : o.id # req[c].id
        /\ \A r \in replies : r.id # req[c].id
        /\ \A d \in Clients : pc[d] # "idle" /\ d # c => req[d].id # req[c].id
    /\ \A o \in orders : o.id < issued
    /\ \A r \in replies : r.id < issued
    /\ \A o1, o2 \in orders : o1.id = o2.id => o1 = o2

(* No transaction, claim or purge is from the future. *)
TimeInv ==
    /\ \A c \in Clients : pc[c] # "idle" => req[c].now <= clock
    /\ \A c \in Clients : Holding(c) =>
        req[c].now <= work[c].claimed /\ work[c].claimed <= clock
    /\ \A j \in Janitors : purge[j].now <= clock

(* An uncommitted row is still what its statement makes of the committed   *)
(* row r: nobody else wrote it in between.                                 *)
Derived(c, r) ==
    /\ req[c].op = "order" =>
        Purchasable(r, req[c].qty) /\ work[c].row = Purchased(r, req[c].qty)
    /\ req[c].op = "save" => work[c].row = Inserted(req[c].stock, req[c].price)
    /\ req[c].op = "update" =>
        r.state = "live" /\ work[c].row = Repriced(r, req[c].price)
    /\ req[c].op = "delete" =>
        r.state = "live" /\ work[c].row = Removed(r) /\ ~InUse(req[c].product)

RowInv ==
    /\ \A c \in Clients : pc[c] = "written" => Derived(c, products[req[c].product])
    /\ \A c \in Clients : pc[c] # "idle" /\ req[c].op = "save" =>
        /\ products[req[c].product].state = "fresh"
        /\ \A d \in Clients : pc[d] # "idle" /\ req[d].op = "save" /\ d # c =>
            req[d].product # req[c].product
    /\ \A p \in Products :
        /\ products[p].state = "fresh" => products[p].version = 0
        /\ products[p].state = "live" =>
            products[p].version > 0 /\ products[p].price # 0

(* Outbox ids come from one sequence, and the id a transaction drew is     *)
(* beyond those of its product's committed events.                         *)
SeqInv ==
    /\ \A c \in Clients : pc[c] = "written" =>
        /\ work[c].seq < nextSeq
        /\ \A d \in Clients : pc[d] = "written" /\ d # c => work[d].seq # work[c].seq
        /\ \A e \in outbox : e.seq # work[c].seq
        /\ \A e \in outbox : e.product = req[c].product => e.seq < work[c].seq
    /\ \A e \in outbox : e.seq < nextSeq
    /\ \A e, f \in outbox : e.seq = f.seq => e = f

(* The row of a key outlives the window of every order made with it, and   *)
(* whoever holds a claim came after all those windows.                     *)
KeyInv ==
    /\ \A o \in orders :
        \/ ExpiresAt(o.created) < clock
        \/ keys[o.key] # NoRow /\ ExpiresAt(o.created) <= keys[o.key].expires
    /\ \A c \in Clients : Holding(c) =>
        \A o \in orders : o.key = req[c].key => ExpiresAt(o.created) < work[c].claimed
    /\ \A j \in Janitors : \A k \in purge[j].doomed :
        keyLock[k] = j /\ Expired(k, purge[j].now)

(* A committed key names a committed order of its own with its payload,    *)
(* and the row a replay found is still there.                              *)
ResultInv ==
    /\ \A k \in Keys : keys[k] # NoRow => \E o \in orders :
        /\ o.id = keys[k].order /\ o.key = k
        /\ o.product = keys[k].product /\ o.qty = keys[k].qty
    /\ \A c \in Clients : pc[c] = "replay" => keys[req[c].key] # NoRow

Inv ==
    /\ TypeOK /\ SessionInv /\ LockInv /\ IdInv /\ TimeInv /\ RowInv
    /\ SeqInv /\ KeyInv /\ ResultInv

-----------------------------------------------------------------------------
(* No lock is waited for in a circle or kept by a dead transaction: every  *)
(* request ends.                                                           *)
RequestsFinish == \A c \in Clients : pc[c] # "idle" ~> pc[c] = "idle"

(* The store implements Shop: on the committed tables every commit is one  *)
(* of Shop's atomic writes and nothing else shows.                         *)
Promise == INSTANCE Shop
ImplementsShop == Promise!Spec
=============================================================================
