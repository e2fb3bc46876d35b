------------------------------ MODULE ShopData ------------------------------
(***************************************************************************)
(* The rows of the storefront's tables (migrations/*.sql) and what each    *)
(* SQL statement of internal/store/queries.go makes of one row.  Names,    *)
(* currencies and the event's JSON are left out: no property tells two of  *)
(* them apart.  A price is its minor amount.                               *)
(***************************************************************************)
EXTENDS Integers

CONSTANTS
    Products,       \* ids products can have (UUIDv7, never reused)
    Keys,           \* the pairs (user_id, key) that name an order request
    Quantities,     \* quantities an order asks for
    Prices,         \* prices a product can be given
    Stocks,         \* stocks a product can be created with
    TTL             \* idempotencyTTL, in ticks of the clock

ASSUME QuantityAssumption == Quantities \subseteq Nat \ {0}
ASSUME PriceAssumption == Prices \subseteq Nat \ {0}
ASSUME StockAssumption == Stocks \subseteq Nat
ASSUME TTLAssumption == TTL \in Nat \ {0}

-----------------------------------------------------------------------------
(* A row of products.  A "fresh" id has not been generated yet and a "gone" *)
(* one was deleted: neither has a row in the table.  version keeps the     *)
(* number of the last event of the product, so it outlives the row.        *)
Row == [state : {"fresh", "live", "gone"},
        stock : Nat,
        price : Prices \cup {0},
        version : Nat]

FreshRow == [state |-> "fresh", stock |-> 0, price |-> 0, version |-> 0]

(* queryInsert: version starts at its column default. *)
Inserted(stock, price) ==
    [state |-> "live", stock |-> stock, price |-> price, version |-> 1]

(* queryUpdate leaves the stock alone. *)
Repriced(r, price) ==
    [state |-> r.state, stock |-> r.stock, price |-> price, version |-> r.version + 1]

(* queryPurchase: its WHERE clause and its SET clause. *)
Purchasable(r, qty) == r.state = "live" /\ r.stock >= qty

Purchased(r, qty) ==
    [state |-> r.state, stock |-> r.stock - qty, price |-> r.price,
     version |-> r.version + 1]

(* Mutant: the deleted event repeats the row's last version. *)
RemovedSameVersion(r) ==
    [state |-> "gone", stock |-> 0, price |-> 0, version |-> r.version]

(* queryDelete: the deleted event carries nothing but the next version. *)
Removed(r) ==
    [state |-> "gone", stock |-> 0, price |-> 0, version |-> r.version + 1]

-----------------------------------------------------------------------------
EventTypes == {"created", "updated", "deleted", "purchased"}

(* A row of outbox.  seq is its identity column.  price is history: the    *)
(* price of the row when the event was written.                            *)
Event == [seq : Nat, type : EventTypes, product : Products, version : Nat,
          stock : Nat, qty : Nat, price : Prices \cup {0}]

(* event.New and event.NewPurchased applied to the row the statement       *)
(* returned.                                                               *)
NewEvent(seq, type, p, r, qty) ==
    [seq |-> seq, type |-> type, product |-> p, version |-> r.version,
     stock |-> r.stock, qty |-> qty, price |-> r.price]

(* A row of orders.  key (for the user_id the table has), version and      *)
(* claimed are history: the request's key, the product version the         *)
(* purchase produced, and the clock when its key was claimed.  created is  *)
(* created_at, the start of the transaction.                               *)
Order == [id : Nat, key : Keys, product : Products, qty : Quantities,
          price : Prices, version : Nat, created : Nat, claimed : Nat]

(* expires_at of the key row stored with an order created at t. *)
ExpiresAt(t) == t + TTL
=============================================================================
