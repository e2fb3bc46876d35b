-------------------------------- MODULE Shop --------------------------------
(***************************************************************************)
(* What the store promises: every write is one atomic step on the          *)
(* committed tables, adds exactly one event numbered after all events of   *)
(* its product, sells only stock that is there, deletes only products      *)
(* nobody ordered, and creates no second order for a key until the first   *)
(* one's window is over.  There are no transactions, locks or failures.    *)
(***************************************************************************)
EXTENDS ShopData

VARIABLES
    products,   \* the products table
    orders,     \* the orders table
    outbox,     \* every event ever committed to the outbox table
    clock

vars == <<products, orders, outbox, clock>>

Init ==
    /\ products = [p \in Products |-> FreshRow]
    /\ orders = {}
    /\ outbox = {}
    /\ clock = 0

(* Product p becomes row r, and its event joins the outbox. *)
Write(p, r, type, qty) ==
    /\ products' = [products EXCEPT ![p] = r]
    /\ \E e \in outbox' :
        /\ outbox' = outbox \cup {e}
        /\ e = NewEvent(e.seq, type, p, r, qty)
        /\ \A f \in outbox : f.seq # e.seq
        /\ \A f \in outbox : f.product = p => f.seq < e.seq

Create(p) ==
    /\ products[p].state = "fresh"
    /\ \E stock \in Stocks, price \in Prices :
        Write(p, Inserted(stock, price), "created", 0)
    /\ UNCHANGED <<orders, clock>>

Update(p) ==
    /\ products[p].state = "live"
    /\ \E price \in Prices : Write(p, Repriced(products[p], price), "updated", 0)
    /\ UNCHANGED <<orders, clock>>

Delete(p) ==
    /\ products[p].state = "live"
    /\ \A o \in orders : o.product # p
    /\ Write(p, Removed(products[p]), "deleted", 0)
    /\ UNCHANGED <<orders, clock>>

(* The key may be used again only after the window of each earlier order.  *)
Purchase(k, p, qty) ==
    /\ Purchasable(products[p], qty)
    /\ \E o \in orders' :
        /\ orders' = orders \cup {o}
        /\ o.key = k /\ o.product = p /\ o.qty = qty
        /\ o.price = products[p].price
        /\ o.version = products[p].version + 1
        /\ o.created <= o.claimed /\ o.claimed <= clock
        /\ \A q \in orders : q.id # o.id
        /\ \A q \in orders : q.key = k => ExpiresAt(q.created) < o.claimed
    /\ Write(p, Purchased(products[p], qty), "purchased", qty)
    /\ UNCHANGED clock

Tick == clock' = clock + 1 /\ UNCHANGED <<products, orders, outbox>>

Next ==
    \/ \E p \in Products : Create(p) \/ Update(p) \/ Delete(p)
    \/ \E k \in Keys, p \in Products, qty \in Quantities : Purchase(k, p, qty)
    \/ Tick

Spec == Init /\ [][Next]_vars
=============================================================================
