-------------------------- MODULE OrderStoreProofs --------------------------
(* Machine-checked proofs about OrderStore.                                *)
EXTENDS OrderStore, TLAPS

(* A request is one of four record types, told apart by its op.            *)
LEMMA RequestFields ==
    ASSUME NEW r \in Request
    PROVE  /\ r.product \in Products /\ r.id \in Nat /\ r.now \in Nat
           /\ r.op \in {"order", "save", "update", "delete"}
           /\ r.op = "order" => r.key \in Keys /\ r.qty \in Quantities
           /\ r.op = "save" => r.stock \in Stocks /\ r.price \in Prices
           /\ r.op = "update" => r.price \in Prices
BY DEF Request, OrderReq, SaveReq, UpdateReq, DeleteReq

(* The rows the statements write are rows.                                 *)
LEMMA RowTypes ==
    /\ FreshRow \in Row
    /\ \A s \in Stocks, price \in Prices : Inserted(s, price) \in Row
    /\ \A r \in Row, price \in Prices : Repriced(r, price) \in Row
    /\ \A r \in Row, n \in Quantities : Purchasable(r, n) => Purchased(r, n) \in Row
    /\ \A r \in Row : Removed(r) \in Row
<1>1. Stocks \subseteq Nat /\ Quantities \subseteq Nat
    BY QuantityAssumption, StockAssumption
<1>2. FreshRow \in Row
    BY DEF FreshRow, Row
<1>3. ASSUME NEW s \in Stocks, NEW price \in Prices
      PROVE  Inserted(s, price) \in Row
    BY <1>1 DEF Inserted, Row
<1>4. ASSUME NEW r \in Row, NEW price \in Prices
      PROVE  Repriced(r, price) \in Row
    BY DEF Repriced, Row
<1>5. ASSUME NEW r \in Row, NEW n \in Quantities, Purchasable(r, n)
      PROVE  Purchased(r, n) \in Row
    BY <1>1, <1>5 DEF Purchasable, Purchased, Row
<1>6. ASSUME NEW r \in Row
      PROVE  Removed(r) \in Row
    BY DEF Removed, Row
<1> QED
    BY <1>2, <1>3, <1>4, <1>5, <1>6

(* The end of a transaction keeps the types of what it resets.             *)
LEMMA FinishType ==
    ASSUME TypeOK, NEW c \in Clients, NEW status \in Statuses \cup {"failed"},
           NEW id \in Nat, req[c] \in Request, Finish(c, status, id)
    PROVE  /\ rowLock' \in [Products -> Clients \cup {NoOne}]
           /\ keyLock' \in [Keys -> Clients \cup Janitors \cup {NoOne}]
           /\ pc' \in [Clients -> {"idle", "begun", "claimed", "replay", "norow", "written"}]
           /\ req' \in [Clients -> Request \cup {NoReq}]
           /\ work' \in [Clients -> Work]
           /\ replies' \in SUBSET Reply
           /\ UNCHANGED <<clock, nextSeq, issued, purge>>
<1>1. NoWork \in Work
    BY RowTypes DEF NoWork, Work
<1>2. replies' \in SUBSET Reply
    BY RequestFields DEF Finish, Answered, TypeOK, Reply
<1> QED
    BY <1>1, <1>2 DEF Finish, TypeOK, Released

-----------------------------------------------------------------------------
(* A step of some janitor's purge.                                         *)
Purging == \E j \in Janitors : PurgeBegin(j) \/ PurgeRow(j) \/ PurgeEnd(j)

(* Purges touch nothing but keys, their locks and themselves.              *)
LEMMA PurgeFrame ==
    ASSUME Purging
    PROVE  UNCHANGED <<products, orders, outbox, clock, nextSeq, issued, rowLock,
                       pc, req, work, replies>>
BY DEF Purging, PurgeBegin, PurgeRow, PurgeEnd, tables, locks, session

(* The steps that end a transaction and leave the tables as they are.      *)
Unwritten(c) ==
    /\ pc[c] # "idle"
    /\ UNCHANGED tables
    /\ \E status \in Statuses \cup {"failed"}, id \in Nat : Finish(c, status, id)

(* A rollback, an error and a replay are all such steps.                   *)
LEMMA UnwrittenSteps ==
    ASSUME TypeOK, SessionInv, NEW c \in Clients,
           Replay(c) \/ NoRowError(c) \/ Refuse(c) \/ Abort(c)
    PROVE  Unwritten(c)
<1>1. pc[c] # "idle"
    BY DEF Replay, NoRowError, Refuse, Abort, Running
<1>2. req[c] \in Request
    BY <1>1 DEF TypeOK, SessionInv
<1>3. req[c].id \in Nat
    BY <1>2, RequestFields
<1>4. ASSUME Replay(c) PROVE Unwritten(c)
    <2>1. req[c].key \in Keys
        BY <1>2, <1>4, RequestFields DEF Replay, Running
    <2>2. keys[req[c].key] # NoRow => keys[req[c].key].order \in Nat
        BY <2>1 DEF TypeOK, KeyRow
    <2>3. CASE StoredOrder(req[c].key) = {}
        BY <1>1, <1>3, <1>4, <2>3 DEF Replay, Rollback, Unwritten, Statuses
    <2>4. CASE StoredOrder(req[c].key) # {}
        <3>1. keys[req[c].key].order \in Nat
            BY <2>2, <2>4 DEF StoredOrder
        <3> QED
            BY <1>1, <1>3, <1>4, <2>4, <3>1 DEF Replay, Rollback, Unwritten, Statuses
    <2> QED
        BY <2>3, <2>4
<1>5. ASSUME NoRowError(c) PROVE Unwritten(c)
    BY <1>1, <1>3, <1>5 DEF NoRowError, Rollback, Unwritten, Statuses
<1>6. ASSUME Refuse(c) PROVE Unwritten(c)
    BY <1>1, <1>3, <1>6 DEF Refuse, Rollback, Unwritten
<1>7. ASSUME Abort(c) PROVE Unwritten(c)
    BY <1>1, <1>3, <1>7 DEF Abort, Rollback, Unwritten
<1> QED
    BY <1>4, <1>5, <1>6, <1>7

(* A request begun with values of the model is a request.                  *)
LEMMA BeginSteps ==
    ASSUME TypeOK, NEW c \in Clients, BeginRequest(c)
    PROVE  \E r \in Request :
            /\ Begin(c, r) /\ r.id = issued /\ r.now = clock
            /\ r.op = "save" =>
                /\ products[r.product].state = "fresh"
                /\ \A d \in Clients : pc[d] # "idle" =>
                        ~(req[d].op = "save" /\ req[d].product = r.product)
<1>1. issued \in Nat /\ clock \in Nat
    BY DEF TypeOK
<1>2. ASSUME BeginOrder(c) PROVE \E r \in OrderReq :
            Begin(c, r) /\ r.id = issued /\ r.now = clock /\ r.op = "order"
    BY <1>1, <1>2 DEF BeginOrder, OrderReq
<1>3. ASSUME BeginSave(c) PROVE \E r \in SaveReq :
            /\ Begin(c, r) /\ r.id = issued /\ r.now = clock
            /\ products[r.product].state = "fresh"
            /\ \A d \in Clients : pc[d] # "idle" =>
                    ~(req[d].op = "save" /\ req[d].product = r.product)
    BY <1>1, <1>3 DEF BeginSave, SaveReq
<1>4. ASSUME BeginUpdate(c) PROVE \E r \in UpdateReq :
            Begin(c, r) /\ r.id = issued /\ r.now = clock /\ r.op = "update"
    BY <1>1, <1>4 DEF BeginUpdate, UpdateReq
<1>5. ASSUME BeginDelete(c) PROVE \E r \in DeleteReq :
            Begin(c, r) /\ r.id = issued /\ r.now = clock /\ r.op = "delete"
    BY <1>1, <1>5 DEF BeginDelete, DeleteReq
<1> QED
    BY <1>2, <1>3, <1>4, <1>5 DEF BeginRequest, Request

(* The statements that write a product row, seen from outside: the row is  *)
(* a row, its lock is free or not needed, and pc says what came before.    *)
LEMMA WriteSteps ==
    ASSUME TypeOK, SessionInv, NEW c \in Clients,
           Purchase(c) \/ Save(c) \/ Update(c) \/ Delete(c)
    PROVE  /\ pc[c] \in {"begun", "claimed"} /\ req[c] \in Request
           /\ \E r \in Row : Written(c, r)
           /\ UNCHANGED keyLock
           /\ rowLock' = (IF req[c].op = "save" THEN rowLock
                          ELSE [rowLock EXCEPT ![req[c].product] = c])
           /\ req[c].op # "save" => rowLock[req[c].product] = NoOne
           /\ pc[c] = "claimed" <=> req[c].op = "order"
<1>1. pc[c] \in {"begun", "claimed"}
    BY DEF Purchase, Save, Update, Delete, Running
<1>2. req[c] \in Request
    BY <1>1 DEF TypeOK, SessionInv
<1>3. req[c].product \in Products /\ products[req[c].product] \in Row
    BY <1>2, RequestFields DEF TypeOK
<1>4. CASE Purchase(c)
    BY <1>1, <1>2, <1>3, <1>4, RequestFields, RowTypes DEF Purchase, Running, Free, Take
<1>5. CASE Save(c)
    BY <1>1, <1>2, <1>3, <1>5, RequestFields, RowTypes DEF Save, Running, locks
<1>6. CASE Update(c)
    BY <1>1, <1>2, <1>3, <1>6, RequestFields, RowTypes DEF Update, Running, Free, Take
<1>7. CASE Delete(c)
    BY <1>1, <1>2, <1>3, <1>7, RequestFields, RowTypes DEF Delete, Running, Free, Take
<1> QED
    BY <1>4, <1>5, <1>6, <1>7

(* What a commit adds has the type of its table.                           *)
LEMMA PendingTypes ==
    ASSUME TypeOK, SessionInv, RowInv, NEW c \in Clients, pc[c] = "written"
    PROVE  /\ req[c] \in Request /\ work[c].row \in Row
           /\ PendingEvent(c) \in Event
           /\ req[c].op = "order" => PendingOrder(c) \in Order /\ PendingKey(c) \in KeyRow
<1>1. req[c] \in Request /\ work[c] \in Work
    BY DEF TypeOK, SessionInv
<1>2. /\ req[c].product \in Products /\ req[c].id \in Nat /\ req[c].now \in Nat
      /\ req[c].op \in {"order", "save", "update", "delete"}
      /\ req[c].op = "order" => req[c].key \in Keys /\ req[c].qty \in Quantities
    BY <1>1, RequestFields
<1>3. /\ work[c].row \in Row /\ work[c].seq \in Nat /\ work[c].claimed \in Nat
    BY <1>1 DEF Work
<1>4. PendingEvent(c) \in Event
    <2>1. OrderQty(req[c]) \in Nat
        BY <1>2, QuantityAssumption DEF OrderQty
    <2>2. EventType(req[c].op) \in EventTypes
        BY <1>2 DEF EventType, EventTypes
    <2> QED
        BY <1>2, <1>3, <2>1, <2>2 DEF PendingEvent, NewEvent, Event, Row
<1>5. ASSUME req[c].op = "order" PROVE PendingOrder(c) \in Order /\ PendingKey(c) \in KeyRow
    <2>1. /\ products[req[c].product].state = "live"
          /\ products[req[c].product] \in Row
          /\ work[c].row = Purchased(products[req[c].product], req[c].qty)
        BY <1>2, <1>5 DEF RowInv, Derived, TypeOK, Purchasable
    <2>2. work[c].row.price \in Prices
        BY <1>2, <2>1 DEF RowInv, Purchased, Row
    <2>3. work[c].row.version \in Nat
        BY <1>3 DEF Row
    <2>4. ExpiresAt(req[c].now) \in Nat
        BY <1>2, TTLAssumption DEF ExpiresAt
    <2> QED
        BY <1>2, <1>3, <1>5, <2>2, <2>3, <2>4 DEF PendingOrder, Order, PendingKey, KeyRow
<1> QED
    BY <1>1, <1>3, <1>4, <1>5

-----------------------------------------------------------------------------
(* The lock a decrement keeps when the row it waited for no longer         *)
(* matches.                                                                *)
LEMMA NoRowLock ==
    ASSUME TypeOK, SessionInv, NEW c \in Clients, PurchaseNoRow(c)
    PROVE  /\ req[c].product \in Products
           /\ \/ rowLock' = rowLock
              \/ /\ rowLock[req[c].product] = NoOne
                 /\ rowLock' = [rowLock EXCEPT ![req[c].product] = c]
<1>1. req[c].product \in Products
    BY RequestFields DEF TypeOK, SessionInv, PurchaseNoRow, Running
<1> QED
    BY <1>1 DEF PurchaseNoRow, Free, Take

(* Every step keeps the types.                                             *)
LEMMA TypeStep ==
    ASSUME TypeOK, SessionInv, RowInv, [Next]_vars
    PROVE  TypeOK'
<1>1. ASSUME NEW c \in Clients, BeginRequest(c) PROVE TypeOK'
    <2>1. PICK r \in Request : Begin(c, r)
        BY <1>1, BeginSteps
    <2> QED
        BY <2>1 DEF Begin, TypeOK, tables, locks
<1>2. ASSUME NEW c \in Clients, ClaimKey(c) \/ ConflictKey(c) PROVE TypeOK'
    <2>1. req[c] \in Request /\ req[c].op = "order"
        BY <1>2 DEF TypeOK, SessionInv, ClaimKey, ConflictKey, Running
    <2>2. req[c].key \in Keys
        BY <2>1, RequestFields
    <2>3. work' \in [Clients -> Work]
        BY <1>2 DEF TypeOK, ClaimKey, ConflictKey, Work
    <2> QED
        BY <1>2, <2>2, <2>3 DEF TypeOK, ClaimKey, ConflictKey, Take, tables
<1>3. ASSUME NEW c \in Clients, PurchaseNoRow(c) PROVE TypeOK'
    BY <1>3, NoRowLock DEF PurchaseNoRow, TypeOK, tables
<1>4. ASSUME NEW c \in Clients, Purchase(c) \/ Save(c) \/ Update(c) \/ Delete(c)
      PROVE  TypeOK'
    <2>1. PICK r \in Row : Written(c, r)
        BY <1>4, WriteSteps
    <2>2. work' \in [Clients -> Work]
        BY <2>1 DEF Written, TypeOK, Work
    <2>3. rowLock' \in [Products -> Clients \cup {NoOne}] /\ UNCHANGED keyLock
        BY <1>4, WriteSteps DEF TypeOK
    <2> QED
        BY <2>1, <2>2, <2>3 DEF Written, TypeOK, tables
<1>5. ASSUME NEW c \in Clients, Replay(c) \/ NoRowError(c) \/ Refuse(c) \/ Abort(c)
      PROVE  TypeOK'
    <2>1. Unwritten(c)
        BY <1>5, UnwrittenSteps
    <2>2. req[c] \in Request
        BY <2>1 DEF Unwritten, TypeOK, SessionInv
    <2> QED
        BY <2>1, <2>2, FinishType DEF Unwritten, TypeOK, tables
<1>6. ASSUME NEW c \in Clients, Commit(c) PROVE TypeOK'
    <2>1. pc[c] = "written"
        BY <1>6 DEF Commit
    <2>2. /\ req[c] \in Request /\ work[c].row \in Row
          /\ PendingEvent(c) \in Event
          /\ req[c].op = "order" => PendingOrder(c) \in Order /\ PendingKey(c) \in KeyRow
        BY <2>1, PendingTypes
    <2>3. /\ products' \in [Products -> Row]
          /\ outbox' \in SUBSET Event
          /\ orders' \in SUBSET Order
          /\ keys' \in [Keys -> KeyRow \cup {NoRow}]
        BY <1>6, <2>2 DEF Commit, TypeOK
    <2>4. \E status \in {"created", "failed"} : Finish(c, status, req[c].id)
        BY <1>6 DEF Commit
    <2>5. req[c].id \in Nat
        BY <2>2, RequestFields
    <2> QED
        BY <2>2, <2>3, <2>4, <2>5, FinishType DEF TypeOK, Statuses
<1>7. ASSUME NEW j \in Janitors, PurgeBegin(j) PROVE TypeOK'
    BY <1>7 DEF PurgeBegin, TypeOK, Purge, tables, locks, session
<1>8. ASSUME NEW j \in Janitors, PurgeRow(j) PROVE TypeOK'
    <2>1. PICK k \in purge[j].todo :
            \/ purge' = Visited(j, k, purge[j].doomed \cup {k})
            \/ purge' = Visited(j, k, purge[j].doomed)
        BY <1>8 DEF PurgeRow
    <2>2. /\ purge[j].now \in Nat /\ purge[j].todo \subseteq Keys
          /\ purge[j].doomed \subseteq Keys /\ k \in Keys
        BY <2>1 DEF TypeOK, Purge
    <2>3. ASSUME NEW doomed \in SUBSET Keys
          PROVE  Visited(j, k, doomed) \in [Janitors -> Purge]
        <3>1. purge[j].todo \ {k} \in SUBSET Keys
            BY <2>2
        <3>2. [active |-> TRUE, now |-> purge[j].now,
               todo |-> purge[j].todo \ {k}, doomed |-> doomed] \in Purge
            BY <2>2, <3>1 DEF Purge
        <3> QED
            BY <3>2 DEF Visited, TypeOK
    <2>4. purge' \in [Janitors -> Purge]
        BY <2>1, <2>2, <2>3
    <2> QED
        BY <1>8, <2>2, <2>4 DEF PurgeRow, TypeOK, Purge, Take, tables, session
<1>9. ASSUME NEW j \in Janitors, PurgeEnd(j) PROVE TypeOK'
    BY <1>9 DEF PurgeEnd, TypeOK, NoPurge, Purge, Released, session
<1>10. ASSUME Tick PROVE TypeOK'
    BY <1>10 DEF Tick, TypeOK, tables, locks, session
<1>11. ASSUME UNCHANGED vars PROVE TypeOK'
    BY <1>11 DEF vars, TypeOK
<1> QED
    BY <1>1, <1>2, <1>3, <1>4, <1>5, <1>6, <1>7, <1>8, <1>9, <1>10, <1>11 DEF Next, Step

(* The request of a running transaction, and the keys and rows it locked.  *)
LEMMA SessionTypes ==
    ASSUME TypeOK, SessionInv, NEW c \in Clients, pc[c] # "idle"
    PROVE  /\ req[c] \in Request /\ req[c].product \in Products
           /\ req[c].id \in Nat /\ req[c].now \in Nat
           /\ req[c].op \in {"order", "save", "update", "delete"}
           /\ req[c].op = "order" => req[c].key \in Keys /\ req[c].qty \in Quantities
           /\ pc[c] = "replay" \/ Holding(c) => req[c].op = "order"
<1>1. req[c] \in Request
    BY DEF TypeOK, SessionInv
<1> QED
    BY <1>1, RequestFields DEF SessionInv, Holding, Running

(* The end of a transaction leaves the other sessions and their locks.     *)
LEMMA FinishSession ==
    ASSUME TypeOK, SessionInv, NEW c \in Clients, NEW status, NEW id,
           Finish(c, status, id)
    PROVE  /\ SessionInv'
           /\ pc'[c] = "idle"
           /\ \A d \in Clients \ {c} :
                pc'[d] = pc[d] /\ req'[d] = req[d] /\ work'[d] = work[d]
<1>1. /\ pc'[c] = "idle" /\ req'[c] = NoReq
      /\ \A d \in Clients \ {c} :
            pc'[d] = pc[d] /\ req'[d] = req[d] /\ work'[d] = work[d]
    BY DEF TypeOK, Finish
<1>2. /\ \A k \in Keys, d \in Clients \ {c} : keyLock[k] = d => keyLock'[k] = d
      /\ \A p \in Products, d \in Clients \ {c} : rowLock[p] = d => rowLock'[p] = d
    BY DEF TypeOK, Finish, Released
<1>3. SessionInv'
    BY <1>1, <1>2, SessionTypes DEF SessionInv, Holding, Running
<1> QED
    BY <1>1, <1>3

(* Every step keeps what the program counters say.                         *)
LEMMA SessionStep ==
    ASSUME TypeOK, SessionInv, [Next]_vars
    PROVE  SessionInv'
<1> USE ClientAssumption
<1>1. ASSUME NEW c \in Clients, BeginRequest(c) PROVE SessionInv'
    <2>1. PICK r \in Request : Begin(c, r)
        BY <1>1, BeginSteps
    <2>2. r # NoReq
        BY <2>1, RequestAssumption
    <2> QED
        BY <2>1, <2>2 DEF Begin, TypeOK, SessionInv, Holding, Running, locks
<1>2. ASSUME NEW c \in Clients, ClaimKey(c) \/ ConflictKey(c) PROVE SessionInv'
    <2>1. req[c] \in Request /\ req[c].op = "order"
        BY <1>2 DEF TypeOK, SessionInv, ClaimKey, ConflictKey, Running
    <2>2. req[c].key \in Keys
        BY <2>1, RequestFields
    <2>3. /\ keyLock'[req[c].key] = c
          /\ \A k \in Keys, d \in Clients : keyLock[k] = d => keyLock'[k] = d
        BY <1>2, <2>2 DEF TypeOK, ClaimKey, ConflictKey, Take, Free
    <2> QED
        BY <1>2, <2>1, <2>2, <2>3, SessionTypes DEF TypeOK, SessionInv, ClaimKey,
            ConflictKey, Holding, Running
<1>3. ASSUME NEW c \in Clients, PurchaseNoRow(c) PROVE SessionInv'
    <2>1. \A p \in Products, d \in Clients : rowLock[p] = d => rowLock'[p] = d
        BY <1>3, NoRowLock, ClientAssumption DEF TypeOK
    <2>2. /\ pc' = [pc EXCEPT ![c] = "norow"] /\ pc[c] = "claimed"
          /\ UNCHANGED <<req, keyLock>>
        BY <1>3 DEF PurchaseNoRow, Running
    <2> QED
        BY <2>1, <2>2, SessionTypes DEF TypeOK, SessionInv, Holding, Running
<1>4. ASSUME NEW c \in Clients, Purchase(c) \/ Save(c) \/ Update(c) \/ Delete(c)
      PROVE  SessionInv'
    <2>1. PICK r \in Row : Written(c, r)
        BY <1>4, WriteSteps
    <2>2. /\ pc[c] \in {"begun", "claimed"} /\ req[c] \in Request
          /\ UNCHANGED keyLock
          /\ rowLock' = (IF req[c].op = "save" THEN rowLock
                         ELSE [rowLock EXCEPT ![req[c].product] = c])
          /\ req[c].op # "save" => rowLock[req[c].product] = NoOne
          /\ pc[c] = "claimed" <=> req[c].op = "order"
        BY <1>4, WriteSteps
    <2>3. req[c].product \in Products
        BY <2>2, RequestFields
    <2> QED
        BY <2>1, <2>2, <2>3 DEF Written, TypeOK, SessionInv, Holding, Running
<1>5. ASSUME NEW c \in Clients, Replay(c) \/ NoRowError(c) \/ Refuse(c) \/ Abort(c)
      PROVE  SessionInv'
    BY <1>5, UnwrittenSteps, FinishSession DEF Unwritten
<1>6. ASSUME NEW c \in Clients, Commit(c) PROVE SessionInv'
    BY <1>6, FinishSession DEF Commit
<1>7. ASSUME NEW j \in Janitors, PurgeBegin(j) PROVE SessionInv'
    BY <1>7 DEF PurgeBegin, SessionInv, Holding, Running, locks, session
<1>8. ASSUME NEW j \in Janitors, PurgeRow(j) PROVE SessionInv'
    <2>1. \A k \in Keys, d \in Clients : keyLock[k] = d => keyLock'[k] = d
        BY <1>8, ClientAssumption DEF PurgeRow, TypeOK, Take, Free
    <2> QED
        BY <1>8, <2>1, SessionTypes DEF PurgeRow, SessionInv, Holding, Running, session
<1>9. ASSUME NEW j \in Janitors, PurgeEnd(j) PROVE SessionInv'
    <2>1. \A k \in Keys, d \in Clients : keyLock[k] = d => keyLock'[k] = d
        BY <1>9, ClientAssumption DEF PurgeEnd, TypeOK, Released
    <2> QED
        BY <1>9, <2>1, SessionTypes DEF PurgeEnd, SessionInv, Holding, Running, session
<1>10. ASSUME Tick PROVE SessionInv'
    BY <1>10 DEF Tick, SessionInv, Holding, Running, locks, session
<1>11. ASSUME UNCHANGED vars PROVE SessionInv'
    BY <1>11 DEF vars, SessionInv, Holding, Running
<1> QED
    BY <1>1, <1>2, <1>3, <1>4, <1>5, <1>6, <1>7, <1>8, <1>9, <1>10, <1>11 DEF Next, Step

(* A transaction that ends holds no lock, and the others hold what they    *)
(* held.                                                                   *)
LEMMA FinishLocks ==
    ASSUME TypeOK, LockInv, NEW c \in Clients, NEW status, NEW id,
           Finish(c, status, id)
    PROVE  LockInv'
<1>1. \A d \in Clients \ {c} : pc'[d] = pc[d]
    BY DEF TypeOK, Finish
<1>2. /\ \A p \in Products, d \in Clients : rowLock'[p] = d => rowLock[p] = d /\ d # c
      /\ \A k \in Keys, d \in Clients : keyLock'[k] = d => keyLock[k] = d /\ d # c
    BY ClientAssumption DEF TypeOK, Finish, Released
<1> QED
    BY <1>1, <1>2 DEF LockInv

(* Every step keeps locks with transactions that are past the statement    *)
(* that took them.                                                         *)
LEMMA LockStep ==
    ASSUME TypeOK, SessionInv, LockInv, [Next]_vars
    PROVE  LockInv'
<1> USE ClientAssumption
<1>1. ASSUME NEW c \in Clients, BeginRequest(c) PROVE LockInv'
    <2>1. PICK r \in Request : Begin(c, r)
        BY <1>1, BeginSteps
    <2> QED
        BY <2>1 DEF Begin, TypeOK, LockInv, locks
<1>2. ASSUME NEW c \in Clients, ClaimKey(c) \/ ConflictKey(c) PROVE LockInv'
    <2>1. req[c].key \in Keys
        BY <1>2, SessionTypes DEF ClaimKey, ConflictKey, Running
    <2> QED
        BY <1>2, <2>1 DEF TypeOK, LockInv, ClaimKey, ConflictKey, Running, Take, Free
<1>3. ASSUME NEW c \in Clients, PurchaseNoRow(c) PROVE LockInv'
    <2>1. \A p \in Products, d \in Clients : rowLock'[p] = d => rowLock[p] = d \/ d = c
        BY <1>3, NoRowLock DEF TypeOK
    <2> QED
        BY <1>3, <2>1 DEF PurchaseNoRow, TypeOK, LockInv, Running
<1>4. ASSUME NEW c \in Clients, Purchase(c) \/ Save(c) \/ Update(c) \/ Delete(c)
      PROVE  LockInv'
    <2>1. PICK r \in Row : Written(c, r)
        BY <1>4, WriteSteps
    <2>2. /\ req[c] \in Request /\ UNCHANGED keyLock
          /\ rowLock' = (IF req[c].op = "save" THEN rowLock
                         ELSE [rowLock EXCEPT ![req[c].product] = c])
        BY <1>4, WriteSteps
    <2>3. req[c].product \in Products
        BY <2>2, RequestFields
    <2> QED
        BY <2>1, <2>2, <2>3 DEF Written, TypeOK, LockInv
<1>5. ASSUME NEW c \in Clients, Replay(c) \/ NoRowError(c) \/ Refuse(c) \/ Abort(c)
      PROVE  LockInv'
    BY <1>5, UnwrittenSteps, FinishLocks DEF Unwritten
<1>6. ASSUME NEW c \in Clients, Commit(c) PROVE LockInv'
    BY <1>6, FinishLocks DEF Commit
<1>7. ASSUME Purging PROVE LockInv'
    <2>1. UNCHANGED <<rowLock, pc>>
        BY <1>7, PurgeFrame
    <2>2. \A k \in Keys, d \in Clients : keyLock'[k] = d => keyLock[k] = d
        <3>1. PICK j \in Janitors : PurgeBegin(j) \/ PurgeRow(j) \/ PurgeEnd(j)
            BY <1>7 DEF Purging
        <3>2. CASE PurgeBegin(j)
            BY <3>2 DEF PurgeBegin, locks
        <3>3. CASE PurgeRow(j)
            BY <3>3 DEF PurgeRow, TypeOK, Take
        <3>4. CASE PurgeEnd(j)
            BY <3>4 DEF PurgeEnd, TypeOK, Released
        <3> QED
            BY <3>1, <3>2, <3>3, <3>4
    <2> QED
        BY <2>1, <2>2 DEF LockInv
<1>8. ASSUME Tick \/ UNCHANGED vars PROVE LockInv'
    BY <1>8 DEF Tick, vars, LockInv, locks, session
<1> QED
    BY <1>1, <1>2, <1>3, <1>4, <1>5, <1>6, <1>7, <1>8 DEF Next, Step, Purging

(* The answer of a transaction that ends carries the id of its request.    *)
LEMMA FinishReplies ==
    ASSUME NEW c, NEW status, NEW id, Finish(c, status, id)
    PROVE  \A r \in replies' \ replies :
            /\ req[c].op = "order" /\ status # "failed"
            /\ r.id = req[c].id /\ r.status = status /\ r.order = id
            /\ r.key = req[c].key /\ r.product = req[c].product /\ r.qty = req[c].qty
BY DEF Finish, Answered

(* Every step keeps the ids of requests, orders and answers apart.         *)
LEMMA IdStep ==
    ASSUME TypeOK, SessionInv, IdInv, [Next]_vars
    PROVE  IdInv'
<1>1. ASSUME NEW c \in Clients, BeginRequest(c) PROVE IdInv'
    <2>1. PICK r \in Request : Begin(c, r) /\ r.id = issued
        BY <1>1, BeginSteps
    <2>2. /\ req' = [req EXCEPT ![c] = r] /\ pc' = [pc EXCEPT ![c] = "begun"]
          /\ issued' = issued + 1 /\ orders' = orders /\ replies' = replies
          /\ pc[c] = "idle"
        BY <2>1 DEF Begin, tables
    <2>3. \A d \in Clients : pc[d] # "idle" => req[d].id \in Nat
        BY SessionTypes
    <2>4. orders \subseteq Order /\ replies \subseteq Reply /\ issued \in Nat
        BY DEF TypeOK
    <2> QED
        BY <2>1, <2>2, <2>3, <2>4 DEF IdInv, TypeOK, Order, Reply
<1>2. ASSUME NEW c \in Clients, ClaimKey(c) \/ ConflictKey(c) \/ PurchaseNoRow(c)
      PROVE  IdInv'
    BY <1>2 DEF ClaimKey, ConflictKey, PurchaseNoRow, Running, TypeOK, IdInv, tables
<1>3. ASSUME NEW c \in Clients, Purchase(c) \/ Save(c) \/ Update(c) \/ Delete(c)
      PROVE  IdInv'
    <2>1. PICK r \in Row : Written(c, r) /\ pc[c] # "idle"
        BY <1>3, WriteSteps
    <2> QED
        BY <2>1 DEF Written, TypeOK, IdInv, tables
<1>4. ASSUME NEW c \in Clients, pc[c] # "idle", NEW status, NEW id,
             Finish(c, status, id), NEW o,
             \/ orders' = orders
             \/ orders' = orders \cup {o} /\ o.id = req[c].id
      PROVE  IdInv'
    <2>1. /\ pc'[c] = "idle"
          /\ \A d \in Clients \ {c} : pc'[d] = pc[d] /\ req'[d] = req[d]
        BY <1>4, FinishSession
    <2>2. \A r \in replies' : r \in replies \/ r.id = req[c].id
        BY <1>4, FinishReplies
    <2>3. issued' = issued
        BY <1>4 DEF Finish
    <2> QED
        BY <1>4, <2>1, <2>2, <2>3 DEF IdInv
<1>5. ASSUME NEW c \in Clients, Replay(c) \/ NoRowError(c) \/ Refuse(c) \/ Abort(c)
      PROVE  IdInv'
    BY <1>4, <1>5, UnwrittenSteps DEF Unwritten, tables
<1>6. ASSUME NEW c \in Clients, Commit(c) PROVE IdInv'
    <2>1. PendingOrder(c).id = req[c].id
        BY DEF PendingOrder
    <2> QED
        BY <1>4, <1>6, <2>1 DEF Commit
<1>7. ASSUME Purging \/ Tick \/ UNCHANGED vars PROVE IdInv'
    BY <1>7, PurgeFrame DEF Tick, vars, IdInv, tables, session
<1> QED
    BY <1>1, <1>2, <1>3, <1>5, <1>6, <1>7 DEF Next, Step, Purging

(* Every step keeps the clock ahead of every transaction.                  *)
LEMMA TimeStep ==
    ASSUME TypeOK, SessionInv, TimeInv, [Next]_vars
    PROVE  TimeInv'
<1> USE DEF Holding, Running
<1>0. \A d \in Clients : pc[d] # "idle" => req[d].now \in Nat
    BY SessionTypes
<1>1. ASSUME NEW c \in Clients, BeginRequest(c) PROVE TimeInv'
    <2>1. PICK r \in Request : Begin(c, r) /\ r.now = clock
        BY <1>1, BeginSteps
    <2> QED
        BY <2>1 DEF Begin, TypeOK, TimeInv, tables
<1>2. ASSUME NEW c \in Clients, ClaimKey(c) PROVE TimeInv'
    BY <1>0, <1>2 DEF ClaimKey, TypeOK, TimeInv
<1>3. ASSUME NEW c \in Clients, ConflictKey(c) \/ PurchaseNoRow(c) PROVE TimeInv'
    BY <1>3 DEF ConflictKey, PurchaseNoRow, TypeOK, TimeInv
<1>4. ASSUME NEW c \in Clients, Purchase(c) \/ Save(c) \/ Update(c) \/ Delete(c)
      PROVE  TimeInv'
    <2>1. PICK r \in Row : Written(c, r)
        BY <1>4, WriteSteps
    <2>2. pc[c] \in {"begun", "claimed"} /\ (pc[c] = "claimed" <=> req[c].op = "order")
        BY <1>4, WriteSteps
    <2> QED
        BY <2>1, <2>2 DEF Written, TypeOK, TimeInv
<1>5. ASSUME NEW c \in Clients, NEW status, NEW id, Finish(c, status, id)
      PROVE  TimeInv'
    BY <1>5, FinishSession DEF Finish, TimeInv
<1>6. ASSUME NEW c \in Clients,
             Replay(c) \/ NoRowError(c) \/ Refuse(c) \/ Abort(c) \/ Commit(c)
      PROVE  TimeInv'
    BY <1>5, <1>6, UnwrittenSteps DEF Unwritten, Commit
<1>7. ASSUME NEW j \in Janitors, PurgeBegin(j) \/ PurgeRow(j) \/ PurgeEnd(j)
      PROVE  TimeInv'
    <2>1. UNCHANGED <<clock, pc, req, work>>
        BY <1>7, PurgeFrame DEF Purging
    <2>2. /\ \A i \in Janitors \ {j} : purge'[i] = purge[i]
          /\ purge'[j].now \in {clock, purge[j].now, 0}
        BY <1>7 DEF PurgeBegin, PurgeRow, PurgeEnd, Visited, NoPurge, TypeOK
    <2> QED
        BY <2>1, <2>2 DEF TypeOK, TimeInv
<1>8. ASSUME Tick PROVE TimeInv'
    <2>1. /\ \A j \in Janitors : purge[j].now \in Nat
          /\ \A d \in Clients : work[d].claimed \in Nat
        BY DEF TypeOK, Purge, Work
    <2> QED
        BY <1>0, <1>8, <2>1 DEF Tick, TypeOK, TimeInv, session
<1>9. ASSUME UNCHANGED vars PROVE TimeInv'
    BY <1>9 DEF vars, TimeInv
<1> QED
    BY <1>1, <1>2, <1>3, <1>4, <1>6, <1>7, <1>8, <1>9 DEF Next, Step

(* The steps after which the tables and the other sessions are the same    *)
(* and client c has not written.                                           *)
LEMMA RowFrame ==
    ASSUME TypeOK, SessionInv, RowInv, NEW c \in Clients,
           UNCHANGED <<products, orders>>,
           \A d \in Clients \ {c} :
                pc'[d] = pc[d] /\ req'[d] = req[d] /\ work'[d] = work[d],
           pc'[c] # "written",
           pc'[c] # "idle" => req'[c] = req[c] /\ pc[c] # "idle"
    PROVE  RowInv'
<1>1. \A d \in Clients : pc'[d] # "idle" => pc[d] # "idle" /\ req'[d] = req[d]
    OBVIOUS
<1>2. \A d \in Clients : pc'[d] = "written" => pc[d] = "written" /\ work'[d] = work[d]
    OBVIOUS
<1> QED
    BY <1>1, <1>2 DEF RowInv, Derived, InUse

(* The row a statement has just written derives from the committed one.    *)
LEMMA WriteDerives ==
    ASSUME TypeOK, SessionInv, RowInv, NEW c \in Clients,
           Purchase(c) \/ Save(c) \/ Update(c) \/ Delete(c)
    PROVE  Derived(c, products[req[c].product])'
<1>1. /\ UNCHANGED <<products, orders, req>>
      /\ req[c].op = "order" => Purchase(c)
      /\ req[c].op = "save" => Save(c)
      /\ req[c].op = "update" => Update(c)
      /\ req[c].op = "delete" => Delete(c)
    BY DEF Purchase, Save, Update, Delete, Written, Running, tables
<1>2. ASSUME NEW r, Written(c, r) PROVE work'[c].row = r
    BY <1>2 DEF Written, TypeOK
<1>3. ASSUME req[c].op = "order" PROVE Derived(c, products[req[c].product])'
    BY <1>1, <1>2, <1>3 DEF Purchase, Derived
<1>4. ASSUME req[c].op = "save" PROVE Derived(c, products[req[c].product])'
    BY <1>1, <1>2, <1>4 DEF Save, Derived
<1>5. ASSUME req[c].op = "update" PROVE Derived(c, products[req[c].product])'
    BY <1>1, <1>2, <1>5 DEF Update, Derived
<1>6. ASSUME req[c].op = "delete" PROVE Derived(c, products[req[c].product])'
    BY <1>1, <1>2, <1>6 DEF Delete, Derived, InUse
<1> QED
    BY <1>3, <1>4, <1>5, <1>6 DEF Purchase, Save, Update, Delete, Running

(* Two transactions that are writing are writing different products.       *)
LEMMA WritersApart ==
    ASSUME TypeOK, SessionInv, RowInv, NEW c \in Clients, NEW d \in Clients, c # d,
           pc[c] = "written", pc[d] = "written" \/ (pc[d] # "idle" /\ req[d].op = "save")
    PROVE  req[c].product # req[d].product
<1>1. ASSUME NEW e \in Clients, pc[e] = "written", req[e].op # "save"
      PROVE  products[req[e].product].state = "live" /\ rowLock[req[e].product] = e
    BY <1>1, SessionTypes DEF RowInv, Derived, Purchasable, SessionInv
<1>2. ASSUME NEW e \in Clients, pc[e] # "idle", req[e].op = "save"
      PROVE  products[req[e].product].state = "fresh"
    BY <1>2 DEF RowInv
<1>3. CASE req[c].op = "save" /\ req[d].op = "save"
    BY <1>3 DEF RowInv
<1> QED
    BY <1>1, <1>2, <1>3

(* Every step keeps the uncommitted rows up to date.                       *)
LEMMA RowStep ==
    ASSUME TypeOK, SessionInv, RowInv, [Next]_vars
    PROVE  RowInv'
<1>1. ASSUME NEW c \in Clients, BeginRequest(c) PROVE RowInv'
    <2>1. PICK r \in Request :
            /\ Begin(c, r)
            /\ r.op = "save" =>
                /\ products[r.product].state = "fresh"
                /\ \A d \in Clients : pc[d] # "idle" =>
                        ~(req[d].op = "save" /\ req[d].product = r.product)
        BY <1>1, BeginSteps
    <2>2. /\ UNCHANGED <<products, orders, work>> /\ pc[c] = "idle"
          /\ pc' = [pc EXCEPT ![c] = "begun"] /\ req' = [req EXCEPT ![c] = r]
        BY <2>1 DEF Begin, tables
    <2>3. \A d \in Clients : pc'[d] = "written" => Derived(d, products[req[d].product])'
        BY <2>2 DEF RowInv, Derived, InUse, TypeOK
    <2>4. \A d, e \in Clients :
            /\ pc'[d] # "idle" /\ req'[d].op = "save" =>
                products'[req'[d].product].state = "fresh"
            /\ /\ pc'[d] # "idle" /\ req'[d].op = "save" /\ d # e
               /\ pc'[e] # "idle" /\ req'[e].op = "save"
               => req'[d].product # req'[e].product
        BY <2>1, <2>2 DEF RowInv, TypeOK
    <2> QED
        BY <2>2, <2>3, <2>4 DEF RowInv
<1>2. ASSUME NEW c \in Clients, ClaimKey(c) \/ ConflictKey(c) \/ PurchaseNoRow(c)
      PROVE  RowInv'
    <2>1. /\ UNCHANGED <<products, orders, req>> /\ pc[c] # "idle" /\ pc'[c] # "written"
          /\ \A d \in Clients \ {c} : pc'[d] = pc[d] /\ work'[d] = work[d]
        BY <1>2 DEF ClaimKey, ConflictKey, PurchaseNoRow, Running, TypeOK, tables
    <2> QED
        BY <2>1, RowFrame
<1>3. ASSUME NEW c \in Clients, Purchase(c) \/ Save(c) \/ Update(c) \/ Delete(c)
      PROVE  RowInv'
    <2>1. PICK r \in Row : Written(c, r) /\ pc[c] # "idle"
        BY <1>3, WriteSteps
    <2>2. /\ UNCHANGED <<products, orders, req>>
          /\ \A d \in Clients \ {c} : pc'[d] = pc[d] /\ work'[d] = work[d]
        BY <2>1 DEF Written, TypeOK, tables
    <2>3. Derived(c, products[req[c].product])'
        BY <1>3, WriteDerives
    <2>4. ASSUME NEW d \in Clients, pc'[d] = "written", d # c
          PROVE  Derived(d, products[req[d].product])'
        BY <2>2, <2>4 DEF RowInv, Derived, InUse
    <2> QED
        BY <2>1, <2>2, <2>3, <2>4 DEF RowInv
<1>4. ASSUME NEW c \in Clients, Replay(c) \/ NoRowError(c) \/ Refuse(c) \/ Abort(c)
      PROVE  RowInv'
    <2>1. UNCHANGED <<products, orders>>
        BY <1>4, UnwrittenSteps DEF Unwritten, tables
    <2> QED
        BY <1>4, <2>1, UnwrittenSteps, FinishSession, RowFrame DEF Unwritten
<1>5. ASSUME NEW c \in Clients, Commit(c) PROVE RowInv'
    <2>1. /\ pc[c] = "written" /\ pc'[c] = "idle"
          /\ \A d \in Clients \ {c} :
                pc'[d] = pc[d] /\ req'[d] = req[d] /\ work'[d] = work[d]
        BY <1>5, FinishSession DEF Commit
    <2>2. /\ req[c] \in Request /\ req[c].product \in Products
          /\ req[c].op \in {"order", "save", "update", "delete"}
          /\ req[c].op = "save" => req[c].price \in Prices
          /\ req[c].op = "update" => req[c].price \in Prices
        BY <2>1, SessionTypes, RequestFields
    <2>3. /\ products' = [products EXCEPT ![req[c].product] = work[c].row]
          /\ \A o \in orders' : o \in orders \/ o.product = req[c].product
        BY <1>5 DEF Commit, PendingOrder
    <2>4. ASSUME NEW d \in Clients, pc'[d] = "written"
          PROVE  Derived(d, products[req[d].product])'
        <3>1. d # c /\ req[d].product # req[c].product /\ req[d].product \in Products
            BY <2>1, <2>4, WritersApart, SessionTypes
        <3>2. Derived(d, products[req[d].product])
            BY <2>1, <2>4, <3>1 DEF RowInv
        <3>3. /\ products'[req[d].product] = products[req[d].product]
              /\ InUse(req[d].product)' => InUse(req[d].product)
            BY <2>1, <2>3, <3>1 DEF InUse, TypeOK
        <3> QED
            BY <2>1, <3>1, <3>2, <3>3 DEF Derived, InUse
    <2>5. ASSUME NEW d \in Clients, pc'[d] # "idle", req'[d].op = "save"
          PROVE  products'[req'[d].product].state = "fresh"
        <3>1. d # c /\ req[d].product # req[c].product /\ req[d].product \in Products
            BY <2>1, <2>5, WritersApart, SessionTypes
        <3> QED
            BY <2>1, <2>3, <2>5, <3>1 DEF RowInv, TypeOK
    <2>6. work[c].row.state \in {"live", "gone"} /\ work[c].row.version > 0
          /\ (work[c].row.state = "live" => work[c].row.price # 0)
        <3>1. products[req[c].product] \in Row /\ Derived(c, products[req[c].product])
            BY <2>1, <2>2 DEF RowInv, TypeOK
        <3> QED
            BY <2>2, <3>1, PriceAssumption
               DEF RowInv, Derived, Purchasable, Purchased, Inserted, Repriced, Removed, Row
    <2> QED
        BY <2>1, <2>2, <2>3, <2>4, <2>5, <2>6 DEF RowInv, TypeOK
<1>6. ASSUME Purging \/ Tick \/ UNCHANGED vars PROVE RowInv'
    BY <1>6, PurgeFrame DEF Tick, vars, RowInv, Derived, InUse, tables, session
<1> QED
    BY <1>1, <1>2, <1>3, <1>4, <1>5, <1>6 DEF Next, Step, Purging

(* Every step keeps the outbox ids apart and in order.                     *)
LEMMA SeqStep ==
    ASSUME TypeOK, SessionInv, RowInv, SeqInv, [Next]_vars
    PROVE  SeqInv'
<1>1. ASSUME NEW c \in Clients, UNCHANGED <<outbox, nextSeq>>, pc'[c] # "written",
             \A d \in Clients \ {c} :
                pc'[d] = pc[d] /\ req'[d] = req[d] /\ work'[d] = work[d]
      PROVE  SeqInv'
    BY <1>1 DEF SeqInv
<1>2. ASSUME NEW c \in Clients, BeginRequest(c) PROVE SeqInv'
    <2>1. PICK r \in Request : Begin(c, r)
        BY <1>2, BeginSteps
    <2> QED
        BY <1>1, <2>1 DEF Begin, TypeOK, tables
<1>3. ASSUME NEW c \in Clients, ClaimKey(c) \/ ConflictKey(c) \/ PurchaseNoRow(c)
      PROVE  SeqInv'
    BY <1>1, <1>3 DEF ClaimKey, ConflictKey, PurchaseNoRow, TypeOK, tables
<1>4. ASSUME NEW c \in Clients, Purchase(c) \/ Save(c) \/ Update(c) \/ Delete(c)
      PROVE  SeqInv'
    <2>1. PICK r \in Row : Written(c, r)
        BY <1>4, WriteSteps
    <2>2. /\ UNCHANGED <<outbox, req>> /\ nextSeq' = nextSeq + 1 /\ work'[c].seq = nextSeq
          /\ \A d \in Clients \ {c} : pc'[d] = pc[d] /\ work'[d] = work[d]
        BY <2>1 DEF Written, TypeOK, tables
    <2>3. nextSeq \in Nat /\ \A e \in outbox : e.seq \in Nat
        BY DEF TypeOK, Event
    <2>4. \A d \in Clients : work[d].seq \in Nat
        BY DEF TypeOK, Work
    <2> QED
        BY <2>2, <2>3, <2>4 DEF SeqInv
<1>5. ASSUME NEW c \in Clients, Replay(c) \/ NoRowError(c) \/ Refuse(c) \/ Abort(c)
      PROVE  SeqInv'
    BY <1>1, <1>5, UnwrittenSteps, FinishSession DEF Unwritten, Finish, tables
<1>6. ASSUME NEW c \in Clients, Commit(c) PROVE SeqInv'
    <2>1. /\ pc[c] = "written" /\ pc'[c] = "idle"
          /\ \A d \in Clients \ {c} :
                pc'[d] = pc[d] /\ req'[d] = req[d] /\ work'[d] = work[d]
        BY <1>6, FinishSession DEF Commit
    <2>2. /\ outbox' = outbox \cup {PendingEvent(c)} /\ nextSeq' = nextSeq
          /\ PendingEvent(c).seq = work[c].seq /\ PendingEvent(c).product = req[c].product
        BY <1>6 DEF Commit, Finish, PendingEvent, NewEvent
    <2>3. \A d \in Clients : pc'[d] = "written" => d # c /\ req[d].product # req[c].product
        BY <2>1, WritersApart
    <2> QED
        BY <2>1, <2>2, <2>3 DEF SeqInv
<1>7. ASSUME Purging \/ Tick \/ UNCHANGED vars PROVE SeqInv'
    BY <1>7, PurgeFrame DEF Tick, vars, SeqInv, tables, session
<1> QED
    BY <1>2, <1>3, <1>4, <1>5, <1>6, <1>7 DEF Next, Step, Purging

(* Times of orders, keys and transactions are natural numbers.             *)
LEMMA TimeTypes ==
    ASSUME TypeOK, SessionInv
    PROVE  /\ \A o \in orders : o.key \in Keys /\ ExpiresAt(o.created) \in Nat
           /\ \A k \in Keys : keys[k] # NoRow => keys[k].expires \in Nat
           /\ \A c \in Clients : work[c].claimed \in Nat
           /\ \A c \in Clients : pc[c] # "idle" => req[c].now \in Nat
           /\ clock \in Nat /\ \A j \in Janitors : purge[j].now \in Nat
<1>1. \A o \in orders : o.key \in Keys /\ ExpiresAt(o.created) \in Nat
    BY TTLAssumption DEF TypeOK, Order, ExpiresAt
<1>2. \A k \in Keys : keys[k] # NoRow => keys[k].expires \in Nat
    BY DEF TypeOK, KeyRow
<1> QED
    BY <1>1, <1>2, SessionTypes DEF TypeOK, Work, Purge

(* The steps that touch neither orders nor keys, and let no client claim.  *)
LEMMA KeyFrame ==
    ASSUME TypeOK, SessionInv, TimeInv, KeyInv,
           UNCHANGED <<orders, keys, purge>>, clock' >= clock, clock' \in Nat,
           \A k \in Keys : keyLock[k] \in Janitors => keyLock'[k] = keyLock[k],
           \A c \in Clients : Holding(c)' =>
                Holding(c) /\ req'[c] = req[c] /\ work'[c].claimed = work[c].claimed
    PROVE  KeyInv'
<1>1. \A j \in Janitors : purge[j].doomed \subseteq Keys
    BY DEF TypeOK, Purge
<1>2. \A o \in orders : ExpiresAt(o.created) \in Nat
    BY TimeTypes
<1>3. ASSUME NEW o \in orders', ~(ExpiresAt(o.created) < clock')
      PROVE  keys'[o.key] # NoRow /\ ExpiresAt(o.created) <= keys'[o.key].expires
    <2>1. ~(ExpiresAt(o.created) < clock)
        BY <1>2, <1>3 DEF TypeOK
    <2> QED
        BY <2>1 DEF KeyInv
<1>4. ASSUME NEW c \in Clients, Holding(c)', NEW o \in orders', o.key = req'[c].key
      PROVE  ExpiresAt(o.created) < work'[c].claimed
    BY <1>4 DEF KeyInv
<1>5. ASSUME NEW j \in Janitors, NEW k \in purge'[j].doomed
      PROVE  keyLock'[k] = j /\ Expired(k, purge[j].now)'
    BY <1>1 DEF KeyInv, Expired
<1> QED
    BY <1>3, <1>4, <1>5 DEF KeyInv, ExpiresAt

(* Every step keeps each key's row as long as it guards an order's window. *)
LEMMA KeyStep ==
    ASSUME TypeOK, SessionInv, TimeInv, KeyInv, [Next]_vars
    PROVE  KeyInv'
<1> USE ClientAssumption
<1>0. /\ \A o \in orders : o.key \in Keys /\ ExpiresAt(o.created) \in Nat
      /\ \A k \in Keys : keys[k] # NoRow => keys[k].expires \in Nat
      /\ clock \in Nat
      /\ \A j \in Janitors : purge[j].now \in Nat /\ purge[j].doomed \subseteq Keys
    BY TimeTypes DEF TypeOK, Purge
<1>1. ASSUME NEW c \in Clients, BeginRequest(c) PROVE KeyInv'
    <2>1. PICK r \in Request : Begin(c, r)
        BY <1>1, BeginSteps
    <2> QED
        BY <1>0, <2>1, KeyFrame DEF Begin, TypeOK, Holding, Running, tables, locks
<1>2. ASSUME NEW c \in Clients, ClaimKey(c) PROVE KeyInv'
    <2>1. /\ UNCHANGED <<orders, keys, purge, clock, req>> /\ work'[c].claimed = clock
          /\ keyLock' = [keyLock EXCEPT ![req[c].key] = c]
          /\ keyLock[req[c].key] = NoOne /\ Claimable(req[c].key, req[c].now)
          /\ \A d \in Clients \ {c} : pc'[d] = pc[d] /\ work'[d] = work[d]
        BY <1>2 DEF ClaimKey, Take, Free, TypeOK, tables
    <2>2. req[c].key \in Keys /\ req[c].now \in Nat /\ req[c].now <= clock
        BY <1>2, SessionTypes DEF ClaimKey, Running, TimeInv
    <2>3. ASSUME NEW o \in orders, o.key = req[c].key PROVE ExpiresAt(o.created) < clock
        BY <1>0, <2>1, <2>2, <2>3 DEF KeyInv, Claimable
    <2>4. ASSUME NEW d \in Clients, Holding(d)', NEW o \in orders, o.key = req[d].key
          PROVE  ExpiresAt(o.created) < work'[d].claimed
        BY <2>1, <2>3, <2>4 DEF KeyInv, Holding, Running
    <2>5. \A j \in Janitors : \A k \in purge[j].doomed : keyLock'[k] = j
        BY <1>0, <2>1 DEF KeyInv, TypeOK
    <2> QED
        BY <2>1, <2>4, <2>5 DEF KeyInv, Expired, ExpiresAt
<1>3. ASSUME NEW c \in Clients, ConflictKey(c) \/ PurchaseNoRow(c) PROVE KeyInv'
    <2>1. \A k \in Keys : keyLock[k] \in Janitors => keyLock'[k] = keyLock[k]
        BY <1>3 DEF ConflictKey, PurchaseNoRow, Take, Free, TypeOK, locks
    <2> QED
        BY <1>0, <1>3, <2>1, KeyFrame
           DEF ConflictKey, PurchaseNoRow, TypeOK, Holding, Running, tables
<1>4. ASSUME NEW c \in Clients, Purchase(c) \/ Save(c) \/ Update(c) \/ Delete(c)
      PROVE  KeyInv'
    <2>1. PICK r \in Row : Written(c, r)
        BY <1>4, WriteSteps
    <2>2. /\ UNCHANGED keyLock /\ pc[c] \in {"begun", "claimed"}
          /\ pc[c] = "claimed" <=> req[c].op = "order"
        BY <1>4, WriteSteps
    <2> QED
        BY <1>0, <2>1, <2>2, KeyFrame DEF Written, TypeOK, Holding, Running, tables
<1>5. ASSUME NEW c \in Clients, NEW status, NEW id, Finish(c, status, id)
      PROVE  /\ UNCHANGED <<clock, purge>>
             /\ \A k \in Keys : keyLock[k] \in Janitors => keyLock'[k] = keyLock[k]
             /\ \A d \in Clients : Holding(d)' => /\ Holding(d) /\ d # c
                    /\ req'[d] = req[d] /\ work'[d].claimed = work[d].claimed
    <2>1. \A k \in Keys : keyLock[k] \in Janitors => keyLock'[k] = keyLock[k]
        BY <1>5 DEF Finish, Released, TypeOK
    <2> QED
        BY <1>5, <2>1, FinishSession DEF Finish, Holding, Running
<1>6. ASSUME NEW c \in Clients, Replay(c) \/ NoRowError(c) \/ Refuse(c) \/ Abort(c)
      PROVE  KeyInv'
    BY <1>0, <1>5, <1>6, UnwrittenSteps, KeyFrame DEF Unwritten, tables
<1>7. ASSUME NEW c \in Clients, Commit(c), req[c].op # "order" PROVE KeyInv'
    BY <1>0, <1>5, <1>7, KeyFrame DEF Commit
<1>8. ASSUME NEW c \in Clients, Commit(c), req[c].op = "order" PROVE KeyInv'
    <2>1. /\ orders' = orders \cup {PendingOrder(c)}
          /\ keys' = [keys EXCEPT ![req[c].key] = PendingKey(c)]
          /\ Holding(c) /\ pc[c] # "idle"
        BY <1>8 DEF Commit, Holding, Running
    <2>2. /\ UNCHANGED <<clock, purge>>
          /\ \A k \in Keys : keyLock[k] \in Janitors => keyLock'[k] = keyLock[k]
          /\ \A d \in Clients : Holding(d)' => /\ Holding(d) /\ d # c
                    /\ req'[d] = req[d] /\ work'[d].claimed = work[d].claimed
        BY <1>5, <1>8 DEF Commit
    <2>3. /\ req[c].key \in Keys /\ req[c].now \in Nat /\ keyLock[req[c].key] = c
          /\ work[c].claimed \in Nat /\ work[c].claimed <= clock
        BY <1>8, <2>1, SessionTypes, TimeTypes DEF SessionInv, TimeInv
    <2>4. /\ PendingOrder(c).key = req[c].key /\ PendingOrder(c).created = req[c].now
          /\ PendingKey(c).expires = ExpiresAt(req[c].now)
          /\ ExpiresAt(req[c].now) \in Nat
        BY <2>3, TTLAssumption DEF PendingOrder, PendingKey, ExpiresAt
    <2>5. PendingKey(c) # NoRow
        <3>1. PendingKey(c) \in KeyRow
            BY <1>8, <2>1, <2>4, SessionTypes DEF PendingKey, KeyRow
        <3> QED
            BY <3>1, RowAssumption
    <2>6. ASSUME NEW o \in orders'
          PROVE  \/ ExpiresAt(o.created) < clock
                 \/ keys'[o.key] # NoRow /\ ExpiresAt(o.created) <= keys'[o.key].expires
        <3>1. CASE o = PendingOrder(c)
            BY <2>1, <2>3, <2>4, <2>5, <3>1 DEF TypeOK
        <3>2. CASE o \in orders /\ o.key = req[c].key
            BY <1>0, <2>1, <2>3, <3>2 DEF KeyInv
        <3>3. CASE o \in orders /\ o.key # req[c].key
            BY <1>0, <2>1, <2>3, <3>3 DEF KeyInv, TypeOK
        <3> QED
            BY <2>1, <3>1, <3>2, <3>3
    <2>7. ASSUME NEW d \in Clients, Holding(d)', NEW o \in orders', o.key = req'[d].key
          PROVE  ExpiresAt(o.created) < work'[d].claimed
        <3>1. keyLock[req[d].key] = d /\ req'[d] = req[d] /\ d # c
            BY <2>2, <2>7 DEF SessionInv
        <3> QED
            BY <2>1, <2>2, <2>3, <2>4, <2>7, <3>1 DEF KeyInv
    <2>8. ASSUME NEW j \in Janitors, NEW k \in purge[j].doomed
          PROVE  keyLock'[k] = j /\ Expired(k, purge[j].now)'
        <3>1. keyLock[k] = j /\ k # req[c].key /\ k \in Keys
            BY <1>0, <2>3 DEF KeyInv
        <3> QED
            BY <2>1, <2>2, <3>1 DEF KeyInv, Expired, TypeOK
    <2> QED
        BY <2>2, <2>6, <2>7, <2>8 DEF KeyInv, ExpiresAt
<1>9. ASSUME NEW j \in Janitors, PurgeBegin(j) PROVE KeyInv'
    <2>1. /\ purge'[j].doomed = {}
          /\ \A i \in Janitors \ {j} : purge'[i] = purge[i]
        BY <1>9 DEF PurgeBegin, TypeOK
    <2>2. UNCHANGED <<orders, keys, keyLock, clock, session>>
        BY <1>9 DEF PurgeBegin, tables, locks
    <2> QED
        BY <2>1, <2>2 DEF KeyInv, Holding, Running, Expired, ExpiresAt, session
<1>10. ASSUME NEW j \in Janitors, PurgeRow(j) PROVE KeyInv'
    <2>0. purge[j].todo \subseteq Keys /\ purge \in [Janitors -> Purge]
        BY DEF TypeOK, Purge
    <2>1. PICK k \in purge[j].todo :
            /\ keyLock[k] = NoOne
            /\ keyLock' = IF keys[k] # NoRow THEN [keyLock EXCEPT ![k] = j] ELSE keyLock
            /\ \/ /\ Expired(k, purge[j].now)
                  /\ purge' = Visited(j, k, purge[j].doomed \cup {k})
               \/ purge' = Visited(j, k, purge[j].doomed)
        BY <1>10 DEF PurgeRow, Free, Take
    <2>2. /\ UNCHANGED <<orders, keys, clock, session>> /\ purge'[j].now = purge[j].now
          /\ \A i \in Janitors \ {j} : purge'[i] = purge[i]
        BY <1>10 DEF PurgeRow, Visited, TypeOK, tables
    <2>3. /\ k \in Keys
          /\ \/ /\ Expired(k, purge[j].now) /\ keyLock' = [keyLock EXCEPT ![k] = j]
                /\ purge'[j].doomed = purge[j].doomed \cup {k}
             \/ purge'[j].doomed = purge[j].doomed
        BY <2>0, <2>1 DEF Expired, Visited
    <2>4. \A i \in Janitors : \A h \in purge'[i].doomed :
            keyLock'[h] = i /\ Expired(h, purge[i].now)
        BY <1>0, <2>1, <2>2, <2>3 DEF KeyInv, TypeOK
    <2> QED
        BY <2>2, <2>4 DEF KeyInv, Holding, Running, Expired, ExpiresAt, session
<1>11. ASSUME NEW j \in Janitors, PurgeEnd(j) PROVE KeyInv'
    <2>1. /\ UNCHANGED <<orders, clock, session>> /\ purge'[j].doomed = {}
          /\ \A i \in Janitors \ {j} : purge'[i] = purge[i]
          /\ \A k \in Keys : keyLock[k] # j => keyLock'[k] = keyLock[k]
        BY <1>11 DEF PurgeEnd, NoPurge, Released, TypeOK
    <2>2. \A k \in Keys : keys'[k] = keys[k] \/ (k \in purge[j].doomed /\ keys'[k] = NoRow)
        BY <1>11 DEF PurgeEnd, TypeOK
    <2>3. ASSUME NEW o \in orders
          PROVE  \/ ExpiresAt(o.created) < clock
                 \/ keys'[o.key] # NoRow /\ ExpiresAt(o.created) <= keys'[o.key].expires
        <3>1. CASE o.key \in purge[j].doomed
            BY <1>0, <3>1 DEF KeyInv, Expired, TimeInv
        <3>2. CASE o.key \notin purge[j].doomed
            BY <1>0, <2>2, <3>2 DEF KeyInv
        <3> QED
            BY <3>1, <3>2
    <2>4. ASSUME NEW i \in Janitors, NEW k \in purge'[i].doomed
          PROVE  keyLock'[k] = i /\ Expired(k, purge[i].now)'
        <3>1. i # j /\ purge'[i] = purge[i] /\ k \in Keys
            BY <1>0, <2>1, <2>4
        <3>2. keyLock[k] = i /\ Expired(k, purge[i].now) /\ k \notin purge[j].doomed
            BY <2>4, <3>1 DEF KeyInv
        <3> QED
            BY <2>1, <2>2, <3>1, <3>2 DEF Expired
    <2> QED
        BY <2>1, <2>3, <2>4 DEF KeyInv, Holding, Running, ExpiresAt, session
<1>12. ASSUME Tick PROVE KeyInv'
    BY <1>0, <1>12, KeyFrame DEF Tick, Holding, Running, tables, locks, session
<1>13. ASSUME UNCHANGED vars PROVE KeyInv'
    BY <1>13 DEF vars, KeyInv, Holding, Running, Expired, ExpiresAt
<1> QED
    BY <1>1, <1>2, <1>3, <1>4, <1>6, <1>7, <1>8, <1>9, <1>10, <1>11, <1>12, <1>13 DEF Next, Step

(* Every step keeps the result of every committed key.                     *)
LEMMA ResultStep ==
    ASSUME TypeOK, SessionInv, KeyInv, ResultInv, [Next]_vars
    PROVE  ResultInv'
<1> USE ClientAssumption
<1>1. ASSUME UNCHANGED <<orders, keys>>,
             \A d \in Clients : pc'[d] = "replay" =>
                req'[d] = req[d] /\ (pc[d] = "replay" \/ keys[req[d].key] # NoRow)
      PROVE  ResultInv'
    BY <1>1 DEF ResultInv
<1>2. ASSUME NEW c \in Clients, BeginRequest(c) PROVE ResultInv'
    <2>1. PICK r \in Request : Begin(c, r)
        BY <1>2, BeginSteps
    <2> QED
        BY <1>1, <2>1 DEF Begin, TypeOK, tables
<1>3. ASSUME NEW c \in Clients, ClaimKey(c) \/ PurchaseNoRow(c) PROVE ResultInv'
    BY <1>1, <1>3 DEF ClaimKey, PurchaseNoRow, TypeOK, tables
<1>4. ASSUME NEW c \in Clients, ConflictKey(c) PROVE ResultInv'
    BY <1>1, <1>4 DEF ConflictKey, Claimable, TypeOK, tables
<1>5. ASSUME NEW c \in Clients, Purchase(c) \/ Save(c) \/ Update(c) \/ Delete(c)
      PROVE  ResultInv'
    <2>1. PICK r \in Row : Written(c, r)
        BY <1>5, WriteSteps
    <2> QED
        BY <1>1, <2>1 DEF Written, TypeOK, tables
<1>6. ASSUME NEW c \in Clients, Replay(c) \/ NoRowError(c) \/ Refuse(c) \/ Abort(c)
      PROVE  ResultInv'
    <2>1. UNCHANGED <<orders, keys>>
        BY <1>6, UnwrittenSteps DEF Unwritten, tables
    <2> QED
        BY <1>1, <1>6, <2>1, UnwrittenSteps, FinishSession DEF Unwritten
<1>7. ASSUME NEW c \in Clients, Commit(c) PROVE ResultInv'
    <2>1. /\ pc[c] = "written" /\ pc'[c] = "idle"
          /\ \A d \in Clients \ {c} : pc'[d] = pc[d] /\ req'[d] = req[d]
        BY <1>7, FinishSession DEF Commit
    <2>2. CASE req[c].op # "order"
        BY <1>1, <1>7, <2>1, <2>2 DEF Commit
    <2>3. CASE req[c].op = "order"
        <3>1. /\ orders' = orders \cup {PendingOrder(c)}
              /\ keys' = [keys EXCEPT ![req[c].key] = PendingKey(c)]
            BY <1>7, <2>3 DEF Commit
        <3>2. /\ PendingOrder(c).id = PendingKey(c).order
              /\ PendingOrder(c).product = PendingKey(c).product
              /\ PendingOrder(c).qty = PendingKey(c).qty
              /\ PendingOrder(c).key = req[c].key
            BY DEF PendingOrder, PendingKey
        <3>3. ASSUME NEW k \in Keys, keys'[k] # NoRow
              PROVE  \E o \in orders' :
                        /\ o.id = keys'[k].order /\ o.key = k
                        /\ o.product = keys'[k].product /\ o.qty = keys'[k].qty
            <4>1. CASE k = req[c].key
                BY <3>1, <3>2, <4>1 DEF TypeOK
            <4>2. CASE k # req[c].key
                BY <3>1, <3>3, <4>2 DEF TypeOK, ResultInv
            <4> QED
                BY <4>1, <4>2
        <3>4. ASSUME NEW d \in Clients, pc'[d] = "replay" PROVE keys'[req'[d].key] # NoRow
            <4>1. /\ d # c /\ pc[d] = "replay" /\ req'[d] = req[d]
                  /\ keyLock[req[d].key] = d /\ keyLock[req[c].key] = c
                BY <2>1, <2>3, <3>4 DEF SessionInv, Holding, Running
            <4>2. req[d].key \in Keys
                BY <4>1, SessionTypes
            <4> QED
                BY <3>1, <4>1, <4>2 DEF ResultInv, TypeOK
        <3> QED
            BY <3>3, <3>4 DEF ResultInv
    <2> QED
        BY <2>2, <2>3
<1>8. ASSUME Tick \/ \E j \in Janitors : PurgeBegin(j) \/ PurgeRow(j) PROVE ResultInv'
    BY <1>1, <1>8 DEF PurgeBegin, PurgeRow, Tick, tables, session
<1>9. ASSUME NEW j \in Janitors, PurgeEnd(j) PROVE ResultInv'
    <2>1. UNCHANGED <<orders, session>>
        BY <1>9 DEF PurgeEnd
    <2>2. \A k \in Keys : keys'[k] = keys[k] \/ (k \in purge[j].doomed /\ keys'[k] = NoRow)
        BY <1>9 DEF PurgeEnd, TypeOK
    <2>3. ASSUME NEW d \in Clients, pc'[d] = "replay" PROVE keys'[req'[d].key] # NoRow
        <3>1. /\ pc[d] = "replay" /\ req'[d] = req[d] /\ keyLock[req[d].key] = d
              /\ req[d].key \in Keys
            BY <2>1, <2>3, SessionTypes DEF SessionInv, session
        <3>2. req[d].key \notin purge[j].doomed
            BY <3>1 DEF KeyInv
        <3> QED
            BY <2>2, <3>1, <3>2 DEF ResultInv
    <2>4. ASSUME NEW k \in Keys, keys'[k] # NoRow PROVE keys'[k] = keys[k]
        BY <2>2, <2>4
    <2> QED
        BY <2>1, <2>3, <2>4 DEF ResultInv
<1>10. ASSUME UNCHANGED vars PROVE ResultInv'
    BY <1>10 DEF vars, ResultInv
<1> QED
    BY <1>2, <1>3, <1>4, <1>5, <1>6, <1>7, <1>8, <1>9, <1>10 DEF Next, Step

-----------------------------------------------------------------------------
(* The empty database satisfies the invariant.                             *)
LEMMA InitInv == Init => Inv
<1> SUFFICES ASSUME Init PROVE Inv
    OBVIOUS
<1>1. TypeOK
    BY RowTypes DEF Init, TypeOK, NoWork, Work, NoPurge, Purge
<1>2. SessionInv /\ LockInv /\ IdInv /\ SeqInv
    BY ClientAssumption DEF Init, SessionInv, LockInv, IdInv, SeqInv, Holding, Running
<1>3. TimeInv /\ RowInv
    BY DEF Init, TimeInv, RowInv, Holding, Running, NoPurge, FreshRow
<1>4. KeyInv /\ ResultInv
    BY DEF Init, KeyInv, ResultInv, Holding, Running, NoPurge
<1> QED
    BY <1>1, <1>2, <1>3, <1>4 DEF Inv

(* Inv is an inductive invariant of the store: types, sessions and their   *)
(* locks, ids, times, uncommitted rows, outbox ids, keys and their results. *)
THEOREM Invariance == Spec => []Inv
<1>1. Inv /\ [Next]_vars => Inv'
    BY TypeStep, SessionStep, LockStep, IdStep, TimeStep, RowStep, SeqStep, KeyStep,
        ResultStep DEF Inv
<1> QED
    BY <1>1, InitInv, PTL DEF Spec

(* Type correctness of the store.                                          *)
THEOREM TypeCorrect == Spec => []TypeOK
<1>1. Inv => TypeOK
    BY DEF Inv
<1> QED
    BY <1>1, Invariance, PTL

(* No circle of waits goes through a request, for any number of requests,  *)
(* keys, products and purges: the row locks of CreateOrder, Update and     *)
(* Delete cannot deadlock.                                                 *)
THEOREM RequestsDoNotDeadlock == Spec => []NoCircularWait
<1>1. ASSUME Inv PROVE NoCircularWait
    <2> USE ClientAssumption
    <2>1. SUFFICES ASSUME NEW x \in Clients \cup Janitors, NEW e \in Clients \cup Janitors,
                          NEW d \in Clients, Waits(x, d), Waits(d, e)
                   PROVE  e \in Clients /\ \A f \in Clients \cup Janitors : ~Waits(e, f)
        BY DEF NoCircularWait
    <2>2. TypeOK /\ SessionInv /\ LockInv
        BY <1>1 DEF Inv
    <2>3. pc[d] \in {"claimed", "replay", "norow", "written"}
        <3>1. \/ \E p \in Products : rowLock[p] = d
              \/ \E k \in Keys : keyLock[k] = d
            <4>1. CASE x \in Clients
                <5>1. pc[x] # "idle"
                    BY <2>1, <4>1 DEF Waits, Running
                <5> QED
                    BY <2>1, <2>2, <4>1, <5>1, SessionTypes DEF Waits, Running
            <4>2. CASE x \in Janitors
                BY <2>1, <2>2, <4>2 DEF Waits, TypeOK, Purge
            <4> QED
                BY <4>1, <4>2
        <3> QED
            BY <2>2, <3>1 DEF LockInv
    <2>4. pc[d] = "claimed" /\ rowLock[req[d].product] = e
        BY <2>1, <2>3 DEF Waits, Running
    <2>5. req[d].product \in Products
        BY <2>2, <2>4, SessionTypes
    <2>6. e \in Clients /\ pc[e] \in {"norow", "written"}
        BY <2>2, <2>4, <2>5 DEF TypeOK, LockInv
    <2> QED
        BY <2>6 DEF Waits, Running
<1> QED
    BY <1>1, Invariance, PTL

-----------------------------------------------------------------------------
(* What the COMMIT of c does to the tables.                                *)
CommitEffect(c) ==
    /\ pc[c] = "written"
    /\ products' = [products EXCEPT ![req[c].product] = work[c].row]
    /\ outbox' = outbox \cup {PendingEvent(c)}
    /\ orders' = (IF req[c].op = "order" THEN orders \cup {PendingOrder(c)} ELSE orders)
    /\ clock' = clock

(* The only step that changes orders, products or outbox is a commit.      *)
LEMMA TablesStep ==
    ASSUME Inv, [Next]_vars
    PROVE  \/ UNCHANGED <<products, orders, outbox>>
           \/ \E c \in Clients : CommitEffect(c)
<1>1. ASSUME NEW c \in Clients, BeginRequest(c) PROVE UNCHANGED <<products, orders, outbox>>
    BY <1>1, BeginSteps DEF Inv, Begin, tables
<1>2. ASSUME NEW c \in Clients, Commit(c) PROVE CommitEffect(c)
    BY <1>2 DEF Commit, CommitEffect, Finish
<1>3. ASSUME NEW c \in Clients,
             Replay(c) \/ NoRowError(c) \/ Refuse(c) \/ Abort(c)
      PROVE  UNCHANGED <<products, orders, outbox>>
    BY <1>3, UnwrittenSteps DEF Inv, Unwritten, tables
<1>4. ASSUME NEW c \in Clients,
             \/ ClaimKey(c) \/ ConflictKey(c) \/ PurchaseNoRow(c)
             \/ Purchase(c) \/ Save(c) \/ Update(c) \/ Delete(c)
      PROVE  UNCHANGED <<products, orders, outbox>>
    BY <1>4 DEF ClaimKey, ConflictKey, PurchaseNoRow, Purchase, Save, Update, Delete,
        Written, tables
<1>5. ASSUME Purging \/ Tick \/ UNCHANGED vars
      PROVE  UNCHANGED <<products, orders, outbox>>
    BY <1>5, PurgeFrame DEF Tick, vars, tables
<1> QED
    BY <1>1, <1>2, <1>3, <1>4, <1>5 DEF Next, Step, Purging

(* A commit of an order comes after the window of every order with its     *)
(* key, so the two are never in force together.                            *)
LEMMA OneOrderStep ==
    ASSUME Inv, OneOrderPerKey, [Next]_vars
    PROVE  OneOrderPerKey'
<1>1. CASE UNCHANGED <<products, orders, outbox>>
    BY <1>1 DEF OneOrderPerKey, ExpiresAt
<1>2. ASSUME NEW c \in Clients, CommitEffect(c), req[c].op = "order"
      PROVE  OneOrderPerKey'
    <2>1. orders' = orders \cup {PendingOrder(c)} /\ Holding(c)
        BY <1>2 DEF CommitEffect, Holding, Running
    <2>2. \A o \in orders : o.key = req[c].key => ExpiresAt(o.created) < work[c].claimed
        BY <2>1 DEF Inv, KeyInv
    <2>3. /\ PendingOrder(c).key = req[c].key
          /\ PendingOrder(c).claimed = work[c].claimed
        BY DEF PendingOrder
    <2> QED
        BY <2>1, <2>2, <2>3 DEF OneOrderPerKey, ExpiresAt
<1>3. ASSUME NEW c \in Clients, CommitEffect(c), req[c].op # "order"
      PROVE  OneOrderPerKey'
    BY <1>3 DEF CommitEffect, OneOrderPerKey, ExpiresAt
<1> QED
    BY <1>1, <1>2, <1>3, TablesStep

(* A key makes no second order before the window of the first is over, for *)
(* any number of concurrent requests, retries, failures and purges.        *)
THEOREM KeyIsExclusive == Spec => []OneOrderPerKey
<1>1. Init => OneOrderPerKey
    BY DEF Init, OneOrderPerKey
<1>2. Inv /\ OneOrderPerKey /\ [Next]_vars => OneOrderPerKey'
    BY OneOrderStep
<1> QED
    BY <1>1, <1>2, Invariance, PTL DEF Spec

-----------------------------------------------------------------------------
(* What a commit writes, in terms of the committed row it replaces.        *)
LEMMA CommitRow ==
    ASSUME Inv, NEW c \in Clients, pc[c] = "written",
           NEW p, p = req[c].product
    PROVE  /\ p \in Products /\ products[p] \in Row /\ work[c].row \in Row
           /\ req[c].op \in {"order", "save", "update", "delete"}
           /\ Derived(c, products[p])
           /\ work[c].row.version = products[p].version + 1
           /\ req[c].op # "delete" => work[c].row.state = "live"
           /\ req[c].op # "save" => products[p].state = "live"
           /\ req[c].op = "save" => products[p].state = "fresh" /\ products[p].version = 0
           /\ req[c].op \in {"order", "update"} =>
                products[p].stock = work[c].row.stock + OrderQty(req[c])
           /\ req[c].op = "order" => products[p].price = work[c].row.price
<1>1. /\ p \in Products /\ req[c].op \in {"order", "save", "update", "delete"}
      /\ req[c].op = "order" => req[c].qty \in Quantities
    BY SessionTypes DEF Inv
<1>2. products[p] \in Row /\ work[c].row \in Row
    BY <1>1 DEF Inv, TypeOK, Work
<1>3. /\ Derived(c, products[p])
      /\ req[c].op = "save" => products[p].state = "fresh" /\ products[p].version = 0
    BY <1>1 DEF Inv, RowInv
<1>4. req[c].op = "order" => req[c].qty \in Nat
    BY <1>1, QuantityAssumption
<1>5. CASE req[c].op = "order"
    BY <1>1, <1>2, <1>3, <1>4, <1>5 DEF Derived, Purchasable, Purchased, OrderQty, Row
<1>6. CASE req[c].op = "save"
    BY <1>1, <1>2, <1>3, <1>6 DEF Derived, Inserted, Row
<1>7. CASE req[c].op = "update"
    BY <1>1, <1>2, <1>3, <1>7 DEF Derived, Repriced, OrderQty, Row
<1>8. CASE req[c].op = "delete"
    BY <1>1, <1>2, <1>3, <1>8 DEF Derived, Removed, Row
<1> QED
    BY <1>1, <1>5, <1>6, <1>7, <1>8

(* The event a commit adds.                                                *)
LEMMA CommitEvent ==
    ASSUME Inv, NEW c \in Clients, pc[c] = "written",
           NEW e, e = PendingEvent(c)
    PROVE  /\ e.seq = work[c].seq /\ e.product = req[c].product
           /\ e.version = work[c].row.version /\ e.stock = work[c].row.stock
           /\ e.qty = OrderQty(req[c]) /\ e.price = work[c].row.price
           /\ e.type = "purchased" <=> req[c].op = "order"
           /\ e.type = "created" <=> req[c].op = "save"
           /\ e.type = "deleted" <=> req[c].op = "delete"
<1>1. req[c].op \in {"order", "save", "update", "delete"}
    BY CommitRow
<1>2. /\ e.seq = work[c].seq /\ e.product = req[c].product
      /\ e.version = work[c].row.version /\ e.stock = work[c].row.stock
      /\ e.qty = OrderQty(req[c]) /\ e.price = work[c].row.price
      /\ e.type = EventType(req[c].op)
    BY DEF PendingEvent, NewEvent
<1> QED
    BY <1>1, <1>2 DEF EventType

(* A delete commits only when nobody ordered the product; every other      *)
(* write leaves a live row.                                                *)
LEMMA OrderedStep ==
    ASSUME Inv, OrderedProductsStay, [Next]_vars
    PROVE  OrderedProductsStay'
<1>1. CASE UNCHANGED <<products, orders, outbox>>
    BY <1>1 DEF OrderedProductsStay
<1>2. ASSUME NEW c \in Clients, CommitEffect(c) PROVE OrderedProductsStay'
    <2>1. /\ req[c].product \in Products /\ Derived(c, products[req[c].product])
          /\ req[c].op # "delete" => work[c].row.state = "live"
        BY <1>2, CommitRow DEF CommitEffect
    <2>2. products' = [products EXCEPT ![req[c].product] = work[c].row]
        BY <1>2 DEF CommitEffect
    <2>3. \A o \in orders' : o \in orders \/ o.product = req[c].product
        BY <1>2 DEF CommitEffect, PendingOrder
    <2>4. products \in [Products -> Row] /\ \A o \in orders : o.product \in Products
        BY DEF Inv, TypeOK, Order
    <2>5. CASE req[c].op = "delete"
        <3>1. orders' = orders /\ ~InUse(req[c].product)
            BY <1>2, <2>1, <2>5 DEF CommitEffect, Derived
        <3> QED
            BY <2>2, <2>4, <3>1 DEF OrderedProductsStay, InUse
    <2>6. CASE req[c].op # "delete"
        BY <2>1, <2>2, <2>3, <2>4, <2>6 DEF OrderedProductsStay
    <2> QED
        BY <2>5, <2>6
<1> QED
    BY <1>1, <1>2, TablesStep

(* An ordered product is never deleted.                                    *)
THEOREM OrderedProductsAreKept == Spec => []OrderedProductsStay
<1>1. Init => OrderedProductsStay
    BY DEF Init, OrderedProductsStay
<1>2. Inv /\ OrderedProductsStay /\ [Next]_vars => OrderedProductsStay'
    BY OrderedStep
<1> QED
    BY <1>1, <1>2, Invariance, PTL DEF Spec

(* A commit adds the event of the next version, with an id beyond those of *)
(* the versions before it.                                                 *)
LEMMA EventStep ==
    ASSUME Inv, EventPerVersion, [Next]_vars
    PROVE  EventPerVersion'
<1>1. CASE UNCHANGED <<products, orders, outbox>>
    BY <1>1 DEF EventPerVersion
<1>2. ASSUME NEW c \in Clients, CommitEffect(c) PROVE EventPerVersion'
    <2> DEFINE p == req[c].product
               e == PendingEvent(c)
    <2>1. /\ products' = [products EXCEPT ![p] = work[c].row]
          /\ outbox' = outbox \cup {e} /\ pc[c] = "written"
        BY <1>2 DEF CommitEffect
    <2>2. /\ p \in Products /\ products[p].version \in Nat
          /\ work[c].row.version = products[p].version + 1
        BY <2>1, CommitRow DEF Row
    <2>3. e.seq = work[c].seq /\ e.product = p /\ e.version = work[c].row.version
        BY <2>1, CommitEvent
    <2>4. /\ products \in [Products -> Row]
          /\ \A q \in Products : products[q].version \in Nat
          /\ \A f \in outbox : f.product \in Products /\ f.version \in Nat
        BY DEF Inv, TypeOK, Event, Row
    <2>5. \A f \in outbox : f.product = p => f.seq < e.seq /\ f.version < e.version
        BY <2>1, <2>2, <2>3, <2>4 DEF Inv, SeqInv, EventPerVersion
    <2>6. \A q \in Products :
            products'[q].version = IF q = p THEN products[p].version + 1 ELSE products[q].version
        BY <2>1, <2>2, <2>4
    <2> HIDE DEF p, e
    <2>7. ASSUME NEW q \in Products, NEW v \in 1..products'[q].version
          PROVE  \E f \in outbox' : f.product = q /\ f.version = v
        <3>1. CASE q = p /\ v = products[p].version + 1
            BY <2>1, <2>2, <2>3, <3>1
        <3>2. CASE ~(q = p /\ v = products[p].version + 1)
            <4>1. v \in 1..products[q].version
                BY <2>2, <2>4, <2>6, <2>7, <3>2
            <4> QED
                BY <2>1, <4>1 DEF EventPerVersion
        <3> QED
            BY <3>1, <3>2
    <2>8. \A f \in outbox' : f.version > 0 /\ f.version <= products'[f.product].version
        BY <2>1, <2>2, <2>3, <2>4, <2>6 DEF EventPerVersion
    <2>9. ASSUME NEW f \in outbox', NEW g \in outbox', f.product = g.product,
                 f.version <= g.version, f # g
          PROVE  f.seq < g.seq
        BY <2>1, <2>2, <2>3, <2>4, <2>5, <2>9 DEF EventPerVersion
    <2> QED
        BY <2>7, <2>8, <2>9 DEF EventPerVersion
<1> QED
    BY <1>1, <1>2, TablesStep

(* No dual write: one event per version of each product, in outbox order.  *)
THEOREM NoDualWrite == Spec => []EventPerVersion
<1>1. Init => EventPerVersion
    BY DEF Init, EventPerVersion, FreshRow
<1>2. Inv /\ EventPerVersion /\ [Next]_vars => EventPerVersion'
    BY EventStep
<1> QED
    BY <1>1, <1>2, Invariance, PTL DEF Spec

(* A commit continues the ledger of its product where the last event left  *)
(* it.                                                                     *)
LEMMA LedgerStep ==
    ASSUME Inv, EventPerVersion, StockLedger, [Next]_vars
    PROVE  StockLedger'
<1>1. CASE UNCHANGED <<products, orders, outbox>>
    BY <1>1 DEF StockLedger
<1>2. ASSUME NEW c \in Clients, CommitEffect(c) PROVE StockLedger'
    <2> DEFINE p == req[c].product
               n == PendingEvent(c)
    <2>1. /\ products' = [products EXCEPT ![p] = work[c].row]
          /\ outbox' = outbox \cup {n} /\ pc[c] = "written"
        BY <1>2 DEF CommitEffect
    <2>2. /\ p \in Products /\ products[p].version \in Nat
          /\ req[c].op \in {"order", "save", "update", "delete"}
          /\ work[c].row.version = products[p].version + 1
          /\ req[c].op = "save" => products[p].version = 0
          /\ req[c].op \in {"order", "update"} =>
                products[p].stock = work[c].row.stock + OrderQty(req[c])
        BY <2>1, CommitRow DEF Row
    <2>3. /\ n.product = p /\ n.version = work[c].row.version /\ n.stock = work[c].row.stock
          /\ n.qty = OrderQty(req[c]) /\ (n.type = "deleted" <=> req[c].op = "delete")
        BY <2>1, CommitEvent
    <2>4. /\ \A q \in Products \ {p} : products'[q] = products[q]
          /\ products'[p] = work[c].row
        BY <2>1, <2>2 DEF Inv, TypeOK
    <2>5. \A f \in outbox : /\ f.product \in Products /\ f.version \in Nat /\ f.version > 0
                            /\ products[f.product].version \in Nat
                            /\ f.version <= products[f.product].version
        BY DEF Inv, TypeOK, Event, Row, EventPerVersion
    <2> HIDE DEF p, n
    <2>6. ASSUME NEW e \in outbox', NEW f \in outbox', e.product = f.product,
                 f.version = e.version + 1, f.type # "deleted"
          PROVE  e.stock = f.stock + f.qty
        <3>1. CASE e \in outbox /\ f \in outbox
            BY <2>6, <3>1 DEF StockLedger
        <3>2. CASE e \in outbox /\ f = n
            <4>1. e.product = p /\ e.version = products[p].version
                BY <2>2, <2>3, <2>5, <2>6, <3>2
            <4>2. req[c].op \in {"order", "update"}
                BY <2>2, <2>3, <2>5, <2>6, <3>2, <4>1
            <4>3. e.stock = products[p].stock
                BY <3>2, <4>1 DEF StockLedger
            <4> QED
                BY <2>2, <2>3, <3>2, <4>2, <4>3
        <3>3. CASE e = n
            BY <2>1, <2>2, <2>3, <2>5, <2>6, <3>3
        <3> QED
            BY <2>1, <3>1, <3>2, <3>3
    <2>7. ASSUME NEW e \in outbox', e.version = products'[e.product].version
          PROVE  e.stock = products'[e.product].stock
        <3>1. CASE e = n
            BY <2>3, <2>4, <3>1
        <3>2. CASE e \in outbox /\ e.product = p
            BY <2>2, <2>4, <2>5, <2>7, <3>2
        <3>3. CASE e \in outbox /\ e.product # p
            BY <2>4, <2>5, <2>7, <3>3 DEF StockLedger
        <3> QED
            BY <2>1, <3>1, <3>2, <3>3
    <2> QED
        BY <2>6, <2>7 DEF StockLedger
<1> QED
    BY <1>1, <1>2, TablesStep

(* The stock each event reports follows from the event before it, however  *)
(* purchases and updates of a product interleave.                          *)
THEOREM StockIsAccountedFor == Spec => []StockLedger
<1>1. Init => StockLedger
    BY DEF Init, StockLedger
<1>2. Inv /\ EventPerVersion /\ StockLedger /\ [Next]_vars => StockLedger'
    BY LedgerStep
<1> QED
    BY <1>1, <1>2, Invariance, NoDualWrite, PTL DEF Spec

(* The last event of a product has the price of its row. *)
PricePublished ==
    \A e \in outbox : e.version = products[e.product].version =>
        e.price = products[e.product].price

(* A commit publishes the price of the row it writes.                      *)
LEMMA PriceStep ==
    ASSUME Inv, EventPerVersion, PricePublished, [Next]_vars
    PROVE  PricePublished'
<1>1. CASE UNCHANGED <<products, orders, outbox>>
    BY <1>1 DEF PricePublished
<1>2. ASSUME NEW c \in Clients, CommitEffect(c) PROVE PricePublished'
    <2> DEFINE p == req[c].product
               n == PendingEvent(c)
    <2>1. /\ products' = [products EXCEPT ![p] = work[c].row]
          /\ outbox' = outbox \cup {n} /\ pc[c] = "written"
        BY <1>2 DEF CommitEffect
    <2>2. /\ p \in Products /\ products[p].version \in Nat
          /\ work[c].row.version = products[p].version + 1
        BY <2>1, CommitRow DEF Row
    <2>3. n.product = p /\ n.version = work[c].row.version /\ n.price = work[c].row.price
        BY <2>1, CommitEvent
    <2>4. /\ \A q \in Products \ {p} : products'[q] = products[q]
          /\ products'[p] = work[c].row
        BY <2>1, <2>2 DEF Inv, TypeOK
    <2>5. \A f \in outbox : /\ f.product \in Products /\ f.version \in Nat
                            /\ f.version <= products[f.product].version
        BY DEF Inv, TypeOK, Event, EventPerVersion
    <2> HIDE DEF p, n
    <2>6. ASSUME NEW e \in outbox', e.version = products'[e.product].version
          PROVE  e.price = products'[e.product].price
        <3>1. CASE e = n
            BY <2>3, <2>4, <3>1
        <3>2. CASE e \in outbox /\ e.product = p
            BY <2>2, <2>4, <2>5, <2>6, <3>2
        <3>3. CASE e \in outbox /\ e.product # p
            BY <2>4, <2>5, <2>6, <3>3 DEF PricePublished
        <3> QED
            BY <2>1, <3>1, <3>2, <3>3
    <2> QED
        BY <2>6 DEF PricePublished
<1> QED
    BY <1>1, <1>2, TablesStep

(* A commit of an order adds the order and its event together, at the      *)
(* price the version before it published.                                  *)
LEMMA PurchaseStep ==
    ASSUME Inv, EventPerVersion, PricePublished, OrderPerPurchase, [Next]_vars
    PROVE  OrderPerPurchase'
<1>1. CASE UNCHANGED <<products, orders, outbox>>
    BY <1>1 DEF OrderPerPurchase
<1>2. ASSUME NEW c \in Clients, CommitEffect(c) PROVE OrderPerPurchase'
    <2> DEFINE n == PendingEvent(c)
               b == PendingOrder(c)
    <2>1. /\ outbox' = outbox \cup {n} /\ pc[c] = "written"
          /\ req[c].op = "order" => orders' = orders \cup {b}
          /\ req[c].op # "order" => orders' = orders
        BY <1>2 DEF CommitEffect
    <2>2. /\ req[c].product \in Products /\ products[req[c].product].version \in Nat
          /\ work[c].row.version = products[req[c].product].version + 1
        BY <2>1, CommitRow DEF Row
    <2>3. /\ n.product = req[c].product /\ n.version = work[c].row.version
          /\ n.qty = OrderQty(req[c])
          /\ n.type = "purchased" <=> req[c].op = "order"
        BY <2>1, CommitEvent
    <2>4. /\ b.product = req[c].product /\ b.version = work[c].row.version
          /\ b.price = work[c].row.price /\ b.qty = req[c].qty
        BY DEF PendingOrder
    <2>5. \A o \in orders : o.product = req[c].product =>
            o.version # work[c].row.version
        <3>1. ASSUME NEW o \in orders, o.product = req[c].product
              PROVE  o.version # products[req[c].product].version + 1
            <4>1. PICK e \in outbox : e.product = o.product /\ e.version = o.version
                BY <3>1 DEF OrderPerPurchase
            <4>2. e.version <= products[e.product].version /\ e.version \in Nat
                BY <4>1 DEF EventPerVersion, Inv, TypeOK, Event
            <4> QED
                BY <2>2, <3>1, <4>1, <4>2
        <3> QED
            BY <2>2, <3>1
    <2>6. req[c].op = "order" => n.qty = req[c].qty
        BY <2>3 DEF OrderQty
    <2> HIDE DEF n, b
    <2>7. ASSUME req[c].op = "order"
          PROVE  \E e \in outbox : /\ e.product = b.product /\ e.version + 1 = b.version
                                   /\ e.price = b.price
        <3> DEFINE p == req[c].product
        <3>1. /\ products[p].state = "live" /\ p \in Products
              /\ products[p].price = work[c].row.price
            BY <2>1, <2>7, CommitRow
        <3>2. products[p].version \in 1 .. products[p].version
            BY <2>2, <3>1 DEF Inv, RowInv
        <3>3. PICK e \in outbox : e.product = p /\ e.version = products[p].version
            BY <3>1, <3>2 DEF EventPerVersion
        <3>4. e.price = products[p].price
            BY <3>3 DEF PricePublished
        <3> QED
            BY <2>2, <2>4, <3>1, <3>3, <3>4
    <2>8. CASE req[c].op = "order"
        BY <2>1, <2>3, <2>4, <2>5, <2>6, <2>7, <2>8 DEF OrderPerPurchase
    <2>9. CASE req[c].op # "order"
        BY <2>1, <2>3, <2>9 DEF OrderPerPurchase
    <2> QED
        BY <2>8, <2>9
<1> QED
    BY <1>1, <1>2, TablesStep

(* Orders and purchased events correspond one to one, quantity included,   *)
(* and every order has the unit price of the version before it.            *)
THEOREM PurchasesAreOrders == Spec => []OrderPerPurchase
<1>1. Init => OrderPerPurchase
    BY DEF Init, OrderPerPurchase
<1>2. Init => PricePublished
    BY DEF Init, PricePublished
<1>3. Inv /\ EventPerVersion /\ PricePublished /\ [Next]_vars => PricePublished'
    BY PriceStep
<1>4. Inv /\ EventPerVersion /\ PricePublished /\ OrderPerPurchase /\ [Next]_vars
        => OrderPerPurchase'
    BY PurchaseStep
<1> QED
    BY <1>1, <1>2, <1>3, <1>4, Invariance, NoDualWrite, PTL DEF Spec

-----------------------------------------------------------------------------
(* What stands behind a new answer r given to client c.                    *)
Backed(c, r) ==
    /\ pc[c] # "idle" /\ req[c].op = "order"
    /\ r.id = req[c].id /\ r.key = req[c].key
    /\ r.product = req[c].product /\ r.qty = req[c].qty
    /\ \/ r.status = "created" /\ r.order = req[c].id /\ CommitEffect(c)
       \/ /\ r.status = "replayed" /\ r.order = keys[r.key].order
          /\ keys[r.key] # NoRow /\ SameRequest(r.key, r) /\ UNCHANGED orders
       \/ /\ r.status = "mismatch" /\ keys[r.key] # NoRow
          /\ ~SameRequest(r.key, r) /\ UNCHANGED orders
       \/ r.status \in {"notfound", "insufficient"} /\ UNCHANGED orders

(* No step gives an answer nothing stands behind; in particular a replay   *)
(* finds the stored order.                                                 *)
LEMMA RepliesStep ==
    ASSUME Inv, [Next]_vars, NEW r \in replies' \ replies
    PROVE  \E c \in Clients : Backed(c, r)
<1> USE DEF Backed
<1>1. ASSUME NEW c \in Clients, Replay(c) PROVE Backed(c, r)
    <2> DEFINE k == req[c].key
    <2>1. pc[c] = "replay" /\ req[c].op = "order" /\ k \in Keys
        BY <1>1, SessionTypes DEF Replay, Running, Inv
    <2>2. keys[k] # NoRow /\ StoredOrder(k) # {}
        BY <2>1 DEF Inv, ResultInv, StoredOrder
    <2>3. CASE ~SameRequest(k, req[c])
        <3>1. Finish(c, "mismatch", req[c].id) /\ UNCHANGED orders
            BY <1>1, <2>2, <2>3 DEF Replay, Rollback, tables
        <3>2. /\ r.id = req[c].id /\ r.status = "mismatch" /\ r.key = k
              /\ r.product = req[c].product /\ r.qty = req[c].qty
            BY <3>1, FinishReplies
        <3> QED
            BY <2>1, <2>2, <2>3, <3>1, <3>2 DEF SameRequest
    <2>4. CASE SameRequest(k, req[c])
        <3>1. Finish(c, "replayed", keys[k].order) /\ UNCHANGED orders
            BY <1>1, <2>2, <2>4 DEF Replay, Rollback, tables
        <3>2. /\ r.id = req[c].id /\ r.status = "replayed" /\ r.order = keys[k].order
              /\ r.key = k /\ r.product = req[c].product /\ r.qty = req[c].qty
            BY <3>1, FinishReplies
        <3> QED
            BY <2>1, <2>2, <2>4, <3>1, <3>2 DEF SameRequest
    <2> QED
        BY <2>3, <2>4
<1>2. ASSUME NEW c \in Clients, NoRowError(c) PROVE Backed(c, r)
    <2>1. /\ pc[c] # "idle" /\ UNCHANGED orders
          /\ \E status \in {"notfound", "insufficient"} : Finish(c, status, req[c].id)
        BY <1>2 DEF NoRowError, Running, Rollback, tables
    <2> QED
        BY <2>1, FinishReplies
<1>3. ASSUME NEW c \in Clients, Refuse(c) \/ Abort(c) PROVE FALSE
    <2>1. Finish(c, "failed", req[c].id)
        BY <1>3 DEF Refuse, Abort, Rollback
    <2> QED
        BY <2>1, FinishReplies
<1>4. ASSUME NEW c \in Clients, Commit(c) PROVE Backed(c, r)
    <2>1. PICK status \in {"created", "failed"} : Finish(c, status, req[c].id)
        BY <1>4 DEF Commit
    <2>2. CommitEffect(c) /\ pc[c] # "idle"
        BY <1>4 DEF Commit, CommitEffect, Finish
    <2> QED
        BY <2>1, <2>2, FinishReplies
<1>5. ASSUME NEW c \in Clients, BeginRequest(c) PROVE FALSE
    BY <1>5, BeginSteps DEF Begin, Inv
<1>6. ASSUME NEW c \in Clients,
             \/ ClaimKey(c) \/ ConflictKey(c) \/ PurchaseNoRow(c)
             \/ Purchase(c) \/ Save(c) \/ Update(c) \/ Delete(c)
      PROVE  FALSE
    BY <1>6 DEF ClaimKey, ConflictKey, PurchaseNoRow, Purchase, Save, Update, Delete, Written
<1>7. ASSUME Purging \/ Tick \/ UNCHANGED vars PROVE FALSE
    BY <1>7, PurgeFrame DEF Tick, vars
<1> HIDE DEF Backed
<1> QED
    BY <1>1, <1>2, <1>3, <1>4, <1>5, <1>6, <1>7 DEF Next, Step, Purging

(* A replay always finds the order its key stored.                         *)
THEOREM ReplaysFindOrders == Spec => []ReplayFindsOrder
<1>1. Init => ReplayFindsOrder
    BY DEF Init, ReplayFindsOrder
<1>2. Inv /\ ReplayFindsOrder /\ [Next]_vars => ReplayFindsOrder'
    BY RepliesStep DEF ReplayFindsOrder, Backed
<1> QED
    BY <1>1, <1>2, Invariance, PTL DEF Spec

(* Answers stay true: orders are never removed, and a new order has an id  *)
(* no earlier answer carries.                                              *)
LEMMA TruthStep ==
    ASSUME Inv, ReplyTruthful, [Next]_vars
    PROVE  ReplyTruthful'
<1>1. orders \subseteq orders'
    BY TablesStep DEF CommitEffect
<1>2. ASSUME NEW o \in orders' \ orders, NEW r \in replies PROVE o.id # r.id
    <2>1. PICK c \in Clients : CommitEffect(c) /\ o = PendingOrder(c)
        BY <1>2, TablesStep DEF CommitEffect
    <2> QED
        BY <2>1 DEF CommitEffect, PendingOrder, Inv, IdInv
<1>3. ASSUME NEW r \in replies
      PROVE  /\ r.status \in {"created", "replayed"} =>
                \E o \in orders' : /\ o.id = r.order /\ o.key = r.key
                                   /\ o.product = r.product /\ o.qty = r.qty
             /\ r.status \in {"replayed", "mismatch", "notfound", "insufficient"} =>
                \A o \in orders' : o.id # r.id
             /\ r.status = "mismatch" =>
                \E o \in orders' : /\ o.key = r.key
                                   /\ <<o.product, o.qty>> # <<r.product, r.qty>>
    BY <1>1, <1>2 DEF ReplyTruthful
<1>4. ASSUME NEW r \in replies' \ replies
      PROVE  /\ r.status \in {"created", "replayed"} =>
                \E o \in orders' : /\ o.id = r.order /\ o.key = r.key
                                   /\ o.product = r.product /\ o.qty = r.qty
             /\ r.status \in {"replayed", "mismatch", "notfound", "insufficient"} =>
                \A o \in orders' : o.id # r.id
             /\ r.status = "mismatch" =>
                \E o \in orders' : /\ o.key = r.key
                                   /\ <<o.product, o.qty>> # <<r.product, r.qty>>
    <2>1. PICK c \in Clients : Backed(c, r)
        BY <1>4, RepliesStep
    <2>2. r.key \in Keys
        BY <2>1, SessionTypes DEF Backed, Inv
    <2>3. \A o \in orders : o.id # r.id
        BY <2>1 DEF Backed, Inv, IdInv
    <2>4. CASE r.status = "created"
        <3>1. PendingOrder(c) \in orders'
            BY <2>1, <2>4 DEF Backed, CommitEffect
        <3>2. /\ PendingOrder(c).id = r.order /\ PendingOrder(c).key = r.key
              /\ PendingOrder(c).product = r.product /\ PendingOrder(c).qty = r.qty
            BY <2>1, <2>4 DEF Backed, PendingOrder
        <3> QED
            BY <2>4, <3>1, <3>2
    <2>5. CASE r.status \in {"replayed", "mismatch"}
        <3>1. keys[r.key] # NoRow /\ UNCHANGED orders
            BY <2>1, <2>5 DEF Backed
        <3>2. PICK o \in orders : /\ o.id = keys[r.key].order /\ o.key = r.key
                                  /\ o.product = keys[r.key].product
                                  /\ o.qty = keys[r.key].qty
            BY <2>2, <3>1 DEF Inv, ResultInv
        <3> QED
            BY <2>1, <2>3, <2>5, <3>1, <3>2 DEF Backed, SameRequest
    <2>6. CASE r.status \in {"notfound", "insufficient"}
        BY <2>1, <2>3, <2>6 DEF Backed
    <2> QED
        BY <2>1, <2>4, <2>5, <2>6 DEF Backed
<1> QED
    BY <1>3, <1>4 DEF ReplyTruthful

(* Every answer to an order request is true, for ever after.               *)
THEOREM RepliesAreTrue == Spec => []ReplyTruthful
<1>1. Init => ReplyTruthful
    BY DEF Init, ReplyTruthful
<1>2. Inv /\ ReplyTruthful /\ [Next]_vars => ReplyTruthful'
    BY TruthStep
<1> QED
    BY <1>1, <1>2, Invariance, PTL DEF Spec

-----------------------------------------------------------------------------
(* Only the passing of time changes the clock.                             *)
LEMMA ClockStep ==
    ASSUME Inv, [Next]_vars
    PROVE  clock' = clock \/ Tick
<1>1. ASSUME NEW c \in Clients, BeginRequest(c) PROVE clock' = clock
    BY <1>1, BeginSteps DEF Inv, Begin
<1>2. ASSUME NEW c \in Clients,
             Replay(c) \/ NoRowError(c) \/ Refuse(c) \/ Abort(c) \/ Commit(c)
      PROVE  clock' = clock
    BY <1>2, UnwrittenSteps DEF Inv, Unwritten, Commit, Finish
<1>3. ASSUME NEW c \in Clients,
             \/ ClaimKey(c) \/ ConflictKey(c) \/ PurchaseNoRow(c)
             \/ Purchase(c) \/ Save(c) \/ Update(c) \/ Delete(c)
      PROVE  clock' = clock
    BY <1>3 DEF ClaimKey, ConflictKey, PurchaseNoRow, Purchase, Save, Update, Delete, Written
<1>4. ASSUME Purging \/ UNCHANGED vars PROVE clock' = clock
    BY <1>4, PurgeFrame DEF vars
<1> QED
    BY <1>1, <1>2, <1>3, <1>4 DEF Next, Step, Purging

(* A commit is one of Shop's writes of a product and its event.            *)
LEMMA CommitWrites ==
    ASSUME Inv, NEW c \in Clients, CommitEffect(c),
           NEW p, p = req[c].product, NEW r, r = work[c].row,
           NEW type, type = EventType(req[c].op), NEW qty, qty = OrderQty(req[c])
    PROVE  Promise!Write(p, r, type, qty)
<1> DEFINE e == PendingEvent(c)
<1>1. /\ products' = [products EXCEPT ![p] = r] /\ outbox' = outbox \cup {e}
      /\ pc[c] = "written"
    BY DEF CommitEffect
<1>2. e.seq = work[c].seq /\ e = NewEvent(e.seq, type, p, r, qty)
    BY DEF PendingEvent, NewEvent
<1>3. \A f \in outbox : f.seq # e.seq /\ (f.product = p => f.seq < e.seq)
    BY <1>1, <1>2 DEF Inv, SeqInv
<1>4. e = Promise!NewEvent(e.seq, type, p, r, qty)
    BY <1>2 DEF NewEvent, Promise!NewEvent
<1> HIDE DEF e
<1> QED
    BY <1>1, <1>3, <1>4 DEF Promise!Write

(* Every step of the store is a step of Shop or shows nothing.             *)
LEMMA ShopStep ==
    ASSUME Inv, [Next]_vars
    PROVE  [Promise!Next]_(Promise!vars)
<1>1. CASE Tick
    BY <1>1 DEF Tick, tables, Promise!Next, Promise!Tick
<1>2. CASE UNCHANGED <<products, orders, outbox, clock>>
    BY <1>2 DEF Promise!vars
<1>3. ASSUME NEW c \in Clients, CommitEffect(c) PROVE Promise!Next
    <2> DEFINE p == req[c].product
    <2>1. /\ pc[c] = "written" /\ clock' = clock
          /\ req[c].op # "order" => orders' = orders
          /\ req[c].op = "order" => orders' = orders \cup {PendingOrder(c)}
        BY <1>3 DEF CommitEffect
    <2>2. /\ p \in Products /\ req[c].op \in {"order", "save", "update", "delete"}
          /\ Derived(c, products[p])
          /\ req[c].op # "save" => products[p].state = "live"
          /\ req[c].op = "save" => products[p].state = "fresh"
          /\ work[c].row.version = products[p].version + 1
        BY <2>1, CommitRow
    <2>3. Promise!Write(p, work[c].row, EventType(req[c].op), OrderQty(req[c]))
        BY <1>3, CommitWrites
    <2>4. /\ req[c].op = "save" => req[c].stock \in Stocks /\ req[c].price \in Prices
          /\ req[c].op = "update" => req[c].price \in Prices
          /\ req[c].op = "order" => req[c].key \in Keys /\ req[c].qty \in Quantities
        <3>1. req[c] \in Request
            BY <2>1, SessionTypes DEF Inv
        <3> QED
            BY <3>1, RequestFields
    <2> HIDE DEF p
    <2>5. CASE req[c].op = "save"
        <3>1. /\ work[c].row = Promise!Inserted(req[c].stock, req[c].price)
              /\ EventType(req[c].op) = "created" /\ OrderQty(req[c]) = 0
            BY <2>2, <2>5 DEF Derived, Inserted, Promise!Inserted, EventType, OrderQty
        <3>2. Promise!Create(p)
            BY <2>1, <2>2, <2>3, <2>4, <2>5, <3>1 DEF Promise!Create
        <3> QED
            BY <2>2, <3>2 DEF Promise!Next
    <2>6. CASE req[c].op = "update"
        <3>1. /\ work[c].row = Promise!Repriced(products[p], req[c].price)
              /\ EventType(req[c].op) = "updated" /\ OrderQty(req[c]) = 0
            BY <2>2, <2>6 DEF Derived, Repriced, Promise!Repriced, EventType, OrderQty
        <3>2. Promise!Update(p)
            BY <2>1, <2>2, <2>3, <2>4, <2>6, <3>1 DEF Promise!Update
        <3> QED
            BY <2>2, <3>2 DEF Promise!Next
    <2>7. CASE req[c].op = "delete"
        <3>1. /\ work[c].row = Promise!Removed(products[p])
              /\ EventType(req[c].op) = "deleted" /\ OrderQty(req[c]) = 0
              /\ \A o \in orders : o.product # p
            BY <2>2, <2>7 DEF Derived, Removed, Promise!Removed, EventType, OrderQty, InUse, p
        <3>2. Promise!Delete(p)
            BY <2>1, <2>2, <2>3, <2>7, <3>1 DEF Promise!Delete
        <3> QED
            BY <2>2, <3>2 DEF Promise!Next
    <2>8. CASE req[c].op = "order"
        <3> DEFINE o == PendingOrder(c)
        <3>1. /\ work[c].row = Promise!Purchased(products[p], req[c].qty)
              /\ Promise!Purchasable(products[p], req[c].qty)
              /\ EventType(req[c].op) = "purchased" /\ OrderQty(req[c]) = req[c].qty
            BY <2>2, <2>8 DEF Derived, Purchased, Promise!Purchased, Purchasable,
                Promise!Purchasable, EventType, OrderQty
        <3>2. /\ o.key = req[c].key /\ o.product = p /\ o.qty = req[c].qty
              /\ o.id = req[c].id /\ o.created = req[c].now /\ o.claimed = work[c].claimed
              /\ o.price = products[p].price /\ o.version = products[p].version + 1
            BY <2>2, <3>1 DEF PendingOrder, Promise!Purchased, p
        <3>3. Holding(c)
            BY <2>1, <2>8 DEF Holding, Running
        <3>4. o.created <= o.claimed /\ o.claimed <= clock
            BY <3>2, <3>3 DEF Inv, TimeInv
        <3>5. \A q \in orders : q.id # o.id
            BY <2>1, <3>2 DEF Inv, IdInv
        <3>6. \A q \in orders : q.key = req[c].key => Promise!ExpiresAt(q.created) < o.claimed
            BY <3>2, <3>3 DEF Inv, KeyInv, ExpiresAt, Promise!ExpiresAt
        <3>7. orders' = orders \cup {o}
            BY <2>1, <2>8
        <3> HIDE DEF o
        <3>8. Promise!Purchase(req[c].key, p, req[c].qty)
            BY <2>1, <2>3, <3>1, <3>2, <3>4, <3>5, <3>6, <3>7 DEF Promise!Purchase
        <3> QED
            BY <2>2, <2>4, <2>8, <3>8 DEF Promise!Next
    <2> QED
        BY <2>2, <2>5, <2>6, <2>7, <2>8
<1> QED
    BY <1>1, <1>2, <1>3, TablesStep, ClockStep

(* The store implements Shop: whatever requests, failures and purges       *)
(* interleave, the committed tables change only by Shop's atomic writes.   *)
THEOREM StoreImplementsShop == Spec => ImplementsShop
<1>1. Init => Promise!Init
    BY DEF Init, Promise!Init, FreshRow, Promise!FreshRow
<1>2. Inv /\ [Next]_vars => [Promise!Next]_(Promise!vars)
    BY ShopStep
<1> QED
    BY <1>1, <1>2, Invariance, PTL DEF Spec, ImplementsShop, Promise!Spec
=============================================================================
