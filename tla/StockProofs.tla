---------------------------- MODULE StockProofs ----------------------------
(***************************************************************************)
(* Conservation of stock: StockConserved for every instance of OrderStore. *)
(* The property sums the quantities of a set of orders, so the module      *)
(* first proves what that sum is: it does not depend on the order in which *)
(* the fold picks the orders, and one order more adds its quantity.        *)
(***************************************************************************)
EXTENDS OrderStoreProofs, FiniteSetTheorems, WellFoundedInduction

-----------------------------------------------------------------------------
(* Induction over the natural numbers, stated for the set of those that    *)
(* satisfy a property.                                                     *)
LEMMA SetInduction ==
    ASSUME NEW G, 0 \in G, \A n \in Nat : n \in G => n + 1 \in G
    PROVE  Nat \subseteq G
<1> SUFFICES ASSUME Nat \ G # {} PROVE FALSE
    OBVIOUS
<1>1. \A x, y \in Nat : <<y, x>> \in OpToRel(<, Nat) <=> y < x
    BY DEF OpToRel
<1>2. PICK n \in Nat \ G : \A y \in Nat : y < n => y \in G
    <2> DEFINE B == Nat \ G
               R == OpToRel(<, Nat)
    <2>1. IsWellFoundedOn(R, Nat)
        BY NatLessThanWellFounded
    <2> HIDE DEF R
    <2>2. \E n \in B : \A y \in B : ~(<<y, n>> \in R)
        BY <2>1, WFMin
    <2> QED
        BY <1>1, <2>2 DEF R
<1>3. n - 1 \in Nat /\ n - 1 < n
    BY <1>2
<1> QED
    BY <1>2, <1>3

-----------------------------------------------------------------------------
(* The fold of Units, by name: the order it picks from a set, the equation *)
(* it solves on a family of sets, and the function it is.                  *)
Pick(s) == CHOOSE o \in s : TRUE
Rest(s) == s \ {Pick(s)}
Fold(S) ==
    CHOOSE g : g = [s \in SUBSET S |->
                        IF s = {} THEN 0 ELSE Pick(s).qty + g[s \ {Pick(s)}]]

(* Units is that function at the whole set.                                *)
LEMMA UnitsIsFold ==
    ASSUME NEW S
    PROVE  Units(S) = Fold(S)[S]
BY Zenon DEF Units, MapThenSumSet, MapThenFoldSet, Fold, Pick

(* A set that is not empty has one element more than its rest.             *)
LEMMA RestIsSmaller ==
    ASSUME NEW s, IsFiniteSet(s), s # {}
    PROVE  /\ Pick(s) \in s /\ Rest(s) \subseteq s /\ IsFiniteSet(Rest(s))
           /\ Cardinality(s) \in Nat \ {0}
           /\ Cardinality(Rest(s)) = Cardinality(s) - 1
<1>1. Pick(s) \in s
    BY DEF Pick
<1> QED
    BY <1>1, FS_RemoveElement, FS_CardinalityType, FS_EmptySet DEF Rest

(* The equation of the fold has a solution: one on the sets of up to n     *)
(* elements gives one on the sets of up to n + 1.                          *)
LEMMA FoldExists ==
    ASSUME NEW S, IsFiniteSet(S)
    PROVE  \E g : g = [s \in SUBSET S |-> IF s = {} THEN 0 ELSE Pick(s).qty + g[Rest(s)]]
<1> DEFINE Upto(n) == {s \in SUBSET S : Cardinality(s) <= n}
           Solved(n) == \E g : g = [s \in Upto(n) |->
                                        IF s = {} THEN 0 ELSE Pick(s).qty + g[Rest(s)]]
           G == {n \in Nat : Solved(n)}
<1>1. \A s \in SUBSET S : IsFiniteSet(s) /\ Cardinality(s) \in Nat
                           /\ Cardinality(s) <= Cardinality(S)
    BY FS_Subset, FS_CardinalityType
<1>2. 0 \in G
    <2> DEFINE g == [s \in Upto(0) |-> 0]
    <2>1. \A s \in Upto(0) : s = {}
        BY <1>1, FS_EmptySet
    <2>2. g = [s \in Upto(0) |-> IF s = {} THEN 0 ELSE Pick(s).qty + g[Rest(s)]]
        BY <2>1
    <2> QED
        BY <2>2
<1>3. ASSUME NEW n \in Nat, n \in G PROVE n + 1 \in G
    <2>1. PICK g : g = [s \in Upto(n) |-> IF s = {} THEN 0 ELSE Pick(s).qty + g[Rest(s)]]
        BY <1>3
    <2> DEFINE h == [s \in Upto(n + 1) |-> IF s = {} THEN 0 ELSE Pick(s).qty + g[Rest(s)]]
    <2>2. ASSUME NEW s \in Upto(n + 1), s # {}
          PROVE  Rest(s) \in Upto(n) /\ Rest(s) \in Upto(n + 1)
        BY <1>1, <2>2, RestIsSmaller
    <2>3. \A t \in Upto(n) : t \in Upto(n + 1) => h[t] = g[t]
        <3> HIDE DEF Upto
        <3> QED
            BY <2>1
    <2>4. h = [s \in Upto(n + 1) |-> IF s = {} THEN 0 ELSE Pick(s).qty + h[Rest(s)]]
        <3> HIDE DEF Upto
        <3>1. \A s \in Upto(n + 1) : s # {} => h[Rest(s)] = g[Rest(s)]
            BY <2>2, <2>3
        <3> DEFINE f == [s \in Upto(n + 1) |-> IF s = {} THEN 0 ELSE Pick(s).qty + h[Rest(s)]]
        <3>2. \A s \in Upto(n + 1) : h[s] = f[s]
            BY <3>1
        <3>3. DOMAIN h = Upto(n + 1) /\ h = [s \in DOMAIN h |-> h[s]]
            OBVIOUS
        <3> QED
            BY <3>2, <3>3
    <2>5. Solved(n + 1)
        <3> HIDE DEF h, Upto
        <3> WITNESS h
        <3> QED
            BY <2>4
    <2> HIDE DEF Solved
    <2> QED
        BY <2>5
<1>4. Cardinality(S) \in G
    <2> HIDE DEF G
    <2> QED
        BY <1>1, <1>2, <1>3, SetInduction
<1>5. Upto(Cardinality(S)) = SUBSET S
    BY <1>1
<1> QED
    BY <1>4, <1>5

(* So the fold satisfies its equation.                                     *)
LEMMA FoldEquation ==
    ASSUME NEW S, IsFiniteSet(S), NEW s \in SUBSET S
    PROVE  Fold(S)[s] = IF s = {} THEN 0 ELSE Pick(s).qty + Fold(S)[Rest(s)]
<1> DEFINE Solves(g) ==
        g = [t \in SUBSET S |-> IF t = {} THEN 0 ELSE Pick(t).qty + g[t \ {Pick(t)}]]
<1>1. \E g : Solves(g)
    BY FoldExists DEF Rest
<1>2. Fold(S) = CHOOSE g : Solves(g)
    BY Zenon DEF Fold
<1>3. Solves(Fold(S))
    <2> HIDE DEF Solves
    <2> QED
        BY <1>1, <1>2
<1> QED
    BY <1>3 DEF Rest

(* The fold over a part of a set is the fold over the set, at that part.   *)
LEMMA FoldsAgree ==
    ASSUME NEW S, IsFiniteSet(S), NEW T \in SUBSET S
    PROVE  Fold(T)[T] = Fold(S)[T]
<1> DEFINE G == {n \in Nat : \A s \in SUBSET T :
                                Cardinality(s) = n => Fold(T)[s] = Fold(S)[s]}
<1>1. IsFiniteSet(T) /\ \A s \in SUBSET T : IsFiniteSet(s) /\ Cardinality(s) \in Nat
    BY FS_Subset, FS_CardinalityType
<1>2. \A s \in SUBSET T :
        /\ Fold(T)[s] = IF s = {} THEN 0 ELSE Pick(s).qty + Fold(T)[Rest(s)]
        /\ Fold(S)[s] = IF s = {} THEN 0 ELSE Pick(s).qty + Fold(S)[Rest(s)]
    BY <1>1, FoldEquation
<1>3. 0 \in G
    BY <1>1, <1>2, FS_EmptySet
<1>4. ASSUME NEW n \in Nat, n \in G PROVE n + 1 \in G
    <2>1. ASSUME NEW s \in SUBSET T, Cardinality(s) = n + 1
          PROVE  Fold(T)[s] = Fold(S)[s]
        <3>1. s # {}
            BY <2>1, FS_EmptySet
        <3>2. Rest(s) \in SUBSET T /\ Cardinality(Rest(s)) = n
            BY <1>1, <2>1, <3>1, RestIsSmaller
        <3> QED
            BY <1>2, <1>4, <3>1, <3>2
    <2> QED
        BY <2>1
<1> HIDE DEF G
<1>5. Cardinality(T) \in G
    BY <1>1, <1>3, <1>4, SetInduction
<1> QED
    BY <1>5 DEF G

(* The sum over no orders, and the sum by way of the order picked first.   *)
LEMMA UnitsByPick ==
    /\ Units({}) = 0
    /\ \A S : IsFiniteSet(S) /\ S # {} => Units(S) = Pick(S).qty + Units(Rest(S))
<1>1. Units({}) = 0
    BY UnitsIsFold, FoldEquation, FS_EmptySet
<1>2. ASSUME NEW S, IsFiniteSet(S), S # {} PROVE Units(S) = Pick(S).qty + Units(Rest(S))
    <2>1. Rest(S) \in SUBSET S
        BY DEF Rest
    <2>2. Fold(S)[S] = Pick(S).qty + Fold(S)[Rest(S)]
        BY <1>2, FoldEquation
    <2>3. Fold(Rest(S))[Rest(S)] = Fold(S)[Rest(S)]
        BY <1>2, <2>1, FoldsAgree
    <2> QED
        BY <2>2, <2>3, UnitsIsFold
<1> QED
    BY <1>1, <1>2

(* Sets of orders, whose quantities are natural numbers.                   *)
Countable(S) == IsFiniteSet(S) /\ \A o \in S : o.qty \in Nat

(* A sum of quantities is a natural number.                                *)
LEMMA UnitsType ==
    ASSUME NEW S, Countable(S)
    PROVE  Units(S) \in Nat
<1> DEFINE G == {n \in Nat : \A s \in SUBSET S : Cardinality(s) = n => Units(s) \in Nat}
<1>1. \A s \in SUBSET S : IsFiniteSet(s) /\ Cardinality(s) \in Nat
    BY FS_Subset, FS_CardinalityType DEF Countable
<1>2. 0 \in G
    BY <1>1, UnitsByPick, FS_EmptySet
<1>3. ASSUME NEW n \in Nat, n \in G PROVE n + 1 \in G
    <2>1. ASSUME NEW s \in SUBSET S, Cardinality(s) = n + 1 PROVE Units(s) \in Nat
        <3>1. s # {}
            BY <2>1, FS_EmptySet
        <3>2. Pick(s) \in S /\ Rest(s) \in SUBSET S /\ Cardinality(Rest(s)) = n
            BY <1>1, <2>1, <3>1, RestIsSmaller
        <3>3. Units(Rest(s)) \in Nat /\ Pick(s).qty \in Nat
            BY <1>3, <3>2 DEF Countable
        <3> QED
            BY <1>1, <3>1, <3>3, UnitsByPick
    <2> QED
        BY <2>1
<1> HIDE DEF G
<1>4. Cardinality(S) \in G
    BY <1>1, <1>2, <1>3, SetInduction
<1> QED
    BY <1>4 DEF G

(* It does not matter which order is counted first: two that are taken out *)
(* one after the other may be taken out the other way round.               *)
LEMMA UnitsByAny ==
    ASSUME NEW S, Countable(S), NEW x \in S
    PROVE  Units(S) = x.qty + Units(S \ {x})
<1> DEFINE G == {n \in Nat : \A s \in SUBSET S : Cardinality(s) = n =>
                                \A y \in s : Units(s) = y.qty + Units(s \ {y})}
<1>1. \A s \in SUBSET S : IsFiniteSet(s) /\ Cardinality(s) \in Nat /\ Countable(s)
    BY FS_Subset, FS_CardinalityType DEF Countable
<1>2. 0 \in G
    BY <1>1, FS_EmptySet
<1>3. ASSUME NEW n \in Nat, n \in G PROVE n + 1 \in G
    <2>1. ASSUME NEW s \in SUBSET S, Cardinality(s) = n + 1, NEW y \in s
          PROVE  Units(s) = y.qty + Units(s \ {y})
        <3>1. Pick(s) \in s /\ Rest(s) \in SUBSET S /\ Cardinality(Rest(s)) = n
            BY <1>1, <2>1, RestIsSmaller
        <3>2. Units(s) = Pick(s).qty + Units(Rest(s))
            BY <1>1, <2>1, UnitsByPick
        <3>3. CASE y = Pick(s)
            BY <3>2, <3>3 DEF Rest
        <3>4. CASE y # Pick(s)
            <4> DEFINE both == (s \ {y}) \ {Pick(s)}
            <4>1. Units(Rest(s)) = y.qty + Units(both)
                <5>1. y \in Rest(s) /\ Rest(s) \ {y} = both
                    BY <2>1, <3>4 DEF Rest
                <5> QED
                    BY <1>3, <3>1, <5>1
            <4>2. Units(s \ {y}) = Pick(s).qty + Units(both)
                <5>1. s \ {y} \in SUBSET S /\ Cardinality(s \ {y}) = n /\ Pick(s) \in s \ {y}
                    BY <1>1, <2>1, <3>1, <3>4, FS_RemoveElement
                <5> QED
                    BY <1>3, <5>1
            <4>3. /\ Pick(s).qty \in Nat /\ y.qty \in Nat
                  /\ Units(both) \in Nat
                <5>1. both \in SUBSET S
                    OBVIOUS
                <5> QED
                    BY <1>1, <2>1, <3>1, <5>1, UnitsType DEF Countable
            <4> QED
                BY <3>2, <4>1, <4>2, <4>3
        <3> QED
            BY <3>3, <3>4
    <2> QED
        BY <2>1
<1> HIDE DEF G
<1>4. Cardinality(S) \in G
    BY <1>1, <1>2, <1>3, SetInduction
<1> QED
    BY <1>4 DEF G

(* One order more adds its quantity.                                       *)
LEMMA UnitsAdded ==
    ASSUME NEW S, Countable(S), NEW x, x \notin S, x.qty \in Nat
    PROVE  Units(S \cup {x}) = Units(S) + x.qty
<1>1. Countable(S \cup {x})
    BY FS_AddElement DEF Countable
<1>2. (S \cup {x}) \ {x} = S
    OBVIOUS
<1>3. Units(S \cup {x}) = x.qty + Units(S)
    <2>1. \A y \in S \cup {x} : Units(S \cup {x}) = y.qty + Units((S \cup {x}) \ {y})
        BY <1>1, UnitsByAny
    <2>2. Units(S \cup {x}) = x.qty + Units((S \cup {x}) \ {x})
        BY <2>1
    <2> QED
        BY <1>2, <2>2
<1>4. Units(S) \in Nat
    BY UnitsType
<1> QED
    BY <1>2, <1>3, <1>4

-----------------------------------------------------------------------------
(* The inductive form of the property: sums are taken over finite sets.    *)
StockInv == IsFiniteSet(orders) /\ StockConserved

(* The orders of a product can be summed up.                               *)
LEMMA OrdersOfProduct ==
    ASSUME TypeOK, IsFiniteSet(orders), NEW p
    PROVE  Countable({o \in orders : o.product = p})
<1>1. IsFiniteSet({o \in orders : o.product = p})
    BY FS_Subset
<1>2. \A o \in orders : o.qty \in Nat
    BY QuantityAssumption DEF TypeOK, Order
<1> QED
    BY <1>1, <1>2 DEF Countable

(* A commit adds the quantity of its order to what is sold of its product, *)
(* and what is sold of the others stays.                                   *)
LEMMA CommitSells ==
    ASSUME Inv, IsFiniteSet(orders), NEW c \in Clients, CommitEffect(c),
           NEW q, q = req[c].product
    PROVE  /\ IsFiniteSet(orders')
           /\ \A p \in Products \ {q} : UnitsSold(p)' = UnitsSold(p)
           /\ UnitsSold(q)' = UnitsSold(q) + OrderQty(req[c])
           /\ UnitsSold(q) \in Nat /\ OrderQty(req[c]) \in Nat
<1> DEFINE Of(p) == {o \in orders : o.product = p}
           o == PendingOrder(c)
<1>1. TypeOK /\ pc[c] = "written"
    BY DEF Inv, CommitEffect
<1>2. \A p : Countable(Of(p)) /\ Units(Of(p)) \in Nat
    BY <1>1, OrdersOfProduct, UnitsType
<1>3. CASE req[c].op # "order"
    <2>1. orders' = orders /\ OrderQty(req[c]) = 0
        BY <1>3 DEF CommitEffect, OrderQty
    <2>2. \A p : UnitsSold(p)' = UnitsSold(p)
        BY <2>1 DEF UnitsSold
    <2>3. UnitsSold(q) \in Nat
        BY <1>2 DEF UnitsSold
    <2> QED
        BY <2>1, <2>2, <2>3
<1>4. CASE req[c].op = "order"
    <2>1. orders' = orders \cup {o}
        BY <1>4 DEF CommitEffect
    <2>2. o.product = q /\ o.qty = req[c].qty /\ o.id = req[c].id
        BY DEF PendingOrder
    <2>3. o \notin orders
        BY <1>1, <2>2 DEF Inv, IdInv
    <2>4. OrderQty(req[c]) = o.qty /\ o.qty \in Nat
        BY <1>1, <1>4, <2>2, SessionTypes, QuantityAssumption DEF Inv, OrderQty
    <2>5. \A p : {x \in orders' : x.product = p} = IF p = q THEN Of(p) \cup {o} ELSE Of(p)
        <3> HIDE DEF o
        <3> QED
            BY <2>1, <2>2
    <2>6. Units(Of(q) \cup {o}) = Units(Of(q)) + o.qty
        <3>1. Countable(Of(q)) /\ o \notin Of(q)
            BY <1>2, <2>3
        <3> HIDE DEF o, Of
        <3> QED
            BY <3>1, <2>4, UnitsAdded
    <2>7. \A p \in Products \ {q} : UnitsSold(p)' = UnitsSold(p)
        BY <2>5 DEF UnitsSold
    <2>8. UnitsSold(q)' = UnitsSold(q) + o.qty /\ UnitsSold(q) \in Nat
        <3>1. UnitsSold(q) = Units(Of(q)) /\ UnitsSold(q)' = Units({x \in orders' : x.product = q})
            BY DEF UnitsSold
        <3>2. {x \in orders' : x.product = q} = Of(q) \cup {o} /\ Units(Of(q)) \in Nat
            BY <1>2, <2>5
        <3> HIDE DEF o, Of
        <3> QED
            BY <2>6, <3>1, <3>2
    <2>9. IsFiniteSet(orders')
        BY <2>1, FS_AddElement
    <2> QED
        BY <2>4, <2>7, <2>8, <2>9
<1> QED
    BY <1>3, <1>4

(* Nothing is sold of a product that is not live yet.                      *)
LEMMA NothingSold ==
    ASSUME OrderedProductsStay, NEW p \in Products, products[p].state # "live"
    PROVE  UnitsSold(p) = 0
<1>1. {o \in orders : o.product = p} = {}
    BY DEF OrderedProductsStay
<1> QED
    BY <1>1, UnitsByPick DEF UnitsSold

(* Every step conserves stock: a purchase moves its quantity from the row  *)
(* to the orders, an update moves nothing, and a creation starts a product *)
(* of which no event and no order speaks.                                  *)
LEMMA StockStep ==
    ASSUME Inv, EventPerVersion, OrderedProductsStay, StockInv, [Next]_vars
    PROVE  StockInv'
<1>1. CASE UNCHANGED <<products, orders, outbox>>
    BY <1>1 DEF StockInv, StockConserved, UnitsSold
<1>2. ASSUME NEW c \in Clients, CommitEffect(c) PROVE StockInv'
    <2>0. PICK q : q = req[c].product
        OBVIOUS
    <2>1. pc[c] = "written" /\ q \in Products
        BY <1>2, <2>0, CommitRow DEF CommitEffect
    <2>2. /\ IsFiniteSet(orders')
          /\ \A p \in Products \ {q} : UnitsSold(p)' = UnitsSold(p)
          /\ UnitsSold(q)' = UnitsSold(q) + OrderQty(req[c])
          /\ UnitsSold(q) \in Nat /\ OrderQty(req[c]) \in Nat
        BY <1>2, <2>0, CommitSells DEF StockInv
    <2>3. /\ products' \in [Products -> Row]
          /\ products'[q] = work[c].row
          /\ \A p \in Products \ {q} : products'[p] = products[p]
        BY <1>2, <2>0, <2>1, CommitRow DEF CommitEffect, Inv, TypeOK
    <2>4. ASSUME NEW e \in outbox', e.type = "created", products'[e.product].state = "live"
          PROVE  products'[e.product].stock + UnitsSold(e.product)' = e.stock
        <3>1. e \in outbox \/ e = PendingEvent(c)
            BY <1>2, <2>4 DEF CommitEffect
        <3>2. CASE e = PendingEvent(c)
            <4>1. req[c].op = "save" /\ e.product = q /\ e.stock = work[c].row.stock
                BY <2>0, <2>1, <2>4, <3>2, CommitEvent
            <4>2. products[q].state = "fresh" /\ work[c].row \in Row
                BY <2>0, <2>1, <4>1, CommitRow
            <4>3. UnitsSold(q) = 0
                BY <2>1, <4>2, NothingSold
            <4>4. OrderQty(req[c]) = 0
                BY <4>1 DEF OrderQty
            <4>5. work[c].row.stock \in Nat
                BY <4>2 DEF Row
            <4> QED
                BY <2>2, <2>3, <4>1, <4>3, <4>4, <4>5
        <3>3. CASE e \in outbox
            <4>1. e.product \in Products /\ e.version \in Nat
                BY <3>3 DEF Inv, TypeOK, Event
            <4>2. products[e.product].state = "live" =>
                        products[e.product].stock + UnitsSold(e.product) = e.stock
                BY <2>4, <3>3 DEF StockInv, StockConserved
            <4>3. CASE e.product # q
                BY <2>2, <2>3, <2>4, <4>1, <4>2, <4>3
            <4>4. CASE e.product = q
                <5>1. e.version > 0 /\ e.version <= products[q].version
                    BY <3>3, <4>4 DEF EventPerVersion
                <5>2. req[c].op # "save"
                    BY <2>0, <2>1, <4>1, <5>1, CommitRow
                <5>3. req[c].op # "delete"
                    <6>0. Derived(c, products[q])
                        BY <2>0, <2>1, CommitRow
                    <6>1. req[c].op = "delete" => work[c].row.state # "live"
                        BY <6>0 DEF Derived, Removed
                    <6> QED
                        BY <2>3, <2>4, <4>4, <6>1
                <5>4. /\ products[q].state = "live"
                      /\ products[q].stock = work[c].row.stock + OrderQty(req[c])
                      /\ work[c].row.stock \in Nat
                    BY <2>0, <2>1, <5>2, <5>3, CommitRow DEF Row
                <5> QED
                    BY <2>2, <2>3, <4>2, <4>4, <5>4
            <4> QED
                BY <4>3, <4>4
        <3> QED
            BY <3>1, <3>2, <3>3
    <2>5. StockConserved'
        BY <2>4 DEF StockConserved
    <2> QED
        BY <2>2, <2>5 DEF StockInv
<1> QED
    BY <1>1, <1>2, TablesStep

(* Stock is conserved, whatever purchases, updates, deletes, retries and   *)
(* crashes interleave: what is left of a live product and what its orders  *)
(* took add up to what it was created with.                                *)
THEOREM StockIsConserved == Spec => []StockConserved
<1>1. Init => StockInv
    BY FS_EmptySet DEF Init, StockInv, StockConserved
<1>2. Inv /\ EventPerVersion /\ OrderedProductsStay /\ StockInv /\ [Next]_vars => StockInv'
    BY StockStep
<1>3. StockInv => StockConserved
    BY DEF StockInv
<1> QED
    BY <1>1, <1>2, <1>3, Invariance, NoDualWrite, OrderedProductsAreKept, PTL DEF Spec
=============================================================================
