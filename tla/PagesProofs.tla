----------------------------- MODULE PagesProofs -----------------------------
(***************************************************************************)
(* Machine-checked proofs about Pages, for any ids, users, limits and page *)
(* sizes: where the cursor of a walk stands between the rows listed and    *)
(* the rows to come.                                                       *)
(***************************************************************************)
EXTENDS Pages, FiniteSetTheorems, SequenceTheorems, TLAPS

(* The walk has listed r, or its cursor has not come to it yet. *)
Shown(r) == \E i \in DOMAIN listed : listed[i] = r
Ahead(r) == AfterCursor(r)

(* A walk in progress: every row listed is behind the cursor, and every    *)
(* row that was there all along is listed or ahead of it.                  *)
WalkInv ==
    more =>
        /\ ~cursor.valid => listed = <<>>
        /\ \A i \in DOMAIN listed : ~Ahead(listed[i])
        /\ \A r \in stable : Shown(r) \/ Ahead(r)

RowInv ==
    /\ IsFiniteSet(rows) /\ \A r \in rows : r.id \in used
    /\ stable \subseteq Visible(walker)

PagesInv == TypeOK /\ RowInv /\ WalkInv /\ WalkComplete /\ ListedInOrder

-----------------------------------------------------------------------------
(* The sizes a page can have.                                              *)
LEMMA PageSizes ==
    ASSUME NEW n \in Limits
    PROVE  NormalizePageSize(n) \in 1 .. MaxPageSize
BY SizeAssumption DEF NormalizePageSize

(* What a query returns.                                                   *)
LEMMA FetchedRows ==
    ASSUME TypeOK, RowInv, NEW limit \in Nat \ {0}, NEW q \in Fetched(walker, limit)
    PROVE  /\ q \in Seq(Row) /\ Len(q) \in 0 .. limit + 1
           /\ DOMAIN q = 1 .. Len(q)
           /\ \A i \in DOMAIN q : q[i] \in Matching(walker)
           /\ \A i, j \in DOMAIN q : i < j => Before(q[i], q[j])
           /\ \A r \in Matching(walker) :
                \/ \E i \in DOMAIN q : q[i] = r
                \/ Len(q) = limit + 1 /\ \A i \in DOMAIN q : Before(q[i], r)
<1> DEFINE S == Matching(walker)
<1>1. S \subseteq rows /\ S \subseteq Row
    BY DEF Matching, Visible, TypeOK
<1>2. Cardinality(S) \in Nat
    BY <1>1, FS_Subset, FS_CardinalityType DEF RowInv
<1>3. q \in OrderedLimit(S, limit + 1)
    BY DEF Fetched
<1> HIDE DEF S
<1>4. PICK m \in 0 .. Cardinality(S) : q \in [1 .. m -> S]
    BY <1>3 DEF OrderedLimit, SeqOf
<1>5. m \in Nat /\ q \in Seq(S) /\ q \in Seq(Row) /\ Len(q) = m /\ DOMAIN q = 1 .. m
    BY <1>1, <1>2, <1>4
<1>6. Len(q) <= limit + 1 /\ \A i, j \in DOMAIN q : i < j => Before(q[i], q[j])
    BY <1>3 DEF OrderedLimit
<1>7. \A r \in S : \/ \E i \in DOMAIN q : q[i] = r
                   \/ Len(q) = limit + 1 /\ \A i \in DOMAIN q : Before(q[i], r)
    BY <1>3 DEF OrderedLimit, Range
<1> QED
    BY <1>4, <1>5, <1>6, <1>7 DEF S

(* How many of them a page holds. *)
Size(q, limit) == IF HasMore(q, limit) THEN limit ELSE Len(q)

(* What a page holds of them.                                              *)
LEMMA PageItems ==
    ASSUME TypeOK, RowInv, NEW limit \in Nat \ {0}, NEW q \in Fetched(walker, limit)
    PROVE  /\ Items(q, limit) \in Seq(Row)
           /\ Len(Items(q, limit)) = Size(q, limit) /\ Size(q, limit) \in 0 .. limit
           /\ DOMAIN Items(q, limit) = 1 .. Size(q, limit)
           /\ \A i \in 1 .. Size(q, limit) : Items(q, limit)[i] = q[i]
<1>1. /\ q \in Seq(Row) /\ Len(q) \in 0 .. limit + 1 /\ DOMAIN q = 1 .. Len(q)
      /\ \A i \in DOMAIN q : q[i] \in Row
    BY FetchedRows DEF Matching, Visible, TypeOK
<1>2. CASE Len(q) <= limit
    <2>1. limit \in Nat /\ Len(q) \in Nat /\ Len(q) <= limit
        BY <1>1, <1>2
    <2>2. Items(q, limit) = q
        BY <1>2 DEF Items
    <2>3. Size(q, limit) = Len(q)
        BY <2>1 DEF HasMore, Size
    <2> QED
        BY <1>1, <2>1, <2>2, <2>3
<1>3. CASE ~(Len(q) <= limit)
    <2>1. limit \in Nat /\ Len(q) \in Nat /\ limit < Len(q) /\ 0 < limit
        BY <1>1, <1>3
    <2>2. Items(q, limit) = SubSeq(q, 1, limit)
        BY <1>3 DEF Items
    <2>3. Size(q, limit) = limit
        BY <2>1 DEF HasMore, Size
    <2>4. \A i \in 1 .. limit : q[i] \in Row
        BY <1>1, <2>1
    <2>5. /\ SubSeq(q, 1, limit) \in Seq(Row) /\ Len(SubSeq(q, 1, limit)) = limit
          /\ \A i \in 1 .. limit : SubSeq(q, 1, limit)[i] = q[i]
        BY <2>1, <2>4, SubSeqProperties
    <2>6. DOMAIN SubSeq(q, 1, limit) = 1 .. limit
        BY <2>5
    <2> QED
        BY <2>1, <2>2, <2>3, <2>5, <2>6
<1> QED
    BY <1>2, <1>3

-----------------------------------------------------------------------------
(* The order of the ids, and the cursor in it.                             *)
LEMMA RowOrder ==
    ASSUME TypeOK
    PROVE  /\ \A r \in Row : r.id \in Nat
           /\ \A r, s, t \in Row : Before(r, s) /\ Before(s, t) => Before(r, t)
           /\ \A r, s \in Row : cursor.valid /\ ~Ahead(r) /\ Ahead(s) => Before(r, s)
<1>1. \A r \in Row : r.id \in Nat
    BY IdAssumption DEF Row
<1>2. cursor.id \in Nat /\ cursor.valid \in BOOLEAN
    BY DEF TypeOK, Cursor
<1> QED
    BY <1>1, <1>2 DEF Before, Ahead, AfterCursor

(* The request for a page, taken apart.                                    *)
LEMMA PageStep ==
    ASSUME TypeOK, RowInv, NextPage
    PROVE  \E limit \in 1 .. MaxPageSize : \E q \in Fetched(walker, limit) :
            /\ more /\ limit \in Nat \ {0}
            /\ page' = Items(q, limit) /\ listed' = listed \o Items(q, limit)
            /\ more' = HasMore(q, limit)
            /\ cursor' = IF HasMore(q, limit) THEN NextCursor(Items(q, limit)) ELSE cursor
            /\ UNCHANGED <<listing, rows, used, walker, stable>>
<1>1. PICK n \in Limits : \E q \in Fetched(walker, NormalizePageSize(n)) :
        LET limit == NormalizePageSize(n) IN
            /\ page' = Items(q, limit) /\ listed' = listed \o Items(q, limit)
            /\ more' = HasMore(q, limit)
            /\ cursor' = IF HasMore(q, limit) THEN NextCursor(Items(q, limit)) ELSE cursor
    BY DEF NextPage
<1>2. NormalizePageSize(n) \in 1 .. MaxPageSize /\ NormalizePageSize(n) \in Nat \ {0}
    BY PageSizes, SizeAssumption
<1> QED
    BY <1>1, <1>2 DEF NextPage

(* The next page continues the walk.                                       *)
LEMMA NextPageInv == PagesInv /\ NextPage => PagesInv'
<1> SUFFICES ASSUME PagesInv, NextPage PROVE PagesInv'
    OBVIOUS
<1>1. TypeOK /\ RowInv /\ WalkInv /\ ListedInOrder
    BY DEF PagesInv
<1>2. PICK limit \in 1 .. MaxPageSize : \E q \in Fetched(walker, limit) :
            /\ more /\ limit \in Nat \ {0}
            /\ page' = Items(q, limit) /\ listed' = listed \o Items(q, limit)
            /\ more' = HasMore(q, limit)
            /\ cursor' = IF HasMore(q, limit) THEN NextCursor(Items(q, limit)) ELSE cursor
            /\ UNCHANGED <<listing, rows, used, walker, stable>>
    BY <1>1, PageStep
<1>3. PICK q \in Fetched(walker, limit) :
            /\ more /\ limit \in Nat \ {0}
            /\ page' = Items(q, limit) /\ listed' = listed \o Items(q, limit)
            /\ more' = HasMore(q, limit)
            /\ cursor' = IF HasMore(q, limit) THEN NextCursor(Items(q, limit)) ELSE cursor
            /\ UNCHANGED <<listing, rows, used, walker, stable>>
    BY <1>2
<1> DEFINE items == Items(q, limit)
           size == Size(q, limit)
           old == Len(listed)
<1>4. /\ items \in Seq(Row) /\ Len(items) = size /\ size \in 0 .. limit
      /\ DOMAIN items = 1 .. size /\ \A i \in 1 .. size : items[i] = q[i]
    BY <1>1, <1>3, PageItems
<1>5. /\ q \in Seq(Row) /\ Len(q) \in 0 .. limit + 1 /\ DOMAIN q = 1 .. Len(q)
    BY <1>1, <1>3, FetchedRows
<1>order. \A i, j \in DOMAIN q : i < j => Before(q[i], q[j])
    BY <1>1, <1>3, FetchedRows
<1>found. /\ \A i \in DOMAIN q : q[i] \in Matching(walker)
          /\ \A r \in Matching(walker) :
                \/ \E i \in DOMAIN q : q[i] = r
                \/ Len(q) = limit + 1 /\ \A i \in DOMAIN q : Before(q[i], r)
    BY <1>1, <1>3, FetchedRows
<1>num. limit \in Nat /\ 0 < limit /\ Len(q) \in Nat /\ Len(q) <= limit + 1
    <2>1. limit \in Nat /\ 0 < limit
        BY <1>3
    <2> QED
        BY <1>5, <2>1
<1>6. \/ more' /\ Len(q) = limit + 1 /\ size = limit
      \/ ~more' /\ Len(q) <= limit /\ size = Len(q)
    <2>1. CASE Len(q) > limit
        <3>1. more' /\ size = limit
            BY <1>3, <2>1 DEF HasMore, Size
        <3>2. Len(q) = limit + 1
            BY <1>num, <2>1
        <3> QED
            BY <3>1, <3>2
    <2>2. CASE ~(Len(q) > limit)
        <3>1. ~more' /\ size = Len(q)
            BY <1>3, <2>2 DEF HasMore, Size
        <3>2. Len(q) <= limit
            BY <1>num, <2>2
        <3> QED
            BY <3>1, <3>2
    <2> QED
        BY <2>1, <2>2
<1>7. /\ listed \in Seq(Row) /\ DOMAIN listed = 1 .. old
      /\ page' = items /\ listed' = listed \o items /\ more
      /\ UNCHANGED <<listing, rows, used, walker, stable>>
    BY <1>1, <1>3 DEF TypeOK
<1> HIDE DEF items, size, old
<1>8. size \in Nat /\ size <= Len(q) /\ size <= limit /\ Len(q) \in Nat /\ old \in Nat
    <2>1. old \in Nat
        BY <1>1 DEF TypeOK, old
    <2> QED
        BY <1>num, <1>6, <2>1
<1>9. /\ listed' \in Seq(Row) /\ DOMAIN listed' = 1 .. old + size
      /\ \A i \in 1 .. old : listed'[i] = listed[i]
      /\ \A i \in 1 .. size : listed'[old + i] = q[i]
    <2>1. /\ listed \o items \in Seq(Row) /\ Len(listed \o items) = old + size
          /\ \A i \in 1 .. old + size :
                (listed \o items)[i] = IF i <= old THEN listed[i] ELSE items[i - old]
        BY <1>4, <1>7, ConcatProperties DEF old
    <2>2. listed' \in Seq(Row) /\ DOMAIN listed' = 1 .. old + size
        BY <1>7, <2>1
    <2>3. \A i \in 1 .. old : i \in 1 .. old + size /\ i <= old
        BY <1>7, <1>8
    <2>4. \A i \in 1 .. size : old + i \in 1 .. old + size /\ ~(old + i <= old) /\ (old + i) - old = i
        BY <1>7, <1>8
    <2>5. \A i \in 1 .. old : listed'[i] = listed[i]
        BY <1>7, <2>1, <2>3
    <2>6. \A i \in 1 .. size : listed'[old + i] = q[i]
        BY <1>4, <1>7, <2>1, <2>4
    <2> QED
        BY <2>2, <2>5, <2>6
<1>10. \A i \in 1 .. old + size : i \in 1 .. old \/ (i - old \in 1 .. size /\ i = old + (i - old))
    BY <1>7, <1>8
<1>11. /\ \A r \in Matching(walker) : r \in Row /\ Ahead(r)
       /\ \A i \in 1 .. old : listed[i] \in Row /\ ~Ahead(listed[i]) /\ cursor.valid
       /\ 1 .. size \subseteq DOMAIN q
    <2>1. \A r \in Matching(walker) : r \in Row /\ Ahead(r)
        BY <1>1 DEF Matching, Visible, TypeOK, Ahead
    <2>2. \A i \in 1 .. old : listed[i] \in Row /\ ~Ahead(listed[i])
        <3>1. \A i \in 1 .. old : listed[i] \in Row
            BY <1>7, ElementOfSeq DEF old
        <3> QED
            BY <1>1, <1>7, <3>1 DEF WalkInv
    <2>3. ASSUME NEW i \in 1 .. old PROVE cursor.valid
        <3>1. old # 0
            BY <1>8, <2>3
        <3>2. listed # <<>>
            BY <3>1 DEF old
        <3> QED
            BY <1>1, <1>7, <3>2 DEF WalkInv
    <2>4. 1 .. size \subseteq DOMAIN q
        BY <1>5, <1>8
    <2> QED
        BY <2>1, <2>2, <2>3, <2>4
<1>12. \A r, s : Before(r, s)' <=> Before(r, s)
    BY <1>7 DEF Before, Descending
<1>13. ListedInOrder'
    <2> SUFFICES ASSUME NEW i \in 1 .. old + size, NEW j \in 1 .. old + size, i < j
                 PROVE  Before(listed'[i], listed'[j])
        BY <1>9, <1>12 DEF ListedInOrder
    <2>1. CASE i \in 1 .. old /\ j \in 1 .. old
        BY <1>1, <1>7, <1>9, <2>1 DEF ListedInOrder
    <2>2. CASE i \in 1 .. old /\ j - old \in 1 .. size
        <3>1. listed'[i] = listed[i] /\ listed'[j] = q[j - old] /\ q[j - old] \in Matching(walker)
            <4>1. j = old + (j - old) /\ j - old \in DOMAIN q
                BY <1>8, <1>11, <2>2
            <4> QED
                BY <1>9, <1>found, <2>2, <4>1
        <3> QED
            BY <1>1, <1>11, <2>2, <3>1, RowOrder
    <2>3. CASE i - old \in 1 .. size /\ j - old \in 1 .. size
        <3>1. listed'[i] = q[i - old] /\ listed'[j] = q[j - old] /\ i - old < j - old
            <4>1. i = old + (i - old) /\ j = old + (j - old) /\ i - old < j - old
                BY <1>8, <2>3
            <4> QED
                BY <1>9, <2>3, <4>1
        <3>2. i - old \in DOMAIN q /\ j - old \in DOMAIN q
            BY <1>11, <2>3
        <3> QED
            BY <1>order, <3>1, <3>2
    <2>4. i \in 1 .. old \/ j \notin 1 .. old
        BY <1>8
    <2> QED
        BY <1>10, <2>1, <2>2, <2>3, <2>4
<1>14. ASSUME more'
       PROVE  /\ cursor' = [valid |-> TRUE, id |-> q[size].id]
              /\ size \in 1 .. size /\ size \in DOMAIN q /\ q[size] \in Matching(walker)
              /\ \A r \in Row : Ahead(r)' <=> Before(q[size], r)
    <2>1. size = limit /\ size \in 1 .. size /\ size \in DOMAIN q
        BY <1>num, <1>6, <1>8, <1>11, <1>14
    <2>2. cursor' = NextCursor(items)
        BY <1>3, <1>14 DEF items
    <2>3. cursor' = [valid |-> TRUE, id |-> q[size].id]
        BY <1>4, <2>1, <2>2 DEF NextCursor
    <2>4. q[size] \in Matching(walker)
        BY <1>found, <2>1
    <2>5. \A r \in Row : r.id \in Nat
        BY <1>1, RowOrder
    <2>6. q[size].id \in Nat
        BY <1>11, <2>4, <2>5
    <2>7. \A r \in Row : Ahead(r)' <=> Before(q[size], r)
        BY <1>7, <2>3, <2>5, <2>6 DEF Ahead, AfterCursor, Before, Descending
    <2> QED
        BY <2>1, <2>3, <2>4, <2>7
<1>15. \A r, s \in Row : ~(Before(r, s) /\ Before(s, r)) /\ ~Before(r, r)
    BY <1>1, RowOrder DEF Before
<1>16. ASSUME NEW r \in stable
       PROVE  (\E i \in DOMAIN listed' : listed'[i] = r) \/ (more' /\ Ahead(r)')
    <2>1. r \in Visible(walker) /\ r \in Row
        BY <1>1 DEF RowInv, TypeOK
    <2>2. CASE Shown(r)
        <3>1. PICK i \in 1 .. old : listed[i] = r
            BY <1>7, <2>2 DEF Shown
        <3>2. i \in 1 .. old + size /\ listed'[i] = r
            BY <1>7, <1>8, <1>9, <3>1
        <3> QED
            BY <1>9, <3>2
    <2>3. CASE Ahead(r)
        <3>1. r \in Matching(walker)
            BY <2>1, <2>3 DEF Matching, Ahead
        <3>2. CASE \E i \in 1 .. size : q[i] = r
            <4>1. PICK i \in 1 .. size : q[i] = r
                BY <3>2
            <4>2. old + i \in 1 .. old + size /\ listed'[old + i] = r
                <5>1. old + i \in 1 .. old + size
                    BY <1>8
                <5> QED
                    BY <1>9, <4>1, <5>1
            <4> QED
                BY <1>9, <4>2
        <3>3. CASE ~\E i \in 1 .. size : q[i] = r
            <4>1. more'
                <5>1. ~more' => size = Len(q) /\ Len(q) # limit + 1
                    BY <1>num, <1>6
                <5> QED
                    BY <1>5, <1>found, <3>1, <3>3, <5>1
            <4>2. Before(q[size], r)
                <5>1. CASE \E i \in DOMAIN q : q[i] = r
                    <6>1. PICK i \in DOMAIN q : q[i] = r
                        BY <5>1
                    <6>2. i \notin 1 .. size
                        BY <3>3, <6>1
                    <6>3. i \in 1 .. Len(q)
                        BY <1>5, <6>1
                    <6>4. size < i
                        BY <1>8, <6>2, <6>3
                    <6> QED
                        BY <1>order, <1>14, <4>1, <6>1, <6>4
                <5>2. CASE \A i \in DOMAIN q : Before(q[i], r)
                    BY <1>14, <4>1, <5>2
                <5> QED
                    BY <1>found, <3>1, <5>1, <5>2
            <4> QED
                BY <1>14, <2>1, <4>1, <4>2
        <3> QED
            BY <3>2, <3>3
    <2> QED
        BY <1>1, <1>7, <2>2, <2>3 DEF WalkInv
<1>17. WalkComplete'
    BY <1>7, <1>16 DEF WalkComplete
<1>18. WalkInv'
    <2> SUFFICES ASSUME more' PROVE WalkInv'
        BY DEF WalkInv
    <2>1. cursor'.valid
        BY <1>14
    <2>2. ASSUME NEW i \in 1 .. old + size PROVE ~Ahead(listed[i])'
        <3>1. listed'[i] \in Row
            <4>1. CASE i \in 1 .. old
                BY <1>9, <1>11, <4>1
            <4>2. CASE i - old \in 1 .. size /\ i = old + (i - old)
                <5>1. listed'[i] = q[i - old] /\ i - old \in DOMAIN q
                    BY <1>9, <1>11, <4>2
                <5> QED
                    BY <1>found, <1>11, <5>1
            <4> QED
                BY <1>10, <4>1, <4>2
        <3>2. listed'[i] = q[size] \/ Before(listed'[i], q[size])
            <4>1. CASE i = old + size
                BY <1>7, <1>9, <1>14, <4>1
            <4>2. CASE i # old + size
                <5>1. old + size \in 1 .. old + size /\ i < old + size
                    BY <1>7, <1>8, <1>14, <4>2
                <5>2. Before(listed'[i], listed'[old + size])
                    BY <1>9, <1>12, <1>13, <5>1 DEF ListedInOrder
                <5> QED
                    BY <1>9, <1>14, <5>2
            <4> QED
                BY <4>1, <4>2
        <3>3. ~Before(q[size], listed'[i])
            BY <1>11, <1>14, <1>15, <3>1, <3>2
        <3> QED
            BY <1>14, <3>1, <3>3
    <2>3. \A r \in stable' : Shown(r)' \/ Ahead(r)'
        BY <1>7, <1>16 DEF Shown
    <2> QED
        BY <1>9, <2>1, <2>2, <2>3 DEF WalkInv
<1>19. TypeOK'
    <2>1. cursor' \in Cursor
        <3>1. CASE more'
            <4>1. q[size].id \in Nat /\ cursor' = [valid |-> TRUE, id |-> q[size].id]
                BY <1>1, <1>11, <1>14, <3>1, RowOrder
            <4> QED
                BY <4>1 DEF Cursor
        <3>2. CASE ~more'
            BY <1>1, <1>3, <3>2 DEF TypeOK
        <3> QED
            BY <3>1, <3>2
    <2>2. more' \in BOOLEAN
        BY <1>3 DEF HasMore
    <2>3. page' \in Seq(Row) /\ Len(page') <= MaxPageSize
        BY <1>4, <1>7, SizeAssumption
    <2> QED
        BY <1>1, <1>7, <1>9, <2>1, <2>2, <2>3 DEF TypeOK
<1>20. RowInv'
    BY <1>1, <1>7 DEF RowInv, Visible
<1> QED
    BY <1>13, <1>17, <1>18, <1>19, <1>20 DEF PagesInv

(* The other steps leave the walk where it is.                             *)
LEMMA OtherSteps ==
    ASSUME PagesInv,
           \/ \E i \in Ids, u \in Users : Insert(i, u)
           \/ \E r \in rows : Delete(r)
           \/ \E u \in Users : Start(u)
           \/ UNCHANGED vars
    PROVE  PagesInv'
<1>0. TypeOK /\ RowInv /\ WalkInv /\ WalkComplete /\ ListedInOrder
    BY DEF PagesInv
<1>1. ASSUME UNCHANGED <<listing, walker, cursor, more, listed>>, stable' \subseteq stable
      PROVE  WalkInv' /\ WalkComplete' /\ ListedInOrder'
    <2>1. WalkInv'
        BY <1>0, <1>1 DEF WalkInv, Ahead, Shown, AfterCursor, Descending
    <2>2. WalkComplete'
        BY <1>0, <1>1 DEF WalkComplete
    <2>3. ListedInOrder'
        BY <1>0, <1>1 DEF ListedInOrder, Before, Descending
    <2> QED
        BY <2>1, <2>2, <2>3
<1>2. ASSUME NEW i \in Ids, NEW u \in Users, Insert(i, u) PROVE PagesInv'
    <2>1. TypeOK'
        BY <1>0, <1>2 DEF Insert, TypeOK, Row
    <2>2. RowInv'
        <3>1. IsFiniteSet(rows')
            BY <1>0, <1>2, FS_AddElement DEF Insert, RowInv
        <3> QED
            BY <1>0, <1>2, <3>1 DEF Insert, RowInv, Visible
    <2> QED
        BY <1>1, <1>2, <2>1, <2>2 DEF Insert, PagesInv
<1>3. ASSUME NEW r \in rows, Delete(r) PROVE PagesInv'
    <2>1. TypeOK'
        BY <1>0, <1>3 DEF Delete, TypeOK
    <2>2. RowInv'
        <3>1. IsFiniteSet(rows')
            BY <1>0, <1>3, FS_RemoveElement DEF Delete, RowInv
        <3> QED
            BY <1>0, <1>3, <3>1 DEF Delete, RowInv, Visible
    <2> QED
        BY <1>1, <1>3, <2>1, <2>2 DEF Delete, PagesInv
<1>4. ASSUME NEW u \in Users, Start(u) PROVE PagesInv'
    <2>1. /\ cursor' = NoCursor /\ more' = TRUE /\ listed' = <<>> /\ page' = <<>>
          /\ walker' = u /\ stable' = Visible(u) /\ UNCHANGED <<listing, rows, used>>
        BY <1>4 DEF Start
    <2>2. TypeOK'
        BY <1>0, <2>1, SizeAssumption DEF TypeOK, NoCursor, Cursor, Visible
    <2>3. RowInv'
        BY <1>0, <2>1 DEF RowInv, Visible
    <2>4. WalkInv'
        BY <2>1 DEF WalkInv, Ahead, AfterCursor, NoCursor
    <2>5. WalkComplete' /\ ListedInOrder'
        BY <2>1 DEF WalkComplete, ListedInOrder
    <2> QED
        BY <2>2, <2>3, <2>4, <2>5 DEF PagesInv
<1>5. CASE UNCHANGED vars
    <2>1. TypeOK' /\ RowInv'
        BY <1>0, <1>5 DEF vars, TypeOK, RowInv, Visible
    <2> QED
        BY <1>1, <1>5, <2>1 DEF vars, PagesInv
<1> QED
    BY <1>2, <1>3, <1>4, <1>5

(* The first state satisfies the invariant.                                *)
LEMMA InitInv == Init => PagesInv
<1> SUFFICES ASSUME Init PROVE PagesInv
    OBVIOUS
<1>1. TypeOK
    <2>1. NoCursor \in Cursor
        BY DEF NoCursor, Cursor
    <2>2. <<>> \in Seq(Row) /\ Len(<<>>) <= MaxPageSize
        BY SizeAssumption
    <2> QED
        BY <2>1, <2>2 DEF Init, TypeOK
<1>2. RowInv
    BY FS_EmptySet DEF Init, RowInv
<1>3. WalkInv /\ WalkComplete /\ ListedInOrder
    BY DEF Init, WalkInv, WalkComplete, ListedInOrder
<1> QED
    BY <1>1, <1>2, <1>3 DEF PagesInv

(* The walks keep their invariant: what was listed is behind the cursor,   *)
(* and what was there all along is listed or ahead of it.                  *)
THEOREM PagesInvariant == Spec => []PagesInv
<1>1. PagesInv /\ [Next]_vars => PagesInv'
    BY NextPageInv, OtherSteps DEF Next
<1> QED
    BY InitInv, <1>1, PTL DEF Spec

(* TypeOK for any ids, users and limits; no page exceeds MaxPageSize.      *)
THEOREM PagesTypes == Spec => []TypeOK
<1>1. PagesInv => TypeOK
    BY DEF PagesInv
<1> QED
    BY PagesInvariant, <1>1, PTL

(* WalkComplete for any ids, users and limits, changing limits included: a *)
(* finished walk has shown every row that stayed (the keyset queries).     *)
THEOREM WalksAreComplete == Spec => []WalkComplete
<1>1. PagesInv => WalkComplete
    BY DEF PagesInv
<1> QED
    BY PagesInvariant, <1>1, PTL

(* ListedInOrder likewise: no walk shows a row twice or out of order.      *)
THEOREM WalksAreOrdered == Spec => []ListedInOrder
<1>1. PagesInv => ListedInOrder
    BY DEF PagesInv
<1> QED
    BY PagesInvariant, <1>1, PTL

(* A page with a next one takes the rows it shows from those to come.      *)
LEMMA PageTakes ==
    ASSUME TypeOK, RowInv, NextPage, more'
    PROVE  page' # <<>> /\ ToCome' = ToCome \ Range(page')
<1>1. PICK limit \in 1 .. MaxPageSize : \E q \in Fetched(walker, limit) :
            /\ more /\ limit \in Nat \ {0}
            /\ page' = Items(q, limit) /\ listed' = listed \o Items(q, limit)
            /\ more' = HasMore(q, limit)
            /\ cursor' = IF HasMore(q, limit) THEN NextCursor(Items(q, limit)) ELSE cursor
            /\ UNCHANGED <<listing, rows, used, walker, stable>>
    BY PageStep
<1>2. PICK q \in Fetched(walker, limit) :
            /\ limit \in Nat \ {0}
            /\ page' = Items(q, limit) /\ HasMore(q, limit)
            /\ cursor' = NextCursor(Items(q, limit))
            /\ UNCHANGED <<listing, rows, used, walker, stable>>
    BY <1>1
<1>3. limit \in Nat /\ 0 < limit
    BY <1>2
<1>4. Len(q) = limit + 1 /\ DOMAIN q = 1 .. limit + 1 /\ Size(q, limit) = limit
    <2>1. Len(q) \in 0 .. limit + 1 /\ DOMAIN q = 1 .. Len(q)
        BY <1>2, FetchedRows
    <2>2. Len(q) > limit /\ Size(q, limit) = limit
        BY <1>2 DEF HasMore, Size
    <2>3. Len(q) \in Nat /\ Len(q) <= limit + 1
        BY <1>3, <2>1
    <2>4. Len(q) = limit + 1
        BY <1>3, <2>2, <2>3
    <2> QED
        BY <2>1, <2>2, <2>4
<1>5. /\ Len(page') = limit /\ DOMAIN page' = 1 .. limit
      /\ \A i \in 1 .. limit : page'[i] = q[i]
    BY <1>2, <1>4, PageItems
<1>6. cursor' = [valid |-> TRUE, id |-> q[limit].id]
    <2>1. limit \in 1 .. limit
        BY <1>3
    <2>2. cursor' = NextCursor(page')
        BY <1>2
    <2> QED
        BY <1>5, <2>1, <2>2 DEF NextCursor
<1>7. /\ \A i \in DOMAIN q : q[i] \in ToCome
      /\ \A i, j \in DOMAIN q : i < j => Before(q[i], q[j])
      /\ \A r \in ToCome : \/ \E i \in DOMAIN q : q[i] = r
                           \/ \A i \in DOMAIN q : Before(q[i], r)
    BY <1>2, FetchedRows DEF ToCome
<1>8. \A r \in Row : r.id \in Nat
    BY RowOrder
<1>9. ToCome \subseteq Row /\ q[limit] \in Row /\ limit \in DOMAIN q
    <2>1. ToCome \subseteq Row
        BY DEF ToCome, Matching, Visible, TypeOK
    <2> QED
        BY <1>3, <1>4, <1>7, <2>1
<1>10. \A r \in Row : AfterCursor(r)' <=> Before(q[limit], r)
    BY <1>2, <1>6, <1>8, <1>9 DEF AfterCursor, Before, Descending
<1>11. \A r : r \in ToCome' <=> r \in Visible(walker) /\ Before(q[limit], r)
    <2>1. Visible(walker)' = Visible(walker) /\ Visible(walker) \subseteq Row
        BY <1>2 DEF Visible, TypeOK
    <2> QED
        BY <1>10, <2>1 DEF ToCome, Matching
<1>12. \A r \in Visible(walker) : Before(q[limit], r) => r \in ToCome
    <2>1. q[limit] \in Matching(walker) /\ AfterCursor(q[limit])
        BY <1>7, <1>9 DEF ToCome, Matching
    <2>2. cursor.id \in Nat /\ Visible(walker) \subseteq Row
        BY DEF TypeOK, Cursor, Visible
    <2> QED
        BY <1>8, <1>9, <2>1, <2>2 DEF ToCome, Matching, AfterCursor, Before
<1>13. \A r \in ToCome : Before(q[limit], r) <=> ~\E i \in 1 .. limit : q[i] = r
    <2> SUFFICES ASSUME NEW r \in ToCome
                 PROVE  Before(q[limit], r) <=> ~\E i \in 1 .. limit : q[i] = r
        OBVIOUS
    <2>1. r \in Row /\ r.id \in Nat /\ q[limit].id \in Nat
        BY <1>8, <1>9
    <2>2. ASSUME NEW i \in 1 .. limit, q[i] = r PROVE ~Before(q[limit], r)
        <3>1. CASE i = limit
            BY <2>1, <2>2, <3>1 DEF Before
        <3>2. CASE i # limit
            <4>1. i < limit /\ i \in DOMAIN q
                BY <1>3, <1>4, <3>2
            <4>2. Before(r, q[limit])
                BY <1>7, <1>9, <2>2, <4>1
            <4> QED
                BY <2>1, <4>2 DEF Before
        <3> QED
            BY <3>1, <3>2
    <2>3. ASSUME ~\E i \in 1 .. limit : q[i] = r PROVE Before(q[limit], r)
        <3>1. CASE \E i \in DOMAIN q : q[i] = r
            <4>1. PICK i \in DOMAIN q : q[i] = r
                BY <3>1
            <4>2. limit < i
                BY <1>3, <1>4, <2>3, <4>1
            <4> QED
                BY <1>7, <1>9, <4>1, <4>2
        <3> QED
            BY <1>7, <1>9, <3>1
    <2> QED
        BY <2>2, <2>3
<1>14. \A r : r \in Range(page') <=> \E i \in 1 .. limit : q[i] = r
    BY <1>5 DEF Range
<1>15. ToCome' = ToCome \ Range(page')
    <2>1. \A r \in ToCome : r \in Visible(walker)
        BY DEF ToCome, Matching
    <2> QED
        BY <1>11, <1>12, <1>13, <1>14, <2>1
<1> QED
    BY <1>3, <1>5, <1>15

(* A writer changes what is to come by the row it writes only.             *)
LEMMA WriterAdds ==
    ASSUME TypeOK, RowInv,
           \/ \E i \in Ids, u \in Users : Insert(i, u)
           \/ \E r \in rows : Delete(r)
    PROVE  ToCome' \ ToCome \subseteq rows' \ rows /\ rows' # rows
<1>1. UNCHANGED <<listing, walker, cursor>>
    BY DEF Insert, Delete
<1>2. ToCome' \ ToCome \subseteq rows' \ rows
    BY <1>1 DEF ToCome, Matching, Visible, AfterCursor, Descending
<1>3. ASSUME NEW i \in Ids, NEW u \in Users, Insert(i, u) PROVE rows' # rows
    <2>1. [id |-> i, owner |-> u].id \notin used
        BY <1>3 DEF Insert
    <2>2. [id |-> i, owner |-> u] \notin rows
        BY <2>1 DEF RowInv
    <2> QED
        BY <1>3, <2>2 DEF Insert
<1>4. ASSUME NEW r \in rows, Delete(r) PROVE rows' # rows
    BY <1>4 DEF Delete
<1> QED
    BY <1>2, <1>3, <1>4

(* WalkAdvances for any ids, users and limits: every page with a next one  *)
(* takes its rows from those to come, and only inserts add to them.        *)
THEOREM WalksAdvance == Spec => WalkAdvances
<1> DEFINE Advance == more /\ more' =>
        /\ ToCome' \ ToCome \subseteq rows' \ rows
        /\ rows' = rows => page' # <<>> /\ ToCome' = ToCome \ Range(page')
<1>1. PagesInv /\ [Next]_vars => [Advance]_vars
    <2> SUFFICES ASSUME PagesInv, Next, more, more' PROVE Advance
        OBVIOUS
    <2>1. TypeOK /\ RowInv
        BY DEF PagesInv
    <2>2. CASE NextPage
        <3>1. page' # <<>> /\ ToCome' = ToCome \ Range(page')
            BY <2>1, <2>2, PageTakes
        <3> QED
            BY <3>1
    <2>3. CASE (\E i \in Ids, u \in Users : Insert(i, u)) \/ (\E r \in rows : Delete(r))
        BY <2>1, <2>3, WriterAdds
    <2>4. ~\E u \in Users : Start(u)
        BY DEF Start
    <2> QED
        BY <2>2, <2>3, <2>4 DEF Next
<1> QED
    BY PagesInvariant, <1>1, PTL DEF Spec, WalkAdvances
=============================================================================
