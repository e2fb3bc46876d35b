-------------------------------- MODULE Pages --------------------------------
(***************************************************************************)
(* A client walking a listing page by page (FindAll over products,         *)
(* FindOrders over the caller's orders) while rows come and go.  Each page *)
(* is one query; the cursor travels through the client.  The two listings  *)
(* differ in direction, in whose rows they show and in whether rows can be *)
(* deleted.                                                                *)
(***************************************************************************)
EXTENDS Integers, Sequences, SequencesExt

CONSTANTS
    Ids,                \* UUIDs as the numbers that order them
    Users,              \* user_id of orders; products have no owner
    Limits,             \* limits a client can ask for
    DefaultPageSize,
    MaxPageSize

ASSUME IdAssumption == Ids \subseteq Nat
ASSUME SizeAssumption ==
    /\ Limits \subseteq Int
    /\ MaxPageSize \in Nat \ {0} /\ DefaultPageSize \in 1 .. MaxPageSize

VARIABLES
    listing,    \* the table walked over: products or orders
    rows,       \* the committed rows
    used,       \* ids ever inserted: none comes back
    walker,     \* the user whose walk this is
    cursor,     \* the keyset position the client holds
    more,       \* the walk has a next page to ask for
    page,       \* the page returned last
    listed,     \* history: all rows returned so far, in order
    stable      \* history: the walker's rows that were there all along

vars == <<listing, rows, used, walker, cursor, more, page, listed, stable>>

-----------------------------------------------------------------------------
Row == [id : Ids, owner : Users]

(* domain.Cursor: valid is false on the first page. *)
Cursor == [valid : BOOLEAN, id : Nat]

NoCursor == [valid |-> FALSE, id |-> 0]

TypeOK ==
    /\ listing \in {"products", "orders"}
    /\ rows \subseteq Row
    /\ used \subseteq Ids
    /\ walker \in Users
    /\ cursor \in Cursor
    /\ more \in BOOLEAN
    /\ page \in Seq(Row) /\ Len(page) <= MaxPageSize
    /\ listed \in Seq(Row)
    /\ stable \subseteq Row

Init ==
    /\ listing \in {"products", "orders"}
    /\ rows = {} /\ used = {} /\ stable = {}
    /\ walker \in Users
    /\ cursor = NoCursor
    /\ more = FALSE
    /\ page = <<>> /\ listed = <<>>

-----------------------------------------------------------------------------
(* Writers of any instance.  Ids are UUIDv7 of clocks that may differ and  *)
(* become visible in commit order, so a row appears anywhere in the order. *)
Insert(i, u) ==
    /\ i \notin used
    /\ used' = used \cup {i}
    /\ rows' = rows \cup {[id |-> i, owner |-> u]}
    /\ UNCHANGED <<listing, walker, cursor, more, page, listed, stable>>

(* Orders are never deleted. *)
Delete(r) ==
    /\ listing = "products"
    /\ r \in rows
    /\ rows' = rows \ {r}
    /\ stable' = stable \ {r}
    /\ UNCHANGED <<listing, used, walker, cursor, more, page, listed>>

-----------------------------------------------------------------------------
(* WHERE user_id = $1; the product queries have no such clause. *)
Visible(u) == {r \in rows : listing = "orders" => r.owner = u}

(* ORDER BY id DESC. *)
Descending == listing = "orders"

Before(r, s) == IF Descending THEN r.id > s.id ELSE r.id < s.id

(* Mutant: the page starts at the cursor's row. *)
FromCursor(r) ==
    cursor.valid => IF Descending THEN r.id <= cursor.id ELSE r.id >= cursor.id

(* WHERE id > $1, or id < $2 for orders; no clause without a cursor. *)
AfterCursor(r) ==
    cursor.valid => IF Descending THEN r.id < cursor.id ELSE r.id > cursor.id

(* ORDER BY id LIMIT n: the rows of S in their order, all of them or, when *)
(* there are more, the first n.                                            *)
OrderedLimit(S, n) ==
    {q \in SeqOf(S, Cardinality(S)) :
        /\ Len(q) <= n
        /\ \A i, j \in DOMAIN q : i < j => Before(q[i], q[j])
        /\ \A r \in S \ Range(q) : Len(q) = n /\ \A i \in DOMAIN q : Before(q[i], r)}

Matching(u) == {r \in Visible(u) : AfterCursor(r)}

(* Mutant: the query fetches the page and not the row after it. *)
FetchedExactly(u, limit) == OrderedLimit(Matching(u), limit)

(* The answers to the query.  Its LIMIT is pageLimit, one more than the    *)
(* page holds.                                                             *)
Fetched(u, limit) == OrderedLimit(Matching(u), limit + 1)

(* Mutant: a limit the client chose freely. *)
NormalizeNonPositive(n) == IF n <= 0 THEN DefaultPageSize ELSE n

NormalizePageSize(n) ==
    IF n <= 0 THEN DefaultPageSize ELSE IF n < MaxPageSize THEN n ELSE MaxPageSize

(* productPage, orderPage: the row beyond the limit only says HasMore. *)
Items(fetched, limit) ==
    IF Len(fetched) <= limit THEN fetched ELSE SubSeq(fetched, 1, limit)

HasMore(fetched, limit) == Len(fetched) > limit

(* NextCursor and ParseCursor: the last item of a page with a next one. *)
NextCursor(items) == [valid |-> TRUE, id |-> items[Len(items)].id]

Start(u) ==
    /\ ~more
    /\ walker' = u
    /\ cursor' = NoCursor
    /\ more' = TRUE
    /\ page' = <<>> /\ listed' = <<>>
    /\ stable' = Visible(u)
    /\ UNCHANGED <<listing, rows, used>>

(* Mutant: the next link repeats the cursor of the request, and a client   *)
(* that knows the page it gets drops it.                                   *)
NextPageSameCursor ==
    /\ more
    /\ \E n \in Limits :
        LET limit == NormalizePageSize(n) IN
        \E fetched \in Fetched(walker, limit) :
            LET items == Items(fetched, limit)
            IN  /\ page' = items
                /\ listed' = IF cursor.valid THEN listed ELSE items
                /\ more' = HasMore(fetched, limit)
                /\ cursor' = IF HasMore(fetched, limit) /\ ~cursor.valid
                             THEN NextCursor(items) ELSE cursor
    /\ UNCHANGED <<listing, rows, used, walker, stable>>

(* One request for the next page, with any limit. *)
NextPage ==
    /\ more
    /\ \E n \in Limits :
        LET limit == NormalizePageSize(n) IN
        \E fetched \in Fetched(walker, limit) :
            LET items == Items(fetched, limit)
            IN  /\ page' = items
                /\ listed' = listed \o items
                /\ more' = HasMore(fetched, limit)
                /\ cursor' = IF HasMore(fetched, limit) THEN NextCursor(items) ELSE cursor
    /\ UNCHANGED <<listing, rows, used, walker, stable>>

Next ==
    \/ \E i \in Ids, u \in Users : Insert(i, u)
    \/ \E r \in rows : Delete(r)
    \/ \E u \in Users : Start(u)
    \/ NextPage

Spec == Init /\ [][Next]_vars

-----------------------------------------------------------------------------
(* A finished walk has shown every row that was there from its start to    *)
(* its end, whatever was inserted or deleted in between, the row a cursor  *)
(* points to included (the keyset queries, HasMore).                       *)
WalkComplete == ~more => \A r \in stable : \E i \in DOMAIN listed : listed[i] = r

(* No row is shown twice and the pages continue each other's order. *)
ListedInOrder ==
    \A i, j \in DOMAIN listed : i < j => Before(listed[i], listed[j])

(* The rows the walk has still to list. *)
ToCome == Matching(walker)

(* A walk comes nearer to its end with every page, whatever limit it asks  *)
(* for: a page with a next one takes the rows it shows, at least one, from *)
(* those to come, and only an insert adds to them (NextCursor, keyset).  A *)
(* walk takes at most as many pages as rows were or came ahead of it; one  *)
(* that meets ascending inserts as fast as it asks need not end.           *)
WalkAdvances ==
    [][more /\ more' =>
        /\ ToCome' \ ToCome \subseteq rows' \ rows
        /\ rows' = rows => page' # <<>> /\ ToCome' = ToCome \ Range(page')]_vars
=============================================================================
