------------------------- MODULE ProductCacheProofs -------------------------
(***************************************************************************)
(* Machine-checked proofs about ProductCache: the guarded fill, the token  *)
(* of a tombstone and the timeout of a flight together keep rows from      *)
(* before an invalidation out of the cache.                                *)
(***************************************************************************)
EXTENDS ProductCache, TLAPS

(* A flight is over before an entry written while it ran can expire, and   *)
(* Valkey drops no entry early.  Nothing in the configuration enforces     *)
(* this; the defaults (1s against 5m and 1m) satisfy it.                   *)
EntriesOutliveFlights ==
    LoadTimeout < CacheTTL /\ LoadTimeout < NegTTL /\ "evict" \notin Failures

(* The key holds an entry that is not what the flight of i found, and that *)
(* stays longer than the flight can: its fill will be refused.             *)
Fenced(i) ==
    /\ Exists(cache) /\ ~SameBytes(cache, flight[i].prev)
    /\ cache.left > flight[i].left

(* What a flight carries.  The row it is about to fill is no older than    *)
(* the last invalidation, unless the fill is bound to be refused.          *)
FlightInv(i) ==
    /\ flight[i].at # "none" =>
            /\ flight[i].left <= LoadTimeout /\ flight[i].floor <= fence
            /\ past[LoadTimeout - flight[i].left + 1] <= flight[i].floor
    /\ flight[i].at \in {"load", "fill"} =>
            ~Hit(flight[i].prev) /\ flight[i].prev.token < nextToken
    /\ flight[i].at = "fill" =>
            /\ flight[i].row.version >= flight[i].floor
            /\ flight[i].row.version >= fence \/ Fenced(i)

(* No tombstone is newer than its token says, no invalidation than the     *)
(* row, and a committed version without an invalidation is still a         *)
(* writer's to announce, or was missed.                                    *)
FenceInv ==
    /\ fence <= db.version /\ cache.token < nextToken
    /\ fence = db.version \/ missed \/ ~Settled

(* The fence only grows, and a call that waits for a flight began at most  *)
(* a load timeout after it: the flight's own fence is recent enough.       *)
TimeInv ==
    /\ \A k \in Ticks : past[k] <= fence
    /\ \A j, k \in Ticks : j <= k => past[k] <= past[j]
    /\ \A r \in Readers :
        /\ reader[r] = "missed" => since[r] <= past[LoadTimeout + 1]
        /\ reader[r] = "waiting" =>
                flight[r[1]].at # "none" /\ since[r] <= flight[r[1]].floor

CacheInv ==
    /\ TypeOK /\ FenceInv /\ TimeInv
    /\ \A i \in Instances : FlightInv(i)
    /\ NoOldFill /\ ReadsSeeInvalidated

-----------------------------------------------------------------------------
(* The steps by which a flight ends: the calls that wait for it end with   *)
(* it, with an answer of version v or none, and cache' is what is left in  *)
(* the key.                                                                *)
Lands(i, v) ==
    /\ flight[i].at # "none"
    /\ Land(i)
    /\ unseen' = unseen \/ Answered(v, Floors(i))

(* What a flight that ends may answer, and what it leaves in the cache.    *)
LEMMA LandingSteps ==
    ASSUME TypeOK, NEW i \in Instances,
           \/ FlightHit(i) \/ FlightLoadBlind(i) \/ FlightLoadFails(i)
           \/ FlightFill(i) \/ FlightFillFails(i) \/ FlightTimeout(i)
    PROVE  \/ Hit(cache) /\ Lands(i, cache.version) /\ cache' = cache
           \/ Lands(i, db.version) /\ cache' = cache
           \/ /\ flight[i].at = "fill" /\ Lands(i, flight[i].row.version)
              /\ cache' = IF GuardHolds(flight[i].prev)
                          THEN Payload(flight[i].row) ELSE cache
           \/ /\ flight[i].at = "fill" /\ Lands(i, flight[i].row.version)
              /\ cache' = cache
<1>1. ASSUME FlightHit(i) PROVE Hit(cache) /\ Lands(i, cache.version) /\ cache' = cache
    BY <1>1 DEF FlightHit, Lands
<1>2. ASSUME FlightLoadBlind(i) PROVE Lands(i, db.version) /\ cache' = cache
    BY <1>2 DEF FlightLoadBlind, Lands
<1>3. ASSUME FlightLoadFails(i) PROVE Lands(i, db.version) /\ cache' = cache
    BY <1>3 DEF FlightLoadFails, Lands
<1>4. ASSUME FlightFill(i)
      PROVE  /\ flight[i].at = "fill" /\ Lands(i, flight[i].row.version)
             /\ cache' = IF GuardHolds(flight[i].prev)
                         THEN Payload(flight[i].row) ELSE cache
    BY <1>4 DEF FlightFill, Lands
<1>5. ASSUME FlightFillFails(i)
      PROVE  flight[i].at = "fill" /\ Lands(i, flight[i].row.version) /\ cache' = cache
    BY <1>5 DEF FlightFillFails, Lands
<1>6. ASSUME FlightTimeout(i), flight[i].at = "fill"
      PROVE  Lands(i, flight[i].row.version) /\ cache' = cache
    BY <1>6 DEF FlightTimeout, Lands
<1>7. ASSUME FlightTimeout(i), flight[i].at # "fill"
      PROVE  Lands(i, db.version) /\ cache' = cache
    BY <1>7 DEF FlightTimeout, Lands
<1> QED
    BY <1>1, <1>2, <1>3, <1>4, <1>5, <1>6, <1>7

-----------------------------------------------------------------------------
(* The values and records the steps build have their types.                *)
LEMMA ValueTypes ==
    /\ NoValue \in Value /\ NoFlight \in Flight /\ NoFlight.row \in DbRow
    /\ nextToken \in Nat => Tombstone \in Value
    /\ \A row \in DbRow : Payload(row) \in Value
    /\ \A v \in Value : Aged(v) \in Value
BY TimeAssumption DEF NoValue, Value, NoFlight, Flight, DbRow, Tombstone, Payload, Aged

(* A flight that ends keeps the types of what it changes.                  *)
LEMMA LandsType ==
    ASSUME TypeOK, NEW i \in Instances, NEW v \in Nat, Lands(i, v), cache' \in Value
    PROVE  TypeOK'
<1>1. flight[i].floor \in Nat /\ \A r \in Readers : since[r] \in Nat
    BY DEF TypeOK, Flight
<1>2. unseen' \subseteq Nat /\ since' \in [Readers -> Nat]
    BY <1>1 DEF Lands, Land, Answered, Floors, Waiting, TypeOK
<1>3. flight' \in [Instances -> Flight]
    BY ValueTypes DEF Lands, Land, TypeOK
<1>4. reader' \in [Readers -> {"idle", "missed", "waiting"}]
    BY DEF Lands, Land, TypeOK
<1> QED
    BY <1>2, <1>3, <1>4 DEF Lands, Land, TypeOK

(* A flight that goes on keeps its type.                                   *)
LEMMA AdvanceType ==
    ASSUME TypeOK, NEW i \in Instances, NEW at \in {"load", "blind", "fill"},
           NEW prev \in Value, NEW row \in DbRow, Advance(i, at, prev, row)
    PROVE  flight' \in [Instances -> Flight]
<1>1. flight[i] \in Flight
    BY DEF TypeOK
<1>2. [at |-> at, left |-> flight[i].left, prev |-> prev, row |-> row,
       floor |-> flight[i].floor] \in Flight
    BY <1>1 DEF Flight
<1> QED
    BY <1>2 DEF Advance, TypeOK

(* Every step keeps the types.                                             *)
LEMMA TypeStep == TypeOK /\ [Next]_vars => TypeOK'
<1> SUFFICES ASSUME TypeOK, [Next]_vars PROVE TypeOK'
    OBVIOUS
<1>1. ASSUME NEW w \in Writers,
             CommitWrite(w) \/ CommitUnanswered(w) \/ InvalidateFails(w) \/ Invalidate(w)
      PROVE  TypeOK'
    <2>1. db' \in DbRow
        BY <1>1 DEF CommitWrite, CommitUnanswered, InvalidateFails, Invalidate,
                    Writes, TypeOK, DbRow
    <2>2. cache' \in Value /\ nextToken' \in Nat /\ fence' \in Nat
        BY <1>1, ValueTypes
        DEF CommitWrite, CommitUnanswered, InvalidateFails, Invalidate, TypeOK, DbRow
    <2>3. writer' \in [Writers -> {"idle", "committed"}] /\ missed' \in BOOLEAN
        BY <1>1 DEF CommitWrite, CommitUnanswered, InvalidateFails, Invalidate, TypeOK
    <2>4. UNCHANGED <<reader, flight, past, since, unseen>>
        BY <1>1 DEF CommitWrite, CommitUnanswered, InvalidateFails, Invalidate, history
    <2> QED
        BY <2>1, <2>2, <2>3, <2>4 DEF TypeOK
<1>2. ASSUME NEW r \in Readers, GetHit(r) PROVE TypeOK'
    <2>1. unseen' \subseteq Nat
        BY <1>2 DEF GetHit, Answered, TypeOK
    <2> QED
        BY <1>2, <2>1 DEF GetHit, TypeOK
<1>3. ASSUME NEW r \in Readers, GetMiss(r) PROVE TypeOK'
    <2>1. since' \in [Readers -> Nat]
        <3>1. past[LoadTimeout + 1] \in Nat
            BY TimeAssumption DEF TypeOK, Ticks
        <3> QED
            BY <1>3, <3>1 DEF GetMiss, TypeOK
    <2> QED
        BY <1>3, <2>1 DEF GetMiss, TypeOK
<1>4. ASSUME NEW r \in Readers, Join(r) PROVE TypeOK'
    <2>1. r[1] \in Instances /\ flight[r[1]] \in Flight
        BY DEF Readers, TypeOK
    <2>2. [at |-> "get", left |-> LoadTimeout, prev |-> NoValue,
           row |-> NoFlight.row, floor |-> fence] \in Flight
        BY ValueTypes, TimeAssumption DEF Flight, TypeOK
    <2>3. flight' \in [Instances -> Flight]
        BY <1>4, <2>1, <2>2 DEF Join, TypeOK
    <2> QED
        BY <1>4, <2>3 DEF Join, TypeOK, history
<1>5. ASSUME NEW i \in Instances, FlightMiss(i) \/ FlightGetFails(i) \/ FlightLoad(i)
      PROVE  TypeOK'
    <2>1. flight[i].row \in DbRow /\ flight[i].prev \in Value
        BY DEF TypeOK, Flight
    <2>2. flight' \in [Instances -> Flight]
        BY <1>5, <2>1, AdvanceType, ValueTypes
        DEF FlightMiss, FlightGetFails, FlightLoad, TypeOK
    <2> QED
        BY <1>5, <2>2 DEF FlightMiss, FlightGetFails, FlightLoad, TypeOK, history
<1>6. ASSUME NEW i \in Instances,
             \/ FlightHit(i) \/ FlightLoadBlind(i) \/ FlightLoadFails(i)
             \/ FlightFill(i) \/ FlightFillFails(i) \/ FlightTimeout(i)
      PROVE  TypeOK'
    <2>1. /\ cache.version \in Nat /\ db.version \in Nat /\ cache \in Value
          /\ flight[i].row \in DbRow /\ flight[i].row.version \in Nat
        BY DEF TypeOK, Value, DbRow, Flight
    <2>2. Payload(flight[i].row) \in Value
        BY <2>1, ValueTypes
    <2> QED
        BY <1>6, <2>1, <2>2, LandingSteps, LandsType
<1>7. ASSUME Tick PROVE TypeOK'
    <2>1. cache' \in Value
        BY <1>7, ValueTypes DEF Tick, TypeOK
    <2>2. ASSUME NEW i \in Instances PROVE flight'[i] \in Flight
        <3>1. flight[i] \in Flight /\ (flight[i].at # "none" => flight[i].left > 0)
            BY <1>7 DEF Tick, TypeOK
        <3> QED
            BY <1>7, <3>1 DEF Tick, Flight
    <2>3. flight' \in [Instances -> Flight]
        BY <1>7, <2>2 DEF Tick
    <2>4. past' \in [Ticks -> Nat]
        <3>1. \A k \in Ticks : k # 1 => k - 1 \in Ticks
            BY TimeAssumption DEF Ticks
        <3> QED
            BY <1>7, <3>1 DEF Tick, TypeOK
    <2> QED
        BY <1>7, <2>1, <2>3, <2>4 DEF Tick, TypeOK
<1>8. ASSUME Evict PROVE TypeOK'
    BY <1>8, ValueTypes DEF Evict, TypeOK, history
<1>9. CASE UNCHANGED vars
    BY <1>9 DEF vars, TypeOK
<1> QED
    BY <1>1, <1>2, <1>3, <1>4, <1>5, <1>6, <1>7, <1>8, <1>9
    DEF Next, WriterStep, FlightStep

(* The initial state is typed.                                             *)
LEMMA InitTypes == Init => TypeOK
<1> SUFFICES ASSUME Init PROVE TypeOK
    OBVIOUS
<1>1. db \in DbRow /\ flight \in [Instances -> Flight]
    BY ValueTypes DEF Init, DbRow
<1>2. cache \in Value
    <2>1. [tag |-> "x", version |-> 0, token |-> 0, left |-> CacheTTL] \in Value
        BY TimeAssumption DEF Value
    <2> QED
        BY <1>1, <2>1, ValueTypes DEF Init
<1>3. missed \in BOOLEAN
    BY DEF Init
<1> QED
    BY <1>1, <1>2, <1>3 DEF Init, TypeOK

(* Type correctness, with every failure.                                   *)
THEOREM CacheTypes == Spec => []TypeOK
BY InitTypes, TypeStep, PTL DEF Spec

-----------------------------------------------------------------------------
(* What the types of the invariant say of the numbers it compares.         *)
LEMMA Numbers ==
    ASSUME TypeOK
    PROVE  /\ fence \in Nat /\ nextToken \in Nat /\ db.version \in Nat
           /\ cache.version \in Nat /\ cache.token \in Nat /\ cache.left \in Nat
           /\ \A i \in Instances :
                /\ flight[i] \in Flight
                /\ flight[i].left \in Nat /\ flight[i].floor \in Nat
                /\ flight[i].prev.token \in Nat /\ flight[i].row.version \in Nat
           /\ LoadTimeout \in Nat /\ CacheTTL \in Nat /\ NegTTL \in Nat
           /\ \A k \in Ticks : past[k] \in Nat
           /\ \A r \in Readers : since[r] \in Nat /\ r[1] \in Instances
           /\ LoadTimeout + 1 \in Ticks
BY TimeAssumption DEF TypeOK, Value, DbRow, Flight, Readers, Ticks

(* The initial state satisfies the invariant.                              *)
LEMMA CacheInit == Init => CacheInv
<1> SUFFICES ASSUME Init PROVE CacheInv
    OBVIOUS
<1>1. TypeOK
    BY InitTypes
<1>2. cache.token = 0 /\ (Hit(cache) => cache.version = 1)
    BY DEF Init, NoValue, Payload, Hit
<1>3. FenceInv /\ NoOldFill
    BY <1>2 DEF Init, FenceInv, NoOldFill
<1>4. \A i \in Instances : FlightInv(i)
    BY DEF Init, FlightInv, NoFlight
<1>5. ReadsSeeInvalidated /\ TimeInv
    BY DEF Init, ReadsSeeInvalidated, TimeInv
<1> QED
    BY <1>1, <1>3, <1>4, <1>5 DEF CacheInv

(* A commit, a lost answer and a failed invalidation leave the cache, the  *)
(* flights and the fence alone.                                            *)
LEMMA WriterInv ==
    ASSUME CacheInv, TypeOK', NEW w \in Writers,
           CommitWrite(w) \/ CommitUnanswered(w) \/ InvalidateFails(w)
    PROVE  CacheInv'
<1>1. UNCHANGED <<cache, nextToken, reader, flight, fence, past, since, unseen>>
    BY DEF CommitWrite, CommitUnanswered, InvalidateFails, history
<1>2. db'.version >= db.version
    BY Numbers DEF CacheInv, CommitWrite, CommitUnanswered, InvalidateFails, Writes
<1>3. missed' \/ ~Settled'
    BY DEF CacheInv, TypeOK, CommitWrite, CommitUnanswered, InvalidateFails, Settled
<1>4. FenceInv'
    <2>1. fence <= db'.version
        BY <1>2, Numbers DEF CacheInv, FenceInv, TypeOK, DbRow
    <2> QED
        BY <1>1, <1>3, <2>1 DEF CacheInv, FenceInv
<1>5. \A i \in Instances : FlightInv(i)'
    BY <1>1 DEF CacheInv, FlightInv, Fenced
<1>6. NoOldFill' /\ ReadsSeeInvalidated' /\ TimeInv'
    BY <1>1 DEF CacheInv, NoOldFill, ReadsSeeInvalidated, TimeInv
<1> QED
    BY <1>4, <1>5, <1>6 DEF CacheInv

(* A tombstone fences off every flight: none of them found its token, and  *)
(* none outlives it.                                                       *)
LEMMA InvalidateInv ==
    ASSUME CacheInv, TypeOK', EntriesOutliveFlights, NEW w \in Writers, Invalidate(w)
    PROVE  CacheInv'
<1>1. /\ cache' = [tag |-> "t", version |-> 0, token |-> nextToken, left |-> CacheTTL]
      /\ nextToken' = nextToken + 1 /\ fence' = db.version
      /\ UNCHANGED <<db, reader, flight, past, since, unseen>>
    BY DEF Invalidate, Tombstone, history
<1>2. FenceInv'
    BY <1>1, Numbers DEF CacheInv, FenceInv
<1>3. ASSUME NEW i \in Instances PROVE FlightInv(i)'
    <2>1. FlightInv(i) /\ fence <= fence'
        BY <1>1 DEF CacheInv, FenceInv
    <2>2. flight[i].at = "fill" => Fenced(i)'
        <3> SUFFICES ASSUME flight[i].at = "fill" PROVE Fenced(i)'
            OBVIOUS
        <3>1. flight[i].left < CacheTTL /\ flight[i].prev.token # nextToken
            BY <2>1, Numbers DEF CacheInv, FlightInv, EntriesOutliveFlights
        <3> QED
            BY <1>1, <3>1 DEF Fenced, Exists, SameBytes
    <2> QED
        BY <1>1, <2>1, <2>2, Numbers DEF CacheInv, FlightInv
<1>4. NoOldFill' /\ ReadsSeeInvalidated'
    BY <1>1 DEF CacheInv, NoOldFill, Hit, ReadsSeeInvalidated
<1>5. TimeInv'
    <2>1. TimeInv /\ fence <= fence' /\ fence' \in Nat
        BY <1>1, Numbers DEF CacheInv, FenceInv
    <2>2. \A k \in Ticks : past[k] <= fence'
        BY <2>1, Numbers DEF CacheInv, TimeInv
    <2> QED
        BY <1>1, <2>1, <2>2 DEF TimeInv
<1> QED
    BY <1>2, <1>3, <1>4, <1>5 DEF CacheInv

(* A flight under way has a fence from its own time.                       *)
LEMMA FloorIsRecent ==
    ASSUME CacheInv, NEW i \in Instances, flight[i].at # "none"
    PROVE  past[LoadTimeout + 1] <= flight[i].floor
<1>1. /\ flight[i].left \in Nat /\ flight[i].left <= LoadTimeout /\ LoadTimeout \in Nat
      /\ past[LoadTimeout - flight[i].left + 1] <= flight[i].floor
    BY Numbers DEF CacheInv, FlightInv
<1>2. /\ LoadTimeout - flight[i].left + 1 \in Ticks
      /\ LoadTimeout - flight[i].left + 1 <= LoadTimeout + 1
    BY <1>1 DEF Ticks
<1>3. past[LoadTimeout + 1] <= past[LoadTimeout - flight[i].left + 1]
    BY <1>2, Numbers DEF CacheInv, TimeInv
<1> QED
    BY <1>1, <1>2, <1>3, Numbers DEF CacheInv

(* Calls of FindByID: a hit is no older than the fence, a miss changes     *)
(* nothing, and a flight starts with the fence of the moment.              *)
LEMMA ReaderInv ==
    ASSUME CacheInv, TypeOK', NEW r \in Readers, GetHit(r) \/ GetMiss(r) \/ Join(r)
    PROVE  CacheInv'
<1>1. UNCHANGED <<db, cache, nextToken, writer, fence, missed, past>>
    BY DEF GetHit, GetMiss, Join, history
<1>2. FenceInv' /\ NoOldFill'
    BY <1>1 DEF CacheInv, FenceInv, NoOldFill, Settled
<1>3. ReadsSeeInvalidated'
    <2>1. CASE GetHit(r)
        <3>1. cache.version >= fence
            BY <2>1 DEF CacheInv, NoOldFill, GetHit
        <3> QED
            BY <2>1, <3>1, Numbers DEF CacheInv, GetHit, Answered, ReadsSeeInvalidated
    <2>2. CASE UNCHANGED unseen
        BY <2>2 DEF CacheInv, ReadsSeeInvalidated
    <2> QED
        BY <2>1, <2>2 DEF GetMiss, Join, history
<1>4. ASSUME NEW i \in Instances PROVE FlightInv(i)'
    <2>1. CASE flight'[i] = flight[i]
        BY <1>1, <2>1 DEF CacheInv, FlightInv, Fenced
    <2>2. CASE flight'[i] # flight[i]
        <3>1. flight'[i] = [at |-> "get", left |-> LoadTimeout, prev |-> NoValue,
                            row |-> NoFlight.row, floor |-> fence]
            BY <2>2 DEF GetHit, GetMiss, Join, CacheInv, TypeOK
        <3>2. LoadTimeout - LoadTimeout + 1 = 1 /\ 1 \in Ticks
            BY Numbers DEF CacheInv, Ticks
        <3>3. past[LoadTimeout - LoadTimeout + 1] <= fence
            BY <3>2 DEF CacheInv, TimeInv
        <3> QED
            BY <1>1, <3>1, <3>3, Numbers DEF CacheInv, FlightInv
    <2> QED
        BY <2>1, <2>2
<1>5. TimeInv'
    <2>1. TimeInv
        BY DEF CacheInv
    <2>2. CASE GetHit(r)
        BY <1>1, <2>1, <2>2 DEF GetHit, TimeInv
    <2>3. CASE GetMiss(r)
        <3>1. /\ UNCHANGED flight
              /\ \A q \in Readers \ {r} : reader'[q] = reader[q] /\ since'[q] = since[q]
              /\ reader'[r] = "missed" /\ since'[r] = past[LoadTimeout + 1]
            BY <2>3 DEF GetMiss, CacheInv, TypeOK
        <3>2. past[LoadTimeout + 1] <= past[LoadTimeout + 1]
            BY Numbers DEF CacheInv
        <3> QED
            BY <1>1, <2>1, <3>1, <3>2 DEF TimeInv
    <2>4. CASE Join(r)
        <3>1. /\ UNCHANGED since /\ reader[r] = "missed" /\ reader'[r] = "waiting"
              /\ \A q \in Readers \ {r} : reader'[q] = reader[q]
            BY <2>4 DEF Join, history, CacheInv, TypeOK
        <3>2. \A i \in Instances : flight[i].at # "none" => flight'[i] = flight[i]
            BY <2>4, Numbers DEF Join, CacheInv, TypeOK
        <3>3. /\ flight'[r[1]].at # "none"
              /\ flight[r[1]].at = "none" => flight'[r[1]].floor = fence
            BY <2>4, Numbers DEF Join, CacheInv, TypeOK
        <3>4. since[r] <= past[LoadTimeout + 1] /\ past[LoadTimeout + 1] <= fence
            BY <2>1, <3>1, Numbers DEF CacheInv, TimeInv
        <3>5. since[r] <= flight'[r[1]].floor
            <4>1. CASE flight[r[1]].at = "none"
                BY <3>3, <3>4, <4>1, Numbers DEF CacheInv
            <4>2. CASE flight[r[1]].at # "none"
                BY <3>2, <3>4, <4>2, FloorIsRecent, Numbers DEF CacheInv
            <4> QED
                BY <4>1, <4>2
        <3>6. ASSUME NEW q \in Readers
              PROVE  /\ reader'[q] = "missed" => since'[q] <= past'[LoadTimeout + 1]
                     /\ reader'[q] = "waiting" =>
                            flight'[q[1]].at # "none" /\ since'[q] <= flight'[q[1]].floor
            <4>1. CASE q = r
                BY <3>1, <3>3, <3>5, <4>1
            <4>2. CASE q # r
                BY <1>1, <2>1, <3>1, <3>2, <4>2, Numbers DEF CacheInv, TimeInv
            <4> QED
                BY <4>1, <4>2
        <3> QED
            BY <1>1, <2>1, <3>6 DEF TimeInv
    <2> QED
        BY <2>2, <2>3, <2>4
<1> QED
    BY <1>2, <1>3, <1>4, <1>5 DEF CacheInv

(* A flight that goes on: what it loads is no older than the fence.        *)
LEMMA AdvanceInv ==
    ASSUME CacheInv, TypeOK', NEW i \in Instances,
           FlightMiss(i) \/ FlightGetFails(i) \/ FlightLoad(i)
    PROVE  CacheInv'
<1>1. UNCHANGED <<db, cache, nextToken, writer, reader, fence, missed, past, since, unseen>>
    BY DEF FlightMiss, FlightGetFails, FlightLoad, history
<1>2. FenceInv' /\ NoOldFill' /\ ReadsSeeInvalidated'
    BY <1>1 DEF CacheInv, FenceInv, NoOldFill, ReadsSeeInvalidated, Settled
<1>3. \A j \in Instances \ {i} : flight'[j] = flight[j]
    BY DEF FlightMiss, FlightGetFails, FlightLoad, Advance, CacheInv, TypeOK
<1>4. /\ flight'[i].left = flight[i].left /\ flight'[i].floor = flight[i].floor
      /\ flight[i].at # "none"
      /\ \/ flight'[i].at = "load" /\ flight'[i].prev = cache /\ ~Hit(cache)
         \/ flight'[i].at = "blind"
         \/ /\ flight[i].at = "load" /\ flight'[i].at = "fill"
            /\ flight'[i].prev = flight[i].prev /\ flight'[i].row = db
    BY DEF FlightMiss, FlightGetFails, FlightLoad, Advance, CacheInv, TypeOK
<1>5. FlightInv(i)'
    <2>1. FlightInv(i) /\ fence <= db.version /\ cache.token < nextToken
        BY DEF CacheInv, FenceInv
    <2> QED
        BY <1>1, <1>4, <2>1, Numbers DEF CacheInv, FlightInv
<1>6. ASSUME NEW j \in Instances \ {i} PROVE FlightInv(j)'
    BY <1>1, <1>3 DEF CacheInv, FlightInv, Fenced
<1>7. TimeInv'
    <2>1. \A j \in Instances : flight[j].at # "none" =>
            flight'[j].at # "none" /\ flight'[j].floor = flight[j].floor
        BY <1>3, <1>4
    <2> QED
        BY <1>1, <2>1, Numbers DEF CacheInv, TimeInv
<1> QED
    BY <1>2, <1>5, <1>6, <1>7 DEF CacheInv

(* A flight that ends and leaves the cache alone, with an answer no older  *)
(* than its floor.                                                         *)
LEMMA LandsInv ==
    ASSUME CacheInv, TypeOK', NEW i \in Instances, NEW v \in Nat,
           Lands(i, v), v >= flight[i].floor,
           cache'.token < nextToken, Hit(cache') => cache'.version >= fence,
           \A j \in Instances \ {i} : flight[j].at = "fill" /\ Fenced(j) => Fenced(j)'
    PROVE  CacheInv'
<1>1. UNCHANGED <<db, nextToken, writer, fence, missed, past>>
    BY DEF Lands, Land
<1>2. FenceInv' /\ NoOldFill'
    BY <1>1 DEF CacheInv, FenceInv, NoOldFill, Settled
<1>3. ReadsSeeInvalidated'
    <2>1. CASE UNCHANGED unseen
        BY <2>1 DEF CacheInv, ReadsSeeInvalidated
    <2>2. CASE Answered(v, Floors(i))
        <3>1. \A r \in Waiting(i) : since[r] <= flight[i].floor /\ since[r] \in Nat
            BY Numbers DEF CacheInv, TimeInv, Waiting
        <3>2. \A f \in Floors(i) : f \in Nat /\ f <= flight[i].floor
            BY <3>1, Numbers DEF CacheInv, Floors
        <3>3. \A f \in Floors(i) : ~(v < f)
            BY <3>2, Numbers DEF CacheInv
        <3> QED
            BY <2>2, <3>3 DEF ReadsSeeInvalidated, Answered
    <2> QED
        BY <2>1, <2>2 DEF Lands
<1>4. flight'[i].at = "none" /\ \A j \in Instances \ {i} : flight'[j] = flight[j]
    BY DEF Lands, Land, NoFlight, CacheInv, TypeOK
<1>5. FlightInv(i)'
    BY <1>4 DEF FlightInv
<1>6. ASSUME NEW j \in Instances \ {i} PROVE FlightInv(j)'
    BY <1>1, <1>4 DEF CacheInv, FlightInv
<1>7. TimeInv'
    <2>1. ASSUME NEW r \in Readers, reader'[r] # "idle"
          PROVE  /\ reader'[r] = reader[r] /\ since'[r] = since[r]
                 /\ reader[r] = "waiting" => r[1] # i
        BY <2>1 DEF Lands, Land, Waiting
    <2> QED
        BY <1>1, <1>4, <2>1, Numbers DEF CacheInv, TimeInv
<1> QED
    BY <1>2, <1>3, <1>5, <1>6, <1>7 DEF CacheInv

(* A guarded fill that goes through stores no older row than the fence,    *)
(* and fences off the other flights as a tombstone does.                   *)
LEMMA FillInv ==
    ASSUME CacheInv, TypeOK', EntriesOutliveFlights, NEW i \in Instances,
           flight[i].at = "fill", Lands(i, flight[i].row.version),
           GuardHolds(flight[i].prev), cache' = Payload(flight[i].row)
    PROVE  CacheInv'
<1>1. FlightInv(i)
    BY DEF CacheInv
<1>2. ~Fenced(i)
    BY DEF GuardHolds, Fenced
<1>3. flight[i].row.version >= fence /\ flight[i].row.version >= flight[i].floor
    BY <1>1, <1>2 DEF FlightInv
<1>4. /\ cache'.version = flight[i].row.version /\ cache'.token = 0
      /\ Hit(cache') /\ Exists(cache') /\ cache'.left > LoadTimeout
    BY DEF Payload, Hit, Exists, EntriesOutliveFlights
<1>5. cache'.token < nextToken
    BY <1>4, Numbers DEF CacheInv, FenceInv
<1>6. ASSUME NEW j \in Instances \ {i}, flight[j].at = "fill" PROVE Fenced(j)'
    <2>1. /\ ~Hit(flight[j].prev) /\ flight[j].left <= LoadTimeout
          /\ flight'[j] = flight[j]
        BY <1>6 DEF CacheInv, FlightInv, Lands, Land, TypeOK
    <2>2. ~SameBytes(cache', flight[j].prev)
        BY <1>4, <2>1 DEF SameBytes, Hit
    <2>3. cache'.left > flight[j].left
        <3>1. cache'.left \in Nat
            BY DEF TypeOK, Value
        <3> QED
            BY <1>4, <2>1, <3>1, Numbers DEF CacheInv
    <2> QED
        BY <1>4, <2>1, <2>2, <2>3 DEF Fenced
<1> QED
    BY <1>3, <1>4, <1>5, <1>6, LandsInv, Numbers DEF CacheInv

(* Every way a flight ends preserves the invariant.                        *)
LEMMA LandingInv ==
    ASSUME CacheInv, TypeOK', EntriesOutliveFlights, NEW i \in Instances,
           \/ FlightHit(i) \/ FlightLoadBlind(i) \/ FlightLoadFails(i)
           \/ FlightFill(i) \/ FlightFillFails(i) \/ FlightTimeout(i)
    PROVE  CacheInv'
<1>1. /\ FlightInv(i) /\ fence <= db.version /\ cache.token < nextToken
      /\ Hit(cache) => cache.version >= fence
    BY DEF CacheInv, FenceInv, NoOldFill
<1>2. ASSUME NEW v \in Nat, Lands(i, v), v >= flight[i].floor, cache' = cache
      PROVE  CacheInv'
    <2>1. \A j \in Instances \ {i} : flight'[j] = flight[j]
        BY <1>2 DEF Lands, Land, CacheInv, TypeOK
    <2>2. \A j \in Instances \ {i} : Fenced(j) => Fenced(j)'
        BY <1>2, <2>1 DEF Fenced
    <2> QED
        BY <1>1, <1>2, <2>2, LandsInv
<1>3. ASSUME Hit(cache), Lands(i, cache.version), cache' = cache PROVE CacheInv'
    <2>1. cache.version \in Nat /\ cache.version >= flight[i].floor
        BY <1>1, <1>3, Numbers DEF Lands, FlightInv, CacheInv
    <2> QED
        BY <1>2, <1>3, <2>1
<1>4. ASSUME Lands(i, db.version), cache' = cache PROVE CacheInv'
    <2>1. db.version \in Nat /\ db.version >= flight[i].floor
        BY <1>1, <1>4, Numbers DEF Lands, FlightInv, CacheInv
    <2> QED
        BY <1>2, <1>4, <2>1
<1>5. ASSUME flight[i].at = "fill", Lands(i, flight[i].row.version), cache' = cache
      PROVE  CacheInv'
    <2>1. flight[i].row.version \in Nat /\ flight[i].row.version >= flight[i].floor
        BY <1>1, <1>5, Numbers DEF FlightInv, CacheInv
    <2> QED
        BY <1>2, <1>5, <2>1
<1>6. TypeOK
    BY DEF CacheInv
<1> QED
    BY <1>3, <1>4, <1>5, <1>6, FillInv, LandingSteps

(* Time passes for an entry and for the flights it fences off alike.       *)
LEMMA TickInv ==
    ASSUME CacheInv, TypeOK', Tick
    PROVE  CacheInv'
<1>1. /\ UNCHANGED <<db, nextToken, writer, reader, fence, missed, since, unseen>>
      /\ cache' = Aged(cache)
    BY DEF Tick
<1>2. /\ cache'.token < nextToken
      /\ Hit(cache') => Hit(cache) /\ cache'.version = cache.version
      /\ cache.left > 1 => /\ cache'.tag = cache.tag /\ cache'.token = cache.token
                           /\ cache'.left = cache.left - 1
    BY <1>1, Numbers DEF CacheInv, FenceInv, Aged, NoValue, Hit
<1>3. FenceInv' /\ NoOldFill' /\ ReadsSeeInvalidated'
    BY <1>1, <1>2 DEF CacheInv, FenceInv, NoOldFill, ReadsSeeInvalidated, Settled
<1>4. ASSUME NEW i \in Instances PROVE FlightInv(i)'
    <2>1. FlightInv(i)
        BY DEF CacheInv
    <2>2. CASE flight[i].at = "none"
        BY <2>2 DEF Tick, FlightInv
    <2>3. CASE flight[i].at # "none"
        <3>1. /\ flight[i].left > 0 /\ flight'[i].left = flight[i].left - 1
              /\ flight'[i].at = flight[i].at /\ flight'[i].prev = flight[i].prev
              /\ flight'[i].row = flight[i].row /\ flight'[i].floor = flight[i].floor
            BY <2>3 DEF Tick
        <3>2. Fenced(i) => Fenced(i)'
            BY <1>2, <3>1, Numbers DEF CacheInv, Fenced, Exists, SameBytes
        <3>3. past'[LoadTimeout - flight'[i].left + 1] = past[LoadTimeout - flight[i].left + 1]
            <4>1. /\ flight[i].left \in Nat /\ flight[i].left <= LoadTimeout
                  /\ LoadTimeout \in Nat
                BY <2>1, <2>3, Numbers DEF CacheInv, FlightInv
            <4>2. LoadTimeout - flight'[i].left + 1 = (LoadTimeout - flight[i].left + 1) + 1
                BY <3>1, <4>1
            <4>3. /\ (LoadTimeout - flight[i].left + 1) + 1 \in Ticks
                  /\ (LoadTimeout - flight[i].left + 1) + 1 # 1
                  /\ ((LoadTimeout - flight[i].left + 1) + 1) - 1
                        = LoadTimeout - flight[i].left + 1
                BY <3>1, <4>1 DEF Ticks
            <4> QED
                BY <4>2, <4>3 DEF Tick
        <3> QED
            BY <1>1, <2>1, <2>3, <3>1, <3>2, <3>3, Numbers DEF CacheInv, FlightInv
    <2> QED
        BY <2>2, <2>3
<1>5. TimeInv'
    <2>0. TimeInv /\ \A k \in Ticks : past[k] \in Nat
        BY Numbers DEF CacheInv
    <2>1. \A k \in Ticks : past'[k] = IF k = 1 THEN fence ELSE past[k - 1]
        BY DEF Tick
    <2>2. \A k \in Ticks : k # 1 => k - 1 \in Ticks /\ k - 1 <= k
        BY Numbers DEF CacheInv, Ticks
    <2>3. \A k \in Ticks : past'[k] <= fence
        BY <2>0, <2>1, <2>2, Numbers DEF CacheInv, TimeInv
    <2>4. \A j, k \in Ticks : j <= k => past'[k] <= past'[j]
        <3> SUFFICES ASSUME NEW j \in Ticks, NEW k \in Ticks, j <= k
                     PROVE  past'[k] <= past'[j]
            OBVIOUS
        <3>1. CASE j = 1
            BY <2>1, <2>3, <3>1
        <3>2. CASE j # 1
            <4>1. k # 1 /\ j - 1 <= k - 1
                BY <3>2, Numbers DEF CacheInv, Ticks
            <4> QED
                BY <2>0, <2>1, <2>2, <3>2, <4>1 DEF TimeInv
        <3> QED
            BY <3>1, <3>2
    <2>5. past[LoadTimeout + 1] <= past'[LoadTimeout + 1]
        <3>1. LoadTimeout + 1 \in Ticks /\ LoadTimeout + 1 # 1
            BY TimeAssumption, Numbers DEF CacheInv
        <3> QED
            BY <2>0, <2>1, <2>2, <3>1 DEF TimeInv
    <2>6. ASSUME NEW r \in Readers
          PROVE  /\ reader'[r] = "missed" => since'[r] <= past'[LoadTimeout + 1]
                 /\ reader'[r] = "waiting" =>
                        flight'[r[1]].at # "none" /\ since'[r] <= flight'[r[1]].floor
        <3>1. reader'[r] = "missed" => since'[r] <= past'[LoadTimeout + 1]
            <4>1. past'[LoadTimeout + 1] \in Nat
                BY <2>0, <2>1, <2>2, Numbers DEF CacheInv
            <4> QED
                BY <1>1, <2>0, <2>5, <4>1, Numbers DEF CacheInv, TimeInv
        <3>2. \A i \in Instances : flight[i].at # "none" =>
                flight'[i].at = flight[i].at /\ flight'[i].floor = flight[i].floor
            BY DEF Tick
        <3>3. reader'[r] = "waiting" =>
                flight'[r[1]].at # "none" /\ since'[r] <= flight'[r[1]].floor
            BY <1>1, <2>0, <3>2, Numbers DEF CacheInv, TimeInv
        <3> QED
            BY <3>1, <3>3
    <2> QED
        BY <1>1, <2>3, <2>4, <2>6 DEF TimeInv
<1> QED
    BY <1>3, <1>4, <1>5 DEF CacheInv

(* Every step preserves the invariant while entries outlive flights.       *)
LEMMA CacheStep ==
    ASSUME EntriesOutliveFlights
    PROVE  CacheInv /\ [Next]_vars => CacheInv'
<1> SUFFICES ASSUME CacheInv, [Next]_vars PROVE CacheInv'
    OBVIOUS
<1>1. TypeOK'
    BY TypeStep DEF CacheInv
<1>2. ASSUME NEW w \in Writers, CommitWrite(w) \/ CommitUnanswered(w) \/ WriterStep(w)
      PROVE  CacheInv'
    BY <1>1, <1>2, WriterInv, InvalidateInv DEF WriterStep
<1>3. ASSUME NEW r \in Readers, GetHit(r) \/ GetMiss(r) \/ Join(r) PROVE CacheInv'
    BY <1>1, <1>3, ReaderInv
<1>4. ASSUME NEW i \in Instances, FlightStep(i) PROVE CacheInv'
    BY <1>1, <1>4, AdvanceInv, LandingInv DEF FlightStep
<1>5. ASSUME Tick PROVE CacheInv'
    BY <1>1, <1>5, TickInv
<1>6. ~Evict
    BY DEF Evict, EntriesOutliveFlights
<1>7. CASE UNCHANGED vars
    BY <1>1, <1>7
    DEF vars, CacheInv, FenceInv, FlightInv, Fenced, NoOldFill, ReadsSeeInvalidated, Settled,
        TimeInv
<1> QED
    BY <1>2, <1>3, <1>4, <1>5, <1>6, <1>7 DEF Next

(* While entries outlive flights the inductive invariant holds, for every  *)
(* number of instances, calls and writers and every other failure.         *)
THEOREM CacheInvariant ==
    ASSUME EntriesOutliveFlights
    PROVE  Spec => []CacheInv
BY CacheInit, CacheStep, PTL DEF Spec

(* No slow flight on any instance puts back a row from before the last     *)
(* invalidation (guardedSet, newTombstone).                                *)
THEOREM NoOldRowIsFilled ==
    ASSUME EntriesOutliveFlights
    PROVE  Spec => []NoOldFill
<1>1. CacheInv => NoOldFill
    BY DEF CacheInv
<1> QED
    BY <1>1, CacheInvariant, PTL

(* A read sees every write invalidated before the flight that served it,   *)
(* or before its own Get; even one that joined an older flight sees what   *)
(* was invalidated a load timeout before it (FindByID, callGroup.Do).      *)
THEOREM ReadsAreRecent ==
    ASSUME EntriesOutliveFlights
    PROVE  Spec => []ReadsSeeInvalidated
<1>1. CacheInv => ReadsSeeInvalidated
    BY DEF CacheInv
<1> QED
    BY <1>1, CacheInvariant, PTL

(* Once every write has been followed by an invalidation, of its own or of *)
(* a later write, the cache answers with the committed row or not at all.  *)
THEOREM SettledCacheIsFresh ==
    ASSUME EntriesOutliveFlights
    PROVE  Spec => []SettledIsFresh
<1>1. CacheInv => SettledIsFresh
    <2> SUFFICES ASSUME CacheInv, Settled, ~missed, Hit(cache)
                 PROVE  ~(cache.version < db.version)
        BY DEF SettledIsFresh, Stale
    <2>1. fence = db.version /\ cache.version >= fence
        BY DEF CacheInv, FenceInv, NoOldFill
    <2> QED
        BY <2>1, Numbers DEF CacheInv
<1> QED
    BY <1>1, CacheInvariant, PTL
=============================================================================
