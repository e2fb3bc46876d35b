---------------------------- MODULE ProductCache ----------------------------
(***************************************************************************)
(* internal/service and internal/cache for one product: FindByID with its  *)
(* single-flight load and guarded fill on any number of instances, against *)
(* the writers' commit-then-invalidate.  Products do not interact here, so *)
(* one is enough.  Time is kept as the ticks a cache entry and a flight    *)
(* have left.                                                              *)
(***************************************************************************)
EXTENDS Integers

CONSTANTS
    Instances,      \* storefront processes, each with its own callGroup
    Slots,          \* concurrent FindByID calls of an instance
    Writers,        \* concurrent Update, Delete and CreateOrder calls
    LoadTimeout,    \* SERVICE_LOAD_TIMEOUT, in ticks
    CacheTTL,       \* VALKEY_CACHE_TTL
    NegTTL,         \* VALKEY_CACHE_NEG_TTL
    Failures,       \* which of FailureKinds can happen
    MaxVersion      \* bound on the number of writes

(* cache: a Valkey call fails or times out, or the instance crashes before *)
(* making it; store: a PostgreSQL read fails; disconnect: the caller's     *)
(* context ends while its COMMIT is on the way; evict: Valkey drops the    *)
(* entry early.                                                            *)
FailureKinds == {"cache", "store", "disconnect", "evict"}

ASSUME TimeAssumption ==
    LoadTimeout \in Nat \ {0} /\ CacheTTL \in Nat \ {0} /\ NegTTL \in Nat \ {0}
ASSUME BoundAssumption == MaxVersion \in Nat /\ Failures \subseteq FailureKinds

VARIABLES
    db,         \* the product's committed row: its version, and if it exists
    cache,      \* the value of the product's key in Valkey
    nextToken,  \* makes every tombstone different (rand.Text)
    writer,     \* where each writer is
    reader,     \* where each FindByID call is
    flight,     \* the load in progress on each instance, if any
    fence,      \* history: db.version when the last tombstone was written
    missed,     \* history: a write since then has gone without one
    past,       \* history: the fence at each of the last ticks, latest first
    since,      \* history: of each call, a fence it must not fall behind
    unseen      \* history: the fences the last answer fell behind

history == <<past, since, unseen>>
vars == <<db, cache, nextToken, writer, reader, flight, fence, missed, past, since, unseen>>

-----------------------------------------------------------------------------
(* A Valkey value by its tag: "p" a product of some version, "n" a known   *)
(* absence (its version is history), "t" a tombstone, "x" bytes classify   *)
(* cannot decode, "-" no value.  left counts down to expiry.               *)
Value == [tag : {"p", "n", "t", "x", "-"}, version : Nat, token : Nat, left : Nat]

NoValue == [tag |-> "-", version |-> 0, token |-> 0, left |-> 0]

Exists(v) == v.tag # "-"

(* classify: a decodable payload and a cached absence answer the read. *)
Hit(v) == v.tag \in {"p", "n"}

SameBytes(v, w) == v.tag = w.tag /\ v.token = w.token

(* Mutant: every tombstone has the same bytes. *)
PlainTombstone == [tag |-> "t", version |-> 0, token |-> 0, left |-> CacheTTL]

(* newTombstone. *)
Tombstone == [tag |-> "t", version |-> 0, token |-> nextToken, left |-> CacheTTL]

(* What Set and SetMissing store for row r. *)
Payload(r) ==
    [tag |-> IF r.live THEN "p" ELSE "n", version |-> r.version, token |-> 0,
     left |-> IF r.live THEN CacheTTL ELSE NegTTL]

(* Mutant: a plain SET when the flight found no value. *)
GuardWithoutNX(prev) == Exists(prev) => SameBytes(cache, prev)

(* setCmd: NX when the flight found no value, else IFEQ the bytes it found. *)
GuardHolds(prev) ==
    IF Exists(prev) THEN SameBytes(cache, prev) ELSE ~Exists(cache)

DbRow == [live : BOOLEAN, version : Nat]

Readers == Instances \X Slots

(* A flight: the call it makes next, the ticks before its context ends,    *)
(* the value it read as token, and the row it loaded.  A "blind" load has  *)
(* no clean Get before it.  floor is history: the fence when it began.     *)
Flight == [at : {"none", "get", "load", "blind", "fill"}, left : Nat,
           prev : Value, row : DbRow, floor : Nat]

NoFlight == [at |-> "none", left |-> 0, prev |-> NoValue,
             row |-> [live |-> FALSE, version |-> 0], floor |-> 0]

(* One tick more than a flight lasts, so that Ticks ago is before any      *)
(* flight under way began.                                                 *)
Ticks == 1 .. LoadTimeout + 1

TypeOK ==
    /\ db \in DbRow
    /\ cache \in Value
    /\ nextToken \in Nat
    /\ writer \in [Writers -> {"idle", "committed"}]
    /\ reader \in [Readers -> {"idle", "missed", "waiting"}]
    /\ flight \in [Instances -> Flight]
    /\ fence \in Nat
    /\ missed \in BOOLEAN
    /\ past \in [Ticks -> Nat] /\ since \in [Readers -> Nat]
    /\ unseen \subseteq Nat

(* A product that exists and was read before, or never; its key may hold   *)
(* bytes of another release.                                               *)
Init ==
    /\ db = [live |-> TRUE, version |-> 1]
    /\ cache \in {NoValue, Payload(db),
                  [tag |-> "x", version |-> 0, token |-> 0, left |-> CacheTTL]}
    /\ nextToken = 1
    /\ writer = [w \in Writers |-> "idle"]
    /\ reader = [r \in Readers |-> "idle"]
    /\ flight = [i \in Instances |-> NoFlight]
    /\ fence = 1 /\ missed = FALSE
    /\ past = [k \in Ticks |-> 1] /\ since = [r \in Readers |-> 0]
    /\ unseen = {}

-----------------------------------------------------------------------------
(* Writers: Service.Update, Delete and CreateOrder.                        *)

(* What the store's transaction makes of the row. *)
Writes ==
    /\ db.live /\ db.version < MaxVersion
    /\ db' \in [live : BOOLEAN, version : {db.version + 1}]

(* The store answered: the row is committed, the invalidation is next. *)
CommitWrite(w) ==
    /\ writer[w] = "idle"
    /\ Writes
    /\ writer' = [writer EXCEPT ![w] = "committed"]
    /\ UNCHANGED <<cache, nextToken, reader, flight, fence, missed, history>>

(* The store committed and answered an error, so Service returns without   *)
(* an invalidation.  A retry of CreateOrder replays and skips it too.      *)
CommitUnanswered(w) ==
    /\ "disconnect" \in Failures
    /\ writer[w] = "idle"
    /\ Writes
    /\ missed' = TRUE
    /\ UNCHANGED <<cache, nextToken, writer, reader, flight, fence, history>>

(* invalidate: Valkey.Invalidate overwrites whatever the key holds. *)
Invalidate(w) ==
    /\ writer[w] = "committed"
    /\ writer' = [writer EXCEPT ![w] = "idle"]
    /\ cache' = Tombstone
    /\ nextToken' = nextToken + 1
    /\ fence' = db.version /\ missed' = FALSE
    /\ UNCHANGED <<db, reader, flight, history>>

(* It failed: the entry is stale until its TTL. *)
InvalidateFails(w) ==
    /\ "cache" \in Failures
    /\ writer[w] = "committed"
    /\ writer' = [writer EXCEPT ![w] = "idle"]
    /\ missed' = TRUE
    /\ UNCHANGED <<db, cache, nextToken, reader, flight, fence, history>>

-----------------------------------------------------------------------------
(* FindByID and loadProduct.                                               *)

(* A read ends with version v, which ought to be no older than the floors. *)
Answered(v, floors) == unseen' = {f \in floors : v < f}

(* FindByID's own Get answers. *)
GetHit(r) ==
    /\ reader[r] = "idle"
    /\ Hit(cache)
    /\ Answered(cache.version, {fence})
    /\ UNCHANGED <<db, cache, nextToken, writer, reader, flight, fence, missed, past, since>>

(* It misses, or fails and is taken for a miss. *)
GetMiss(r) ==
    /\ reader[r] = "idle"
    /\ ~Hit(cache) \/ "cache" \in Failures
    /\ reader' = [reader EXCEPT ![r] = "missed"]
    /\ since' = [since EXCEPT ![r] = past[LoadTimeout + 1]]
    /\ UNCHANGED <<db, cache, nextToken, writer, flight, fence, missed, past, unseen>>

(* callGroup.Do: join the flight of the instance, or start it. *)
Join(r) ==
    /\ reader[r] = "missed"
    /\ reader' = [reader EXCEPT ![r] = "waiting"]
    /\ flight' = [flight EXCEPT ![r[1]] =
            IF @.at # "none" THEN @
            ELSE [at |-> "get", left |-> LoadTimeout, prev |-> NoValue,
                  row |-> NoFlight.row, floor |-> fence]]
    /\ UNCHANGED <<db, cache, nextToken, writer, fence, missed, history>>

(* Mutant: only one of the callers gets the shared result. *)
WaitingFirst(i) ==
    LET all == {r \in Readers : r[1] = i /\ reader[r] = "waiting"}
    IN  {r \in all : r = CHOOSE s \in all : TRUE}

Waiting(i) == {r \in Readers : r[1] = i /\ reader[r] = "waiting"}

(* The flight of i ends, and with it every call that waits for it. *)
Land(i) ==
    /\ flight' = [flight EXCEPT ![i] = NoFlight]
    /\ reader' = [r \in Readers |-> IF r \in Waiting(i) THEN "idle" ELSE reader[r]]
    /\ since' = [r \in Readers |-> IF r \in Waiting(i) THEN 0 ELSE since[r]]
    /\ UNCHANGED <<db, nextToken, writer, fence, missed, past>>

(* What a flight's answer must not miss: what was invalidated before it    *)
(* began, and for each call that waits for it what was invalidated more    *)
(* than a load timeout before that call.                                   *)
Floors(i) == {flight[i].floor} \cup {since[r] : r \in Waiting(i)}

Advance(i, at, prev, row) ==
    flight' = [flight EXCEPT ![i] =
        [at |-> at, left |-> @.left, prev |-> prev, row |-> row, floor |-> @.floor]]

(* The Get inside the flight. *)
FlightHit(i) ==
    /\ flight[i].at = "get" /\ Hit(cache)
    /\ Answered(cache.version, Floors(i))
    /\ Land(i)
    /\ UNCHANGED cache

FlightMiss(i) ==
    /\ flight[i].at = "get" /\ ~Hit(cache)
    /\ Advance(i, "load", cache, flight[i].row)
    /\ UNCHANGED <<db, cache, nextToken, writer, reader, fence, missed, history>>

FlightGetFails(i) ==
    /\ "cache" \in Failures
    /\ flight[i].at = "get"
    /\ Advance(i, "blind", NoValue, flight[i].row)
    /\ UNCHANGED <<db, cache, nextToken, writer, reader, fence, missed, history>>

(* store.FindByID: the row, or ErrNotFound, which is filled as well. *)
FlightLoad(i) ==
    /\ flight[i].at = "load"
    /\ Advance(i, "fill", flight[i].prev, db)
    /\ UNCHANGED <<db, cache, nextToken, writer, reader, fence, missed, history>>

(* After an unclean Get the row is answered and not filled. *)
FlightLoadBlind(i) ==
    /\ flight[i].at = "blind"
    /\ Answered(db.version, Floors(i))
    /\ Land(i)
    /\ UNCHANGED cache

FlightLoadFails(i) ==
    /\ "store" \in Failures
    /\ flight[i].at \in {"load", "blind"}
    /\ Land(i)
    /\ UNCHANGED <<cache, unseen>>

(* fill: guardedSet stores the row if the guard holds; a lost race is no   *)
(* error, and neither is a failed Set.                                     *)
FlightFill(i) ==
    /\ flight[i].at = "fill"
    /\ cache' = IF GuardHolds(flight[i].prev) THEN Payload(flight[i].row) ELSE cache
    /\ Answered(flight[i].row.version, Floors(i))
    /\ Land(i)

FlightFillFails(i) ==
    /\ "cache" \in Failures
    /\ flight[i].at = "fill"
    /\ Answered(flight[i].row.version, Floors(i))
    /\ Land(i)
    /\ UNCHANGED cache

(* The flight's context ends: the call it is in fails, so do the ones      *)
(* after it.  A row already loaded is still answered.                      *)
FlightTimeout(i) ==
    /\ flight[i].at # "none" /\ flight[i].left = 0
    /\ IF flight[i].at = "fill"
       THEN Answered(flight[i].row.version, Floors(i))
       ELSE UNCHANGED unseen
    /\ Land(i)
    /\ UNCHANGED cache

-----------------------------------------------------------------------------
(* Mutant: a SET without PX. *)
AgedNever(v) == v

(* PX removes the entry when its time is up. *)
Aged(v) == IF v.left <= 1 THEN NoValue
           ELSE [tag |-> v.tag, version |-> v.version, token |-> v.token,
                 left |-> v.left - 1]

(* Mutant: callGroup sets no timeout, so a flight has no last tick. *)
TickWithoutTimeout ==
    /\ cache' = Aged(cache)
    /\ past' = [k \in Ticks |-> IF k = 1 THEN fence ELSE past[k - 1]]
    /\ <<cache, past>>' # <<cache, past>>
    /\ UNCHANGED <<db, nextToken, writer, reader, flight, fence, missed, since, unseen>>

(* Time passes for every timer, and no flight outlives its context. *)
Tick ==
    /\ \A i \in Instances : flight[i].at # "none" => flight[i].left > 0
    /\ cache' = Aged(cache)
    /\ flight' = [i \in Instances |->
            IF flight[i].at = "none" THEN flight[i]
            ELSE [at |-> flight[i].at, left |-> flight[i].left - 1,
                  prev |-> flight[i].prev, row |-> flight[i].row,
                  floor |-> flight[i].floor]]
    /\ past' = [k \in Ticks |-> IF k = 1 THEN fence ELSE past[k - 1]]
    /\ <<cache, flight, past>>' # <<cache, flight, past>>
    /\ UNCHANGED <<db, nextToken, writer, reader, fence, missed, since, unseen>>

Evict ==
    /\ "evict" \in Failures
    /\ Exists(cache)
    /\ cache' = NoValue
    /\ UNCHANGED <<db, nextToken, writer, reader, flight, fence, missed, history>>

WriterStep(w) == Invalidate(w) \/ InvalidateFails(w)

FlightStep(i) ==
    \/ FlightHit(i) \/ FlightMiss(i) \/ FlightGetFails(i)
    \/ FlightLoad(i) \/ FlightLoadBlind(i) \/ FlightLoadFails(i)
    \/ FlightFill(i) \/ FlightFillFails(i) \/ FlightTimeout(i)

Next ==
    \/ \E w \in Writers : CommitWrite(w) \/ CommitUnanswered(w) \/ WriterStep(w)
    \/ \E r \in Readers : GetHit(r) \/ GetMiss(r) \/ Join(r)
    \/ \E i \in Instances : FlightStep(i)
    \/ Tick \/ Evict

Spec == Init /\ [][Next]_vars

(* Goroutines that can run do run, every detached call has a deadline, and *)
(* time passes.  Nobody is obliged to read or write.                       *)
Fairness ==
    /\ WF_vars(Tick)
    /\ \A w \in Writers : WF_vars(WriterStep(w))
    /\ \A r \in Readers : WF_vars(Join(r))
    /\ \A i \in Instances : WF_vars(FlightStep(i))

FairSpec == Spec /\ Fairness

-----------------------------------------------------------------------------
(* No writer is between its commit and its invalidation. *)
Settled == \A w \in Writers : writer[w] = "idle"

(* Stale: the key answers reads with an older row than the committed one.  *)
Stale == Hit(cache) /\ cache.version < db.version

(* Once an invalidation has been written, no slower flight on any instance *)
(* puts back what was committed before it (guardedSet against every        *)
(* interleaving of loads, writes and failures).  Holds while entries       *)
(* outlive flights and Valkey keeps them.                                  *)
NoOldFill == Hit(cache) => cache.version >= fence

(* A read sees every write invalidated before its own Get when that        *)
(* answered, or before the flight that served it began.  One that joined   *)
(* the flight of another call may miss a write invalidated before it       *)
(* began, but none invalidated a load timeout earlier (callGroup.Do).      *)
ReadsSeeInvalidated == unseen = {}

(* When every write has reported back, what the cache answers is what is   *)
(* committed (Update, Delete and CreateOrder invalidate after the store).  *)
CoherentWhenSettled == Settled => ~Stale

(* A missed invalidation is the only way to that: once every write has     *)
(* been followed by one, or by one of a later write, no flight, failed     *)
(* read, expiry or other writer leaves an older row behind (invalidate,    *)
(* guardedSet).                                                            *)
SettledIsFresh == Settled /\ ~missed => ~Stale

(* Whatever fails, the cache does not stay stale: once the writes are over *)
(* it comes to agree with the store for good (entry stale until TTL).      *)
EventuallyCoherent == <>[]~Stale

(* No FindByID waits for ever, not even for a flight another call started. *)
ReadsFinish == \A r \in Readers : reader[r] = "waiting" ~> reader[r] = "idle"

=============================================================================
