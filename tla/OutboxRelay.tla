----------------------------- MODULE OutboxRelay -----------------------------
(***************************************************************************)
(* The relays that move committed outbox rows to the broker:               *)
(* internal/outbox (Run), internal/store/outbox.go (DrainBatch),           *)
(* internal/bus (Publish) and internal/pg/listener.go (Await).  Each       *)
(* instance of the program runs one.  A batch is one transaction: its row  *)
(* locks are the claim, and what it writes is seen only if it commits.     *)
(***************************************************************************)
EXTENDS Naturals, FiniteSets

CONSTANTS
    Relays,         \* the relay of each instance
    Ids,            \* outbox ids the writers draw
    BatchSize,      \* OUTBOX_BATCH_SIZE
    MaxAttempts,    \* OUTBOX_MAX_ATTEMPTS
    MaxFaults       \* bound on the faults

ASSUME IdsAssumption == Ids \subseteq Nat /\ IsFiniteSet(Ids)
ASSUME BatchAssumption == BatchSize \in Nat \ {0}
ASSUME AttemptsAssumption == MaxAttempts \in Nat \ {0}
ASSUME FaultsAssumption == MaxFaults \in Nat

VARIABLES
    outbox,     \* ids of the committed rows of table outbox
    attempts,   \* column attempts of a row, kept here after the row is gone
    due,        \* next_attempt_at <= now(), of a row
    dead,       \* table outbox_dead: id and attempts
    pc,         \* where the Run loop of each relay is
    batch,      \* the rows a relay has claimed, with the attempts it read
    sent,       \* of those, the ones publishBatch counts as sent
    failed,     \* and the ones the broker refused
    stopped,    \* a transient error ended the batch
    listening,  \* the LISTEN connection of a relay is open
    inbox,      \* notifications buffered on that connection
    written,    \* history: ids ever committed by a writer
    taken,      \* history: how often the broker took the message of an id
    refused,    \* history: how often it refused it
    faults      \* history: transient errors, lost transactions and restarts

table == <<outbox, attempts, due, dead>>
drain == <<batch, sent, failed, stopped>>
listener == <<listening, inbox>>
history == <<written, taken, refused, faults>>
vars == <<table, pc, drain, listener, history>>

-----------------------------------------------------------------------------
(* drain: about to call DrainBatch; publish: in publishBatch; settle:      *)
(* about to write the outcome; await: in Listener.Await; pause: in pause,  *)
(* deaf to NOTIFY; down: the process is not running.                       *)
States == {"down", "drain", "publish", "settle", "await", "pause"}

Batch == UNION {[S -> 0 .. MaxAttempts] : S \in SUBSET Ids}

NoBatch == [e \in {} |-> 0]

Held(r) == DOMAIN batch[r]

TypeOK ==
    /\ outbox \subseteq Ids
    /\ attempts \in [Ids -> 0 .. MaxAttempts]
    /\ due \in [Ids -> BOOLEAN]
    /\ dead \subseteq [id : Ids, attempts : Nat]
    /\ pc \in [Relays -> States]
    /\ batch \in [Relays -> Batch]
    /\ sent \in [Relays -> SUBSET Ids]
    /\ failed \in [Relays -> SUBSET Ids]
    /\ stopped \in [Relays -> BOOLEAN]
    /\ listening \in [Relays -> BOOLEAN]
    /\ inbox \in [Relays -> Nat]
    /\ written \subseteq Ids
    /\ taken \in [Ids -> Nat]
    /\ refused \in [Ids -> Nat]
    /\ faults \in Nat

Init ==
    /\ outbox = {} /\ dead = {} /\ written = {}
    /\ attempts = [e \in Ids |-> 0]
    /\ due = [e \in Ids |-> TRUE]
    /\ pc = [r \in Relays |-> "drain"]
    /\ batch = [r \in Relays |-> NoBatch]
    /\ sent = [r \in Relays |-> {}]
    /\ failed = [r \in Relays |-> {}]
    /\ stopped = [r \in Relays |-> FALSE]
    /\ listening = [r \in Relays |-> FALSE]
    /\ inbox = [r \in Relays |-> 0]
    /\ taken = [e \in Ids |-> 0]
    /\ refused = [e \in Ids |-> 0]
    /\ faults = 0

-----------------------------------------------------------------------------
(* A writer's transaction commits with the row that insertOutbox added,    *)
(* and pg_notify reaches the connections that listen by then.  Ids are     *)
(* drawn before the commit, so they appear in any order.                   *)
Write(e) ==
    /\ e \notin written
    /\ written' = written \cup {e}
    /\ outbox' = outbox \cup {e}
    /\ inbox' = [r \in Relays |-> IF listening[r] THEN inbox[r] + 1 ELSE 0]
    /\ UNCHANGED <<attempts, due, dead, pc, drain, listening, taken, refused, faults>>

(* The backoff of a row is over. *)
ComeDue(e) ==
    /\ e \in outbox /\ ~due[e]
    /\ due' = [due EXCEPT ![e] = TRUE]
    /\ UNCHANGED <<outbox, attempts, dead, pc, drain, listener, history>>

-----------------------------------------------------------------------------
(* DrainBatch.                                                             *)

Locked == UNION {Held(r) : r \in Relays}

(* Mutant: FOR UPDATE SKIP LOCKED is missing. *)
ClaimableLocked == {e \in outbox : due[e]}

(* queryClaimOutbox: due rows that no transaction holds (SKIP LOCKED). *)
Claimable == {e \in outbox : due[e]} \ Locked

(* ORDER BY id LIMIT: the lowest ids, as many as the batch holds. *)
Lowest(S) ==
    {e \in S : Cardinality({f \in S : f < e}) < BatchSize}

Claim(r) ==
    /\ pc[r] = "drain"
    /\ Claimable # {}
    /\ pc' = [pc EXCEPT ![r] = "publish"]
    /\ batch' = [batch EXCEPT ![r] = [e \in Lowest(Claimable) |-> attempts[e]]]
    /\ UNCHANGED <<table, sent, failed, stopped, listener, history>>

(* Nothing is due: the loop goes to its wait. *)
ClaimNothing(r) ==
    /\ pc[r] = "drain"
    /\ Claimable = {}
    /\ pc' = [pc EXCEPT ![r] = "await"]
    /\ UNCHANGED <<table, drain, listener, history>>

(* publishBatch goes through the batch in order. *)
Unpublished(r) == Held(r) \ (sent[r] \cup failed[r])

Publishing(r, e) ==
    /\ pc[r] = "publish"
    /\ e \in Unpublished(r)
    /\ \A f \in Unpublished(r) : e <= f

(* Where the relay is when e was not the reason to stop. *)
AfterPublish(r, e) == IF Unpublished(r) = {e} THEN "settle" ELSE "publish"

(* How the broker settles a message, or the client finds no address.       *)
Outcomes == {"accepted", "released", "rejected", "modified", "no address"}

(* outcomeErr and Publish: released, no queue being bound, is a success;   *)
(* every other settlement is ErrUndeliverable.                             *)
Undeliverable(outcome) == outcome \notin {"accepted", "released"}

PublishSettled(r, e, outcome) ==
    /\ Publishing(r, e)
    /\ pc' = [pc EXCEPT ![r] = AfterPublish(r, e)]
    /\ IF Undeliverable(outcome)
       THEN /\ failed' = [failed EXCEPT ![r] = @ \cup {e}]
            /\ refused' = [refused EXCEPT ![e] = @ + 1]
            /\ UNCHANGED <<sent, taken>>
       ELSE /\ sent' = [sent EXCEPT ![r] = @ \cup {e}]
            /\ taken' = [taken EXCEPT ![e] = @ + 1]
            /\ UNCHANGED <<failed, refused>>
    /\ UNCHANGED <<table, batch, stopped, listener, written, faults>>

Fault == faults < MaxFaults /\ faults' = faults + 1

(* A timeout or a broken connection: the broker may have the message or    *)
(* not, and the rest of the batch is not tried.                            *)
PublishFails(r, e, arrived) ==
    /\ Publishing(r, e)
    /\ Fault
    /\ pc' = [pc EXCEPT ![r] = "settle"]
    /\ stopped' = [stopped EXCEPT ![r] = TRUE]
    /\ taken' = IF arrived THEN [taken EXCEPT ![e] = @ + 1] ELSE taken
    /\ UNCHANGED <<table, batch, sent, failed, listener, written, refused>>

(* Mutants: poison rows are never given up, or one attempt too late. *)
PoisonedNever(r) == {}
PoisonedLate(r) == {e \in failed[r] : batch[r][e] >= MaxAttempts}

(* classifyFailures, over the attempts read with the claim. *)
Poisoned(r) == {e \in failed[r] : batch[r][e] + 1 >= MaxAttempts}
(* Mutant: every row of the batch that was not sent is bumped. *)
BumpedUnsent(r) == Held(r) \ (sent[r] \cup Poisoned(r))

Bumped(r) == failed[r] \ Poisoned(r)

(* Mutant: the whole batch is deleted. *)
SettleBatch(r) ==
    /\ outbox' = outbox \ Held(r)
    /\ attempts' = attempts
    /\ due' = due
    /\ dead' = dead

(* deleteOutbox, bumpAttempts and deadLetter. *)
Settle(r) ==
    /\ outbox' = outbox \ (sent[r] \cup Poisoned(r))
    /\ attempts' = [e \in Ids |->
            IF e \in Bumped(r) THEN attempts[e] + 1 ELSE attempts[e]]
    /\ due' = [e \in Ids |-> due[e] /\ e \notin Bumped(r)]
    /\ dead' = dead \cup {[id |-> e, attempts |-> batch[r][e] + 1] : e \in Poisoned(r)}

(* The transaction of r is over and its locks are free. *)
EndBatch(r) ==
    /\ batch' = [batch EXCEPT ![r] = NoBatch]
    /\ sent' = [sent EXCEPT ![r] = {}]
    /\ failed' = [failed EXCEPT ![r] = {}]
    /\ stopped' = [stopped EXCEPT ![r] = FALSE]

(* Run after DrainBatch: back off after an error, drain again after a full *)
(* claim, otherwise wait.                                                  *)
AfterDrain(r) ==
    IF stopped[r] THEN "pause"
    ELSE IF Cardinality(Held(r)) = BatchSize THEN "drain" ELSE "await"

Commit(r) ==
    /\ pc[r] = "settle"
    /\ Settle(r)
    /\ EndBatch(r)
    /\ pc' = [pc EXCEPT ![r] = AfterDrain(r)]
    /\ UNCHANGED <<listener, history>>

(* The COMMIT took effect and its answer was lost: Run sees an error. *)
CommitUnanswered(r) ==
    /\ pc[r] = "settle"
    /\ Fault
    /\ Settle(r)
    /\ EndBatch(r)
    /\ pc' = [pc EXCEPT ![r] = "pause"]
    /\ UNCHANGED <<listener, written, taken, refused>>

(* Begin, the claim, a settling statement or COMMIT fails: rollback. *)
DrainFails(r) ==
    /\ pc[r] \in {"drain", "settle"}
    /\ Fault
    /\ EndBatch(r)
    /\ pc' = [pc EXCEPT ![r] = "pause"]
    /\ UNCHANGED <<table, listener, written, taken, refused>>

(* The process ends, by cancellation or a crash, anywhere in its loop.     *)
(* PostgreSQL rolls back; Close ends the LISTEN connection.                *)
Stop(r) ==
    /\ pc[r] # "down"
    /\ Fault
    /\ EndBatch(r)
    /\ pc' = [pc EXCEPT ![r] = "down"]
    /\ listening' = [listening EXCEPT ![r] = FALSE]
    /\ inbox' = [inbox EXCEPT ![r] = 0]
    /\ UNCHANGED <<table, written, taken, refused>>

Start(r) ==
    /\ pc[r] = "down"
    /\ pc' = [pc EXCEPT ![r] = "drain"]
    /\ UNCHANGED <<table, drain, listener, history>>

-----------------------------------------------------------------------------
(* Await and the waits of Run.                                             *)

(* acquire: the first wait opens the connection; what was notified before  *)
(* is missed.                                                              *)
Listen(r) ==
    /\ pc[r] = "await" /\ ~listening[r]
    /\ listening' = [listening EXCEPT ![r] = TRUE]
    /\ UNCHANGED <<table, pc, drain, inbox, history>>

Notified(r) ==
    /\ pc[r] = "await" /\ listening[r] /\ inbox[r] > 0
    /\ inbox' = [inbox EXCEPT ![r] = @ - 1]
    /\ pc' = [pc EXCEPT ![r] = "drain"]
    /\ UNCHANGED <<table, drain, listening, history>>

(* Mutant: only a notification ends the wait. *)
PollTickIgnored(r) ==
    /\ pc[r] = "await" /\ listening[r] /\ inbox[r] = 0
    /\ UNCHANGED vars

(* PollInterval passed without a notification. *)
PollTick(r) ==
    /\ pc[r] = "await" /\ listening[r] /\ inbox[r] = 0
    /\ pc' = [pc EXCEPT ![r] = "drain"]
    /\ UNCHANGED <<table, drain, listener, history>>

(* acquire fails, or the wait does and releases the connection: wait       *)
(* sleeps the interval out instead.                                        *)
ListenFails(r) ==
    /\ pc[r] = "await"
    /\ listening' = [listening EXCEPT ![r] = FALSE]
    /\ inbox' = [inbox EXCEPT ![r] = 0]
    /\ pc' = [pc EXCEPT ![r] = "pause"]
    /\ UNCHANGED <<table, drain, history>>

PauseEnds(r) ==
    /\ pc[r] = "pause"
    /\ pc' = [pc EXCEPT ![r] = "drain"]
    /\ UNCHANGED <<table, drain, listener, history>>

-----------------------------------------------------------------------------
Publish(r) ==
    \E e \in Ids :
        \/ \E outcome \in Outcomes : PublishSettled(r, e, outcome)
        \/ \E arrived \in BOOLEAN : PublishFails(r, e, arrived)

Work(r) ==
    \/ Claim(r) \/ ClaimNothing(r) \/ Publish(r) \/ Commit(r) \/ Start(r)
    \/ Listen(r) \/ Notified(r) \/ PollTick(r) \/ PauseEnds(r)

(* What no relay is bound to meet. *)
Mishap(r) == CommitUnanswered(r) \/ DrainFails(r) \/ ListenFails(r) \/ Stop(r)

Next ==
    \/ \E e \in Ids : Write(e) \/ ComeDue(e)
    \/ \E r \in Relays : Work(r) \/ Mishap(r)

Spec == Init /\ [][Next]_vars

(* A relay that can run does: every wait in its loop has a timeout and a   *)
(* stopped process is started again.  Backoffs end.                        *)
Fairness ==
    /\ \A e \in Ids : WF_vars(ComeDue(e))
    /\ \A r \in Relays : WF_vars(Work(r))

FairSpec == Spec /\ Fairness

-----------------------------------------------------------------------------
DeadIds == {d.id : d \in dead}

(* The abstract outbox that the relays implement. *)
D == INSTANCE Delivery WITH
        pending <- outbox,
        delivered <- {e \in Ids : taken[e] > 0},
        dead <- DeadIds

(* At-least-once: whatever crashes, lost commits and other relays do, each *)
(* step of them is a step of the abstract outbox: a row only leaves it     *)
(* delivered or dead-lettered, is never both dead and pending, and only    *)
(* committed rows are ever sent (deleteOutbox, deadLetter, DrainBatch).    *)
ImplementsDelivery == D!Spec

(* Only a fault repeats a message: without one no two relays and no two    *)
(* batches publish the same row (SKIP LOCKED, publish and delete in one    *)
(* transaction).                                                           *)
RepeatsNeedFaults == \A e \in Ids : taken[e] <= 1 + faults

(* Transient failures never consume attempts, and refusals that commit     *)
(* always do: a row's attempts are the broker's refusals of it, short only *)
(* of those whose transaction was lost or still runs.                      *)
AttemptsAreRefusals ==
    \A e \in outbox :
        LET running == Cardinality({r \in Relays : e \in failed[r]})
        IN  attempts[e] <= refused[e] /\ refused[e] <= attempts[e] + faults + running

(* A row is dead-lettered at MaxAttempts refusals, not before and not      *)
(* after, also when relays take turns on it (classifyFailures).            *)
DeadAtMaxAttempts ==
    /\ \A d \in dead : d.attempts = MaxAttempts /\ refused[d.id] >= MaxAttempts
    /\ \A e \in outbox : attempts[e] < MaxAttempts

(* Once faults stop, every committed event leaves the outbox: no lost      *)
(* notification, poison row or dead listener strands it (Run, Await).      *)
EventuallySettled == \A e \in Ids : e \in written ~> e \notin outbox

=============================================================================
