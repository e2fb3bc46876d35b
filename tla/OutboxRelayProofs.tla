-------------------------- MODULE OutboxRelayProofs --------------------------
(***************************************************************************)
(* Machine-checked proofs about OutboxRelay: what the row locks of a batch *)
(* give (ClaimInv), what the columns and the broker's counts say of each   *)
(* other (CountInv), and that the relays implement Delivery.               *)
(***************************************************************************)
EXTENDS OutboxRelay, FiniteSetTheorems, TLAPS

(* The rows a relay holds are pending rows with the attempts it read, in   *)
(* its batch and in no other; sent and failed part the tried ones.         *)
ClaimInv ==
    /\ \A r \in Relays :
        /\ Held(r) \subseteq outbox
        /\ \A e \in Held(r) : batch[r][e] = attempts[e]
        /\ sent[r] \subseteq Held(r) /\ failed[r] \subseteq Held(r)
        /\ sent[r] \cap failed[r] = {}
        /\ pc[r] \notin {"publish", "settle"} => Held(r) = {}
    /\ \A r, q \in Relays : r # q => Held(r) \cap Held(q) = {}

(* Nothing happens to an id before its row is committed, and no dead id is *)
(* pending.                                                                *)
RowInv ==
    /\ outbox \subseteq written
    /\ \A e \in Ids \ written : attempts[e] = 0 /\ taken[e] = 0 /\ refused[e] = 0
    /\ \A d \in dead : d.id \in written \ outbox

Sent(e) == \E r \in Relays : e \in sent[r]
Failed(e) == \E r \in Relays : e \in failed[r]

(* What the broker did with a row, against what the row and the relays     *)
(* know of it.                                                             *)
CountInv ==
    /\ \A e \in Ids : taken[e] <= 1 + faults /\ attempts[e] <= refused[e]
    /\ \A e \in Ids : Sent(e) => taken[e] > 0
    /\ \A e \in Ids : Failed(e) => attempts[e] + 1 <= refused[e]
    /\ \A e \in outbox :
        /\ attempts[e] < MaxAttempts
        /\ ~Sent(e) => taken[e] <= faults
        /\ refused[e] <= attempts[e] + faults + 1
        /\ ~Failed(e) => refused[e] <= attempts[e] + faults
    /\ \A d \in dead : d.attempts = MaxAttempts /\ refused[d.id] >= MaxAttempts

RelayInv == TypeOK /\ ClaimInv /\ RowInv /\ CountInv

-----------------------------------------------------------------------------
(* A relay that waits, wakes up or starts touches no row and no batch.     *)
Idle(r) ==
    /\ pc[r] \in {"down", "drain", "await", "pause"}
    /\ \E s \in {"drain", "await", "pause"} : pc' = [pc EXCEPT ![r] = s]
    /\ listening' \in [Relays -> BOOLEAN] /\ inbox' \in [Relays -> Nat]
    /\ UNCHANGED <<table, drain, history>>

(* The waits of Run and Await are such steps.                              *)
LEMMA IdleSteps ==
    ASSUME TypeOK, NEW r \in Relays,
           \/ ClaimNothing(r) \/ Start(r) \/ Listen(r) \/ Notified(r)
           \/ PollTick(r) \/ PauseEnds(r) \/ ListenFails(r)
    PROVE  Idle(r)
<1>1. ASSUME ClaimNothing(r) \/ Start(r) \/ PollTick(r) \/ PauseEnds(r) PROVE Idle(r)
    BY <1>1 DEF ClaimNothing, Start, PollTick, PauseEnds, Idle, TypeOK, listener
<1>2. ASSUME Listen(r) PROVE Idle(r)
    <2>1. pc' = [pc EXCEPT ![r] = "await"]
        BY <1>2 DEF Listen, TypeOK
    <2> QED
        BY <1>2, <2>1 DEF Listen, Idle, TypeOK
<1>3. ASSUME Notified(r) PROVE Idle(r)
    BY <1>3 DEF Notified, Idle, TypeOK
<1>4. ASSUME ListenFails(r) PROVE Idle(r)
    BY <1>4 DEF ListenFails, Idle, TypeOK
<1> QED
    BY <1>1, <1>2, <1>3, <1>4

(* A rollback, a crash and a failed claim give up the batch of a relay,    *)
(* count as a fault, and change nothing that is committed.                 *)
GiveUp(r) ==
    /\ Fault
    /\ EndBatch(r)
    /\ \E s \in {"down", "pause"} : pc' = [pc EXCEPT ![r] = s]
    /\ listening' \in [Relays -> BOOLEAN] /\ inbox' \in [Relays -> Nat]
    /\ UNCHANGED <<table, written, taken, refused>>

(* DrainFails and Stop are such steps.                                     *)
LEMMA GiveUpSteps ==
    ASSUME TypeOK, NEW r \in Relays, DrainFails(r) \/ Stop(r)
    PROVE  GiveUp(r)
<1>1. ASSUME DrainFails(r) PROVE GiveUp(r)
    BY <1>1 DEF DrainFails, GiveUp, TypeOK, listener
<1>2. ASSUME Stop(r) PROVE GiveUp(r)
    BY <1>2 DEF Stop, GiveUp, TypeOK
<1> QED
    BY <1>1, <1>2

(* A batch that ends with its outcome committed, answered or not.          *)
Settled(r) ==
    /\ pc[r] = "settle"
    /\ Settle(r)
    /\ EndBatch(r)
    /\ \E s \in {"drain", "await", "pause"} : pc' = [pc EXCEPT ![r] = s]
    /\ faults' \in Nat /\ faults' >= faults
    /\ UNCHANGED <<listener, written, taken, refused>>

(* Commit and CommitUnanswered are such steps.                             *)
LEMMA SettledSteps ==
    ASSUME TypeOK, NEW r \in Relays, Commit(r) \/ CommitUnanswered(r)
    PROVE  Settled(r)
<1>1. faults' \in Nat /\ faults' >= faults
    BY DEF Commit, CommitUnanswered, Fault, history, TypeOK
<1> QED
    BY <1>1 DEF Commit, CommitUnanswered, AfterDrain, Settled, history

(* The steps of the relays, sorted by what they do to rows and batches.    *)
LEMMA RelaySteps ==
    ASSUME TypeOK, Next
    PROVE  \/ \E e \in Ids : Write(e) \/ ComeDue(e)
           \/ \E r \in Relays :
                \/ Idle(r) \/ GiveUp(r) \/ Settled(r) \/ Claim(r)
                \/ \E e \in Ids :
                    \/ \E outcome \in Outcomes : PublishSettled(r, e, outcome)
                    \/ \E arrived \in BOOLEAN : PublishFails(r, e, arrived)
BY IdleSteps, GiveUpSteps, SettledSteps DEF Next, Work, Mishap, Publish

-----------------------------------------------------------------------------
(* The initial state satisfies the invariant.                              *)
LEMMA InitInv == Init => RelayInv
<1> SUFFICES ASSUME Init PROVE RelayInv
    OBVIOUS
<1>1. NoBatch \in Batch /\ DOMAIN NoBatch = {}
    BY DEF NoBatch, Batch
<1>2. TypeOK
    BY <1>1, AttemptsAssumption DEF Init, TypeOK, States
<1>3. ClaimInv
    BY <1>1 DEF Init, ClaimInv, Held
<1>4. RowInv
    BY DEF Init, RowInv
<1>5. CountInv
    BY AttemptsAssumption DEF Init, CountInv, Sent, Failed
<1> QED
    BY <1>2, <1>3, <1>4, <1>5 DEF RelayInv

(* A step that leaves rows, batches and history alone, whatever it does to *)
(* the listeners or to due.                                                *)
LEMMA FrameInv ==
    ASSUME RelayInv, TypeOK', ClaimInv',
           UNCHANGED <<outbox, attempts, dead, sent, failed, written, taken, refused, faults>>
    PROVE  RelayInv'
BY DEF RelayInv, RowInv, CountInv, Sent, Failed

(* An idle step preserves the invariant.                                   *)
LEMMA IdleInv ==
    ASSUME RelayInv, NEW r \in Relays, Idle(r)
    PROVE  RelayInv'
<1>1. TypeOK'
    BY DEF RelayInv, TypeOK, Idle, States, table, drain, history
<1>2. ClaimInv'
    BY DEF RelayInv, TypeOK, ClaimInv, Held, Idle, table, drain
<1> QED
    BY <1>1, <1>2, FrameInv DEF Idle, table, drain, history

(* A row that comes due preserves the invariant.                           *)
LEMMA ComeDueInv ==
    ASSUME RelayInv, NEW e \in Ids, ComeDue(e)
    PROVE  RelayInv'
<1>1. TypeOK'
    BY DEF RelayInv, TypeOK, ComeDue, drain, listener, history
<1>2. ClaimInv'
    BY DEF RelayInv, ClaimInv, Held, ComeDue, drain
<1> QED
    BY <1>1, <1>2, FrameInv DEF ComeDue, drain, history

(* A stuttering step preserves the invariant.                              *)
LEMMA StutterInv ==
    ASSUME RelayInv, UNCHANGED vars
    PROVE  RelayInv'
<1>1. TypeOK'
    BY DEF RelayInv, TypeOK, vars, table, drain, listener, history
<1>2. ClaimInv'
    BY DEF RelayInv, ClaimInv, Held, vars, table, drain
<1> QED
    BY <1>1, <1>2, FrameInv DEF vars, table, drain, history

(* A committed row starts with every count at zero and in no batch.        *)
LEMMA WriteInv ==
    ASSUME RelayInv, NEW e \in Ids, Write(e)
    PROVE  RelayInv'
<1>1. TypeOK'
    BY DEF RelayInv, TypeOK, Write, drain
<1>2. ClaimInv'
    BY DEF RelayInv, ClaimInv, Held, Write, drain
<1>3. RowInv'
    BY DEF RelayInv, TypeOK, RowInv, Write
<1>4. CountInv'
    <2>1. attempts[e] = 0 /\ taken[e] = 0 /\ refused[e] = 0 /\ faults \in Nat
        BY DEF RelayInv, TypeOK, RowInv, Write
    <2> QED
        BY <2>1, AttemptsAssumption
        DEF RelayInv, TypeOK, CountInv, Sent, Failed, Write, drain
<1> QED
    BY <1>1, <1>2, <1>3, <1>4 DEF RelayInv

(* A claim takes due rows that nobody holds (SKIP LOCKED), into a batch    *)
(* that was empty.                                                         *)
LEMMA ClaimStepInv ==
    ASSUME RelayInv, NEW r \in Relays, Claim(r)
    PROVE  RelayInv'
<1> DEFINE S == Lowest(Claimable)
<1>1. /\ S \subseteq outbox /\ S \subseteq Ids
      /\ \A q \in Relays : Held(q) \cap S = {}
    BY DEF Lowest, Claimable, Locked, RelayInv, TypeOK
<1>2. [e \in S |-> attempts[e]] \in Batch
    BY <1>1 DEF Batch, RelayInv, TypeOK
<1>3. /\ Held(r)' = S
      /\ \A q \in Relays : q # r => batch'[q] = batch[q]
      /\ \A e \in S : batch'[r][e] = attempts[e]
    BY DEF Claim, Held, RelayInv, TypeOK
<1>4. TypeOK'
    BY <1>2 DEF RelayInv, TypeOK, Claim, States, table, listener, history
<1>5. ClaimInv'
    <2>1. Held(r) = {} /\ sent[r] = {} /\ failed[r] = {}
        BY DEF RelayInv, ClaimInv, Claim
    <2>2. UNCHANGED <<outbox, attempts, sent, failed>>
        BY DEF Claim, table
    <2>3. ASSUME NEW q \in Relays
          PROVE  /\ Held(q)' \subseteq outbox
                 /\ \A e \in Held(q)' : batch'[q][e] = attempts[e]
                 /\ sent[q] \subseteq Held(q)' /\ failed[q] \subseteq Held(q)'
                 /\ sent[q] \cap failed[q] = {}
                 /\ pc'[q] \notin {"publish", "settle"} => Held(q)' = {}
        <3>1. CASE q = r
            BY <1>1, <1>3, <2>1, <3>1 DEF Claim, RelayInv, TypeOK
        <3>2. CASE q # r
            <4>1. Held(q)' = Held(q) /\ pc'[q] = pc[q]
                BY <1>3, <3>2 DEF Held, Claim, RelayInv, TypeOK
            <4> QED
                BY <1>3, <3>2, <4>1 DEF RelayInv, ClaimInv
        <3> QED
            BY <3>1, <3>2
    <2>4. ASSUME NEW p \in Relays, NEW q \in Relays, p # q
          PROVE  Held(p)' \cap Held(q)' = {}
        BY <1>1, <1>3, <2>4 DEF RelayInv, ClaimInv, Held
    <2> QED
        BY <2>2, <2>3, <2>4 DEF ClaimInv
<1> QED
    BY <1>4, <1>5, FrameInv DEF Claim, table, history

(* The row a relay is publishing is pending, its own, and not yet tried by *)
(* anybody in this batch.                                                  *)
LEMMA PublishingRow ==
    ASSUME RelayInv, NEW r \in Relays, NEW e \in Ids, Publishing(r, e)
    PROVE  /\ e \in Held(r) /\ e \in outbox /\ e \in written
           /\ ~Sent(e) /\ ~Failed(e)
           /\ taken[e] <= faults /\ refused[e] <= attempts[e] + faults
<1>1. e \in Held(r) /\ e \notin sent[r] /\ e \notin failed[r]
    BY DEF Publishing, Unpublished
<1>2. \A q \in Relays : q # r => e \notin sent[q] /\ e \notin failed[q]
    BY <1>1 DEF RelayInv, ClaimInv
<1> QED
    BY <1>1, <1>2 DEF RelayInv, ClaimInv, RowInv, CountInv, Sent, Failed

(* The broker took the message: it counts as sent.                         *)
LEMMA AcceptedInv ==
    ASSUME RelayInv, NEW r \in Relays, NEW e \in Ids, NEW outcome \in Outcomes,
           PublishSettled(r, e, outcome), ~Undeliverable(outcome)
    PROVE  RelayInv'
<1>1. /\ sent' = [sent EXCEPT ![r] = @ \cup {e}]
      /\ taken' = [taken EXCEPT ![e] = @ + 1]
      /\ \E s \in {"publish", "settle"} : pc' = [pc EXCEPT ![r] = s]
      /\ UNCHANGED <<outbox, attempts, due, dead, batch, failed, stopped,
                     listening, inbox, written, refused, faults>>
    BY DEF PublishSettled, AfterPublish, table, listener
<1>2. /\ e \in Held(r) /\ e \in outbox /\ e \in written /\ e \notin failed[r]
      /\ ~Sent(e) /\ ~Failed(e) /\ taken[e] <= faults
    BY PublishingRow DEF PublishSettled, Failed
<1>3. TypeOK'
    BY <1>1 DEF RelayInv, TypeOK, States
<1>4. ClaimInv'
    BY <1>1, <1>2 DEF RelayInv, TypeOK, ClaimInv, Held, PublishSettled, Publishing
<1>5. RowInv'
    BY <1>1, <1>2 DEF RelayInv, TypeOK, RowInv
<1>6. CountInv'
    <2>1. \A f \in Ids : Sent(f)' <=> (f = e \/ Sent(f))
        BY <1>1 DEF Sent, RelayInv, TypeOK
    <2>2. \A f \in Ids : Failed(f)' <=> Failed(f)
        BY <1>1 DEF Failed
    <2>3. /\ taken[e] \in Nat /\ taken'[e] = taken[e] + 1
          /\ \A f \in Ids : f # e => taken'[f] = taken[f]
        BY <1>1 DEF RelayInv, TypeOK
    <2> QED
        BY <1>1, <1>2, <2>1, <2>2, <2>3 DEF RelayInv, TypeOK, CountInv
<1> QED
    BY <1>3, <1>4, <1>5, <1>6 DEF RelayInv

(* The broker refused the message: it counts as failed.                    *)
LEMMA RefusedInv ==
    ASSUME RelayInv, NEW r \in Relays, NEW e \in Ids, NEW outcome \in Outcomes,
           PublishSettled(r, e, outcome), Undeliverable(outcome)
    PROVE  RelayInv'
<1>1. /\ failed' = [failed EXCEPT ![r] = @ \cup {e}]
      /\ refused' = [refused EXCEPT ![e] = @ + 1]
      /\ \E s \in {"publish", "settle"} : pc' = [pc EXCEPT ![r] = s]
      /\ UNCHANGED <<outbox, attempts, due, dead, batch, sent, stopped,
                     listening, inbox, written, taken, faults>>
    BY DEF PublishSettled, AfterPublish, table, listener
<1>2. /\ e \in Held(r) /\ e \in outbox /\ e \in written /\ e \notin sent[r]
      /\ ~Sent(e) /\ ~Failed(e) /\ refused[e] <= attempts[e] + faults
    BY PublishingRow DEF PublishSettled, Sent
<1>3. TypeOK'
    BY <1>1 DEF RelayInv, TypeOK, States
<1>4. ClaimInv'
    BY <1>1, <1>2 DEF RelayInv, TypeOK, ClaimInv, Held, PublishSettled, Publishing
<1>5. RowInv'
    BY <1>1, <1>2 DEF RelayInv, TypeOK, RowInv
<1>6. CountInv'
    <2>1. \A f \in Ids : Failed(f)' <=> (f = e \/ Failed(f))
        BY <1>1 DEF Failed, RelayInv, TypeOK
    <2>2. \A f \in Ids : Sent(f)' <=> Sent(f)
        BY <1>1 DEF Sent
    <2>3. /\ refused[e] \in Nat /\ refused'[e] = refused[e] + 1
          /\ \A f \in Ids : f # e => refused'[f] = refused[f]
        BY <1>1 DEF RelayInv, TypeOK
    <2>4. \A f \in Ids : refused[f] \in Nat /\ attempts[f] \in Nat /\ taken[f] \in Nat
        BY DEF RelayInv, TypeOK
    <2>5. \A d \in dead : d.id \in Ids
        BY DEF RelayInv, TypeOK
    <2> QED
        BY <1>1, <1>2, <2>1, <2>2, <2>3, <2>4, <2>5, AttemptsAssumption
        DEF RelayInv, TypeOK, CountInv
<1> QED
    BY <1>3, <1>4, <1>5, <1>6 DEF RelayInv

(* A transient error may have delivered the message and is a fault.        *)
LEMMA PublishFailsInv ==
    ASSUME RelayInv, NEW r \in Relays, NEW e \in Ids, NEW arrived \in BOOLEAN,
           PublishFails(r, e, arrived)
    PROVE  RelayInv'
<1>1. /\ pc' = [pc EXCEPT ![r] = "settle"] /\ stopped' = [stopped EXCEPT ![r] = TRUE]
      /\ faults' = faults + 1
      /\ UNCHANGED <<outbox, attempts, due, dead, batch, sent, failed,
                     listening, inbox, written, refused>>
    BY DEF PublishFails, Fault, table, listener
<1>2. taken' = taken \/ taken' = [taken EXCEPT ![e] = @ + 1]
    BY DEF PublishFails
<1>3. e \in outbox /\ e \in written /\ taken[e] <= faults
    BY PublishingRow DEF PublishFails
<1>4. TypeOK'
    <2>1. taken' \in [Ids -> Nat]
        BY <1>2 DEF RelayInv, TypeOK
    <2> QED
        BY <1>1, <2>1 DEF RelayInv, TypeOK, States
<1>5. ClaimInv'
    BY <1>1 DEF RelayInv, TypeOK, ClaimInv, Held
<1>6. RowInv'
    BY <1>1, <1>2, <1>3 DEF RelayInv, TypeOK, RowInv
<1>7. CountInv'
    <2>1. \A f \in Ids : (Failed(f)' <=> Failed(f)) /\ (Sent(f)' <=> Sent(f))
        BY <1>1 DEF Failed, Sent
    <2>2. /\ \A f \in Ids : taken[f] \in Nat /\ taken'[f] \in Nat
          /\ \A f \in Ids : f # e => taken'[f] = taken[f]
          /\ taken[e] <= taken'[e] /\ taken'[e] <= taken[e] + 1
        BY <1>2 DEF RelayInv, TypeOK
    <2>3. /\ \A f \in Ids : refused[f] \in Nat /\ attempts[f] \in Nat
          /\ faults \in Nat /\ outbox \subseteq Ids
        BY DEF RelayInv, TypeOK
    <2> QED
        BY <1>1, <1>3, <2>1, <2>2, <2>3 DEF RelayInv, CountInv
<1> QED
    BY <1>4, <1>5, <1>6, <1>7 DEF RelayInv

(* A relay whose batch ends holds nothing; the others hold what they held. *)
LEMMA EndBatchEffect ==
    ASSUME RelayInv, NEW r \in Relays, EndBatch(r)
    PROVE  /\ Held(r)' = {} /\ sent'[r] = {} /\ failed'[r] = {}
           /\ \A q \in Relays \ {r} :
                batch'[q] = batch[q] /\ sent'[q] = sent[q] /\ failed'[q] = failed[q]
           /\ batch' \in [Relays -> Batch]
           /\ sent' \in [Relays -> SUBSET Ids] /\ failed' \in [Relays -> SUBSET Ids]
           /\ stopped' \in [Relays -> BOOLEAN]
<1>1. NoBatch \in Batch /\ DOMAIN NoBatch = {}
    BY DEF NoBatch, Batch
<1> QED
    BY <1>1 DEF EndBatch, Held, RelayInv, TypeOK

(* A batch given up leaves its rows to the next claim; the refusals and    *)
(* deliveries it does not record are paid for by the fault.                *)
LEMMA GiveUpInv ==
    ASSUME RelayInv, NEW r \in Relays, GiveUp(r)
    PROVE  RelayInv'
<1>1. /\ EndBatch(r)
      /\ \E s \in {"down", "pause"} : pc' = [pc EXCEPT ![r] = s]
      /\ faults' = faults + 1
      /\ listening' \in [Relays -> BOOLEAN] /\ inbox' \in [Relays -> Nat]
      /\ UNCHANGED <<outbox, attempts, due, dead, written, taken, refused>>
    BY DEF GiveUp, Fault, table
<1>2. TypeOK'
    <2>1. pc' \in [Relays -> States] /\ faults' \in Nat
        BY <1>1 DEF RelayInv, TypeOK, States
    <2> QED
        BY <1>1, <2>1, EndBatchEffect DEF RelayInv, TypeOK
<1>3. ClaimInv'
    BY <1>1, EndBatchEffect DEF RelayInv, TypeOK, ClaimInv, Held
<1>4. RowInv'
    BY <1>1 DEF RelayInv, RowInv
<1>5. CountInv'
    <2>1. \A f \in Ids : (Failed(f)' => Failed(f)) /\ (Sent(f)' => Sent(f))
        BY <1>1, EndBatchEffect DEF Failed, Sent
    <2>2. /\ \A f \in Ids : refused[f] \in Nat /\ attempts[f] \in Nat /\ taken[f] \in Nat
          /\ faults \in Nat /\ outbox \subseteq Ids
        BY DEF RelayInv, TypeOK
    <2> QED
        BY <1>1, <2>1, <2>2 DEF RelayInv, CountInv
<1> QED
    BY <1>2, <1>3, <1>4, <1>5 DEF RelayInv

(* What a settled batch does to its rows: the sent ones leave, a refused   *)
(* one leaves dead-lettered at its last attempt or stays with one more.    *)
LEMMA SettleEffect ==
    ASSUME RelayInv, NEW r \in Relays, Settle(r)
    PROVE  /\ Poisoned(r) \subseteq failed[r] /\ failed[r] \subseteq Held(r)
           /\ sent[r] \subseteq Held(r) /\ Held(r) \subseteq outbox
           /\ outbox' = outbox \ (sent[r] \cup Poisoned(r))
           /\ \A e \in Poisoned(r) :
                attempts[e] + 1 = MaxAttempts /\ batch[r][e] = attempts[e]
           /\ \A e \in Bumped(r) :
                attempts'[e] = attempts[e] + 1 /\ attempts'[e] < MaxAttempts
           /\ \A e \in Ids \ Bumped(r) : attempts'[e] = attempts[e]
           /\ dead' = dead \cup {[id |-> e, attempts |-> MaxAttempts] : e \in Poisoned(r)}
           /\ attempts' \in [Ids -> 0 .. MaxAttempts] /\ due' \in [Ids -> BOOLEAN]
<1>1. /\ sent[r] \subseteq Held(r) /\ failed[r] \subseteq Held(r)
      /\ Held(r) \subseteq outbox /\ outbox \subseteq Ids
      /\ \A e \in Held(r) : batch[r][e] = attempts[e]
      /\ \A e \in outbox : attempts[e] \in Nat /\ attempts[e] < MaxAttempts
      /\ attempts \in [Ids -> 0 .. MaxAttempts] /\ MaxAttempts \in Nat
    BY AttemptsAssumption DEF RelayInv, TypeOK, ClaimInv, CountInv
<1>2. /\ Poisoned(r) \subseteq failed[r]
      /\ \A e \in Poisoned(r) :
            attempts[e] + 1 = MaxAttempts /\ batch[r][e] = attempts[e]
    BY <1>1 DEF Poisoned
<1>3. \A e \in Bumped(r) : e \in Ids /\ attempts[e] + 1 < MaxAttempts
    BY <1>1 DEF Bumped, Poisoned
<1>4. /\ \A e \in Bumped(r) : attempts'[e] = attempts[e] + 1
      /\ \A e \in Ids \ Bumped(r) : attempts'[e] = attempts[e]
      /\ attempts' \in [Ids -> 0 .. MaxAttempts]
    BY <1>1, <1>3 DEF Settle
<1>5. dead' = dead \cup {[id |-> e, attempts |-> MaxAttempts] : e \in Poisoned(r)}
    <2>1. {[id |-> e, attempts |-> batch[r][e] + 1] : e \in Poisoned(r)}
            = {[id |-> e, attempts |-> MaxAttempts] : e \in Poisoned(r)}
        BY <1>2
    <2> QED
        BY <2>1 DEF Settle
<1>6. due' \in [Ids -> BOOLEAN]
    BY DEF Settle
<1> QED
    BY <1>1, <1>2, <1>3, <1>4, <1>5, <1>6 DEF Settle

(* A settled batch preserves the invariant.                                *)
LEMMA SettledInv ==
    ASSUME RelayInv, NEW r \in Relays, Settled(r)
    PROVE  RelayInv'
<1>1. /\ EndBatch(r) /\ Settle(r)
      /\ \E s \in {"drain", "await", "pause"} : pc' = [pc EXCEPT ![r] = s]
      /\ faults' \in Nat /\ faults' >= faults
      /\ UNCHANGED <<listening, inbox, written, taken, refused>>
    BY DEF Settled, listener
<1>2. TypeOK'
    <2>1. outbox' \subseteq Ids
        BY <1>1, SettleEffect DEF RelayInv, TypeOK
    <2>2. dead' \subseteq [id : Ids, attempts : Nat]
        BY <1>1, SettleEffect, AttemptsAssumption DEF RelayInv, TypeOK
    <2>3. pc' \in [Relays -> States]
        BY <1>1 DEF RelayInv, TypeOK, States
    <2>4. attempts' \in [Ids -> 0 .. MaxAttempts] /\ due' \in [Ids -> BOOLEAN]
        BY <1>1, SettleEffect
    <2> QED
        BY <1>1, <2>1, <2>2, <2>3, <2>4, EndBatchEffect DEF RelayInv, TypeOK
<1>3. ASSUME NEW q \in Relays, q # r
      PROVE  /\ Held(q)' = Held(q) /\ Held(q)' \subseteq outbox'
             /\ \A e \in Held(q) : attempts'[e] = attempts[e]
    <2>1. Held(q)' = Held(q) /\ Held(q) \cap Held(r) = {} /\ Held(q) \subseteq outbox
        BY <1>1, <1>3, EndBatchEffect DEF RelayInv, ClaimInv, Held
    <2>2. Bumped(r) \subseteq Held(r) /\ outbox \subseteq Ids
        BY <1>1, SettleEffect DEF Bumped, RelayInv, TypeOK
    <2> QED
        BY <1>1, <2>1, <2>2, SettleEffect
<1>4. ClaimInv'
    <2>1. ASSUME NEW q \in Relays
          PROVE  /\ Held(q)' \subseteq outbox'
                 /\ \A e \in Held(q)' : batch'[q][e] = attempts'[e]
                 /\ sent'[q] \subseteq Held(q)' /\ failed'[q] \subseteq Held(q)'
                 /\ sent'[q] \cap failed'[q] = {}
                 /\ pc'[q] \notin {"publish", "settle"} => Held(q)' = {}
        <3>1. CASE q = r
            BY <1>1, <3>1, EndBatchEffect
        <3>2. CASE q # r
            <4>1. /\ batch'[q] = batch[q] /\ sent'[q] = sent[q] /\ failed'[q] = failed[q]
                  /\ pc'[q] = pc[q]
                BY <1>1, <3>2, EndBatchEffect DEF RelayInv, TypeOK
            <4> QED
                BY <1>3, <3>2, <4>1 DEF RelayInv, ClaimInv
        <3> QED
            BY <3>1, <3>2
    <2>2. ASSUME NEW p \in Relays, NEW q \in Relays, p # q
          PROVE  Held(p)' \cap Held(q)' = {}
        BY <1>1, <1>3, <2>2, EndBatchEffect DEF RelayInv, ClaimInv
    <2> QED
        BY <2>1, <2>2 DEF ClaimInv
<1>5. RowInv'
    <2>1. \A e \in Ids \ written : attempts'[e] = attempts[e]
        BY <1>1, SettleEffect DEF Bumped, RelayInv, RowInv
    <2>2. \A d \in dead' : d.id \in written \ outbox'
        <3>1. \A e \in Poisoned(r) : e \in written \ outbox'
            BY <1>1, SettleEffect DEF RelayInv, RowInv
        <3> QED
            BY <1>1, <3>1, SettleEffect DEF RelayInv, RowInv
    <2> QED
        BY <1>1, <2>1, <2>2, SettleEffect DEF RelayInv, RowInv
<1>6. CountInv'
    <2>1. /\ \A f \in Ids : refused[f] \in Nat /\ attempts[f] \in Nat /\ taken[f] \in Nat
          /\ faults \in Nat /\ outbox \subseteq Ids
        BY DEF RelayInv, TypeOK
    <2>2. ASSUME NEW e \in Ids
          PROVE  (Sent(e)' => Sent(e)) /\ (Failed(e)' => Failed(e) /\ e \notin Bumped(r))
        <3>1. Sent(e)' => Sent(e)
            BY <1>1, EndBatchEffect DEF Sent
        <3>2. ASSUME NEW q \in Relays, e \in failed'[q]
              PROVE  Failed(e) /\ e \notin Bumped(r)
            <4>1. q # r /\ failed'[q] = failed[q]
                BY <1>1, <3>2, EndBatchEffect
            <4>2. e \notin Held(r)
                BY <3>2, <4>1 DEF RelayInv, ClaimInv
            <4> QED
                BY <1>1, <3>2, <4>1, <4>2, SettleEffect DEF Failed, Bumped
        <3> QED
            BY <3>1, <3>2 DEF Failed
    <2>3. \A e \in outbox' : e \in outbox /\ e \notin sent[r] /\ e \notin Poisoned(r)
        BY <1>1, SettleEffect
    <2>4. \A e \in outbox' : Sent(e) => Sent(e)'
        BY <1>1, <2>3, EndBatchEffect DEF Sent
    <2>5. \A e \in outbox' : Failed(e) => Failed(e)' \/ e \in Bumped(r)
        BY <1>1, <2>3, EndBatchEffect DEF Failed, Bumped
    <2>6. \A e \in Bumped(r) : e \in Ids /\ Failed(e)
        BY <1>1, SettleEffect DEF Bumped, Failed, RelayInv, TypeOK
    <2>7. ASSUME NEW e \in Ids
          PROVE  /\ taken'[e] <= 1 + faults' /\ attempts'[e] <= refused'[e]
                 /\ Sent(e)' => taken'[e] > 0
                 /\ Failed(e)' => attempts'[e] + 1 <= refused'[e]
        <3>1. CASE e \in Bumped(r)
            BY <1>1, <2>1, <2>2, <2>6, <3>1, SettleEffect DEF RelayInv, CountInv
        <3>2. CASE e \notin Bumped(r)
            BY <1>1, <2>1, <2>2, <3>2, SettleEffect DEF RelayInv, CountInv
        <3> QED
            BY <3>1, <3>2
    <2>8. ASSUME NEW e \in outbox'
          PROVE  /\ attempts'[e] < MaxAttempts
                 /\ ~Sent(e)' => taken'[e] <= faults'
                 /\ refused'[e] <= attempts'[e] + faults' + 1
                 /\ ~Failed(e)' => refused'[e] <= attempts'[e] + faults'
        <3>1. e \in outbox /\ e \in Ids
            BY <2>1, <2>3
        <3>2. CASE e \in Bumped(r)
            BY <1>1, <2>1, <2>4, <3>1, <3>2, SettleEffect DEF RelayInv, CountInv
        <3>3. CASE e \notin Bumped(r)
            BY <1>1, <2>1, <2>4, <2>5, <3>1, <3>3, SettleEffect DEF RelayInv, CountInv
        <3> QED
            BY <3>2, <3>3
    <2>9. \A d \in dead' : d.attempts = MaxAttempts /\ refused'[d.id] >= MaxAttempts
        <3>1. \A e \in Poisoned(r) : refused[e] >= MaxAttempts
            <4>1. ASSUME NEW e \in Poisoned(r) PROVE refused[e] >= MaxAttempts
                <5>1. e \in Ids /\ Failed(e) /\ attempts[e] + 1 = MaxAttempts
                    BY <1>1, <2>1, SettleEffect DEF Failed
                <5> QED
                    BY <2>1, <5>1 DEF RelayInv, CountInv
            <4> QED
                BY <4>1
        <3> QED
            BY <1>1, <3>1, SettleEffect DEF RelayInv, CountInv
    <2> QED
        BY <2>7, <2>8, <2>9 DEF CountInv
<1> QED
    BY <1>2, <1>4, <1>5, <1>6 DEF RelayInv

-----------------------------------------------------------------------------
(* Every step of the relays preserves the invariant.                       *)
LEMMA NextInv == RelayInv /\ [Next]_vars => RelayInv'
<1> SUFFICES ASSUME RelayInv, [Next]_vars PROVE RelayInv'
    OBVIOUS
<1>1. CASE UNCHANGED vars
    BY <1>1, StutterInv
<1>2. CASE Next
    <2>1. CASE \E e \in Ids : Write(e) \/ ComeDue(e)
        BY <2>1, WriteInv, ComeDueInv
    <2>2. CASE \E r \in Relays : Idle(r) \/ GiveUp(r) \/ Settled(r) \/ Claim(r)
        BY <2>2, IdleInv, GiveUpInv, SettledInv, ClaimStepInv
    <2>3. CASE \E r \in Relays, e \in Ids :
                \/ \E outcome \in Outcomes : PublishSettled(r, e, outcome)
                \/ \E arrived \in BOOLEAN : PublishFails(r, e, arrived)
        BY <2>3, AcceptedInv, RefusedInv, PublishFailsInv
    <2> QED
        BY <1>2, <2>1, <2>2, <2>3, RelaySteps DEF RelayInv
<1> QED
    BY <1>1, <1>2

(* The inductive invariant holds in every state of every number of relays, *)
(* ids, faults and attempts.                                               *)
THEOREM RelaysInvariant == Spec => []RelayInv
BY InitInv, NextInv, PTL DEF Spec

(* Type correctness.                                                       *)
THEOREM RelayTypes == Spec => []TypeOK
<1>1. RelayInv => TypeOK
    BY DEF RelayInv
<1> QED
    BY <1>1, RelaysInvariant, PTL

(* Without a fault no message is published twice, whatever the number of   *)
(* relays: the broker takes a message at most once more than there were    *)
(* faults (SKIP LOCKED, publish and delete in one transaction).            *)
THEOREM RepeatsOnlyAfterFaults == Spec => []RepeatsNeedFaults
<1>1. RelayInv => RepeatsNeedFaults
    BY DEF RelayInv, CountInv, RepeatsNeedFaults
<1> QED
    BY <1>1, RelaysInvariant, PTL

(* The attempts of a pending row are the broker's refusals of it, short of *)
(* those whose transaction was lost or still runs: at most one batch holds *)
(* the row, so at most one refusal is running (bumpAttempts).              *)
THEOREM AttemptsCountRefusals == Spec => []AttemptsAreRefusals
<1>1. RelayInv => AttemptsAreRefusals
    <2> SUFFICES ASSUME RelayInv, NEW e \in outbox
                 PROVE  LET running == Cardinality({r \in Relays : e \in failed[r]})
                        IN  /\ attempts[e] <= refused[e]
                            /\ refused[e] <= attempts[e] + faults + running
        BY DEF AttemptsAreRefusals
    <2> DEFINE R == {r \in Relays : e \in failed[r]}
    <2>1. /\ e \in Ids /\ attempts[e] \in Nat /\ refused[e] \in Nat /\ faults \in Nat
          /\ attempts[e] <= refused[e] /\ refused[e] <= attempts[e] + faults + 1
          /\ ~Failed(e) => refused[e] <= attempts[e] + faults
        BY DEF RelayInv, TypeOK, CountInv
    <2>2. CASE Failed(e)
        <3>1. PICK r \in Relays : e \in failed[r]
            BY <2>2 DEF Failed
        <3>2. R = {r}
            BY <3>1 DEF RelayInv, ClaimInv
        <3>3. Cardinality(R) = 1
            BY <3>2, FS_Singleton
        <3> QED
            BY <2>1, <3>3
    <2>3. CASE ~Failed(e)
        <3>1. R = {}
            BY <2>3 DEF Failed
        <3>2. Cardinality(R) = 0
            BY <3>1, FS_EmptySet
        <3> QED
            BY <2>1, <2>3, <3>2
    <2> QED
        BY <2>2, <2>3
<1> QED
    BY <1>1, RelaysInvariant, PTL

(* A row is dead-lettered at exactly MaxAttempts refusals that committed,  *)
(* and a pending row has fewer (classifyFailures).                         *)
THEOREM DeadExactlyAtMaxAttempts == Spec => []DeadAtMaxAttempts
<1>1. RelayInv => DeadAtMaxAttempts
    BY DEF RelayInv, CountInv, DeadAtMaxAttempts
<1> QED
    BY <1>1, RelaysInvariant, PTL

-----------------------------------------------------------------------------
(* The relays start as the empty abstract outbox.                          *)
LEMMA DeliveryInit == Init => D!Init
BY DEF Init, D!Init, DeadIds

(* Every step of the relays is a step of the abstract outbox, or none.     *)
LEMMA DeliveryStep == RelayInv /\ [Next]_vars => [D!Next]_D!vars
<1> DEFINE delivered == {e \in Ids : taken[e] > 0}
<1> SUFFICES ASSUME RelayInv, [Next]_vars
             PROVE  D!Next \/ UNCHANGED <<outbox, delivered, DeadIds>>
    BY DEF D!vars
<1>1. ASSUME UNCHANGED <<outbox, taken, dead>>
      PROVE  UNCHANGED <<outbox, delivered, DeadIds>>
    BY <1>1 DEF DeadIds
<1>2. ASSUME NEW e \in Ids, Write(e) PROVE D!Next
    <2>1. e \notin outbox \cup delivered \cup DeadIds
        BY <1>2 DEF Write, RelayInv, RowInv, DeadIds
    <2>2. outbox' = outbox \cup {e} /\ UNCHANGED <<delivered, DeadIds>>
        BY <1>2 DEF Write, DeadIds
    <2> QED
        BY <2>1, <2>2 DEF D!Next, D!Write
<1>3. ASSUME NEW r \in Relays, NEW e \in Ids, Publishing(r, e),
             UNCHANGED <<outbox, dead>>,
             taken' = [taken EXCEPT ![e] = @ + 1]
      PROVE  D!Next
    <2>1. e \in outbox
        BY <1>3, PublishingRow
    <2>2. delivered' = delivered \cup {e}
        BY <1>3 DEF RelayInv, TypeOK
    <2> QED
        BY <1>3, <2>1, <2>2 DEF D!Next, D!Deliver, DeadIds
<1>4. ASSUME NEW r \in Relays, Settled(r) PROVE D!Next
    <2>1. /\ sent[r] \subseteq outbox \cap delivered /\ Poisoned(r) \subseteq outbox
          /\ outbox \subseteq Ids
        BY <1>4, SettleEffect DEF Settled, RelayInv, TypeOK, CountInv, Sent
    <2>2. /\ outbox' = outbox \ (sent[r] \cup Poisoned(r))
          /\ UNCHANGED delivered
        BY <1>4, SettleEffect DEF Settled
    <2>3. DeadIds' = DeadIds \cup Poisoned(r)
        <3>1. dead' = dead \cup {[id |-> e, attempts |-> MaxAttempts] : e \in Poisoned(r)}
            BY <1>4, SettleEffect DEF Settled
        <3>2. \A e \in Poisoned(r) : [id |-> e, attempts |-> MaxAttempts].id = e
            OBVIOUS
        <3>3. \A d \in dead' : d \in dead \/ d.id \in Poisoned(r)
            BY <3>1, <3>2
        <3>4. \A e \in Poisoned(r) : \E d \in dead' : d.id = e
            BY <3>1, <3>2
        <3>5. DeadIds \subseteq DeadIds'
            BY <3>1 DEF DeadIds
        <3> QED
            BY <3>3, <3>4, <3>5 DEF DeadIds
    <2>4. D!Settle(sent[r], Poisoned(r))
        BY <2>1, <2>2, <2>3 DEF D!Settle
    <2> QED
        BY <2>1, <2>4 DEF D!Next
<1>5. ASSUME NEW r \in Relays, NEW e \in Ids, NEW outcome \in Outcomes,
             PublishSettled(r, e, outcome)
      PROVE  D!Next \/ UNCHANGED <<outbox, delivered, DeadIds>>
    <2>1. Publishing(r, e) /\ UNCHANGED <<outbox, dead>>
        BY <1>5 DEF PublishSettled, table
    <2>2. taken' = taken \/ taken' = [taken EXCEPT ![e] = @ + 1]
        BY <1>5 DEF PublishSettled
    <2> QED
        BY <1>1, <1>3, <2>1, <2>2
<1>6. ASSUME NEW r \in Relays, NEW e \in Ids, NEW arrived \in BOOLEAN,
             PublishFails(r, e, arrived)
      PROVE  D!Next \/ UNCHANGED <<outbox, delivered, DeadIds>>
    <2>1. Publishing(r, e) /\ UNCHANGED <<outbox, dead>>
        BY <1>6 DEF PublishFails, table
    <2>2. taken' = taken \/ taken' = [taken EXCEPT ![e] = @ + 1]
        BY <1>6 DEF PublishFails
    <2> QED
        BY <1>1, <1>3, <2>1, <2>2
<1>7. ASSUME NEW r \in Relays, Idle(r) \/ GiveUp(r) \/ Claim(r)
      PROVE  UNCHANGED <<outbox, taken, dead>>
    BY <1>7 DEF Idle, GiveUp, Claim, table, history
<1>8. ASSUME NEW e \in Ids, ComeDue(e) PROVE UNCHANGED <<outbox, taken, dead>>
    BY <1>8 DEF ComeDue, history
<1>9. CASE UNCHANGED vars
    BY <1>1, <1>9 DEF vars, table, history
<1>10. CASE Next
    BY <1>1, <1>2, <1>4, <1>5, <1>6, <1>7, <1>8, <1>10, RelaySteps DEF RelayInv
<1> QED
    BY <1>9, <1>10

(* At-least-once delivery: the relays implement the abstract outbox.       *)
THEOREM RelaysImplementDelivery == Spec => ImplementsDelivery
BY DeliveryInit, DeliveryStep, RelaysInvariant, PTL DEF Spec, ImplementsDelivery, D!Spec
=============================================================================
