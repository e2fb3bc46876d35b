------------------------------ MODULE Delivery ------------------------------
(***************************************************************************)
(* What the outbox promises: every event a writer commits is delivered at  *)
(* least once before it leaves the outbox, unless it is put aside as       *)
(* undeliverable, and nothing else is ever delivered.  There are no        *)
(* relays, batches or transactions here.                                   *)
(***************************************************************************)
EXTENDS Naturals

CONSTANT Ids

VARIABLES
    pending,    \* events committed and not settled
    delivered,  \* events the broker has
    dead        \* events put aside

vars == <<pending, delivered, dead>>

Init == pending = {} /\ delivered = {} /\ dead = {}

Write(e) ==
    /\ e \notin pending \cup delivered \cup dead
    /\ pending' = pending \cup {e}
    /\ UNCHANGED <<delivered, dead>>

Deliver(e) ==
    /\ e \in pending
    /\ delivered' = delivered \cup {e}
    /\ UNCHANGED <<pending, dead>>

(* The events done and poison leave together. *)
Settle(done, poison) ==
    /\ done \subseteq pending \cap delivered
    /\ poison \subseteq pending
    /\ pending' = pending \ (done \cup poison)
    /\ dead' = dead \cup poison
    /\ UNCHANGED delivered

Next ==
    \/ \E e \in Ids : Write(e) \/ Deliver(e)
    \/ \E done, poison \in SUBSET Ids : Settle(done, poison)

Spec == Init /\ [][Next]_vars

=============================================================================
