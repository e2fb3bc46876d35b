----------------------------- MODULE Deployment -----------------------------
(***************************************************************************)
(* The binaries against one database: cmd/migrate moves the schema up and  *)
(* down, cmd/storefront refuses to start on settings or a schema that will *)
(* not do, and releases of several ages run side by side.  Migrations are  *)
(* numbered from 1, and a release is the number of them it embeds.  What   *)
(* follows Verify in run is Lifecycle.                                     *)
(***************************************************************************)
EXTENDS Config, FiniteSetsExt, TLC

CONSTANTS
    Instances,      \* processes of cmd/storefront
    Migrators,      \* processes of cmd/migrate
    Releases,       \* how many migrations each release embeds
    Settings,       \* the environments a deployment may have
    Millisecond,    \* in the unit of the durations
    NoOne           \* nobody holds the lock

ASSUME ReleasesAssumption == Releases \subseteq Nat \ {0}
ASSUME ProcessesAssumption == NoOne \notin Migrators /\ Instances \cap Migrators = {}

VARIABLES
    env,        \* the environment of all processes
    applied,    \* goose_db_version: the migrations in the schema
    holder,     \* who has goose's session lock
    job,        \* of each migrator: release, cmd, pc and what it has to run
    inst,       \* of each instance: release and pc
    undone      \* history: a Down committed since this process saw the schema

vars == <<env, applied, holder, job, inst, undone>>

Commands == {"up", "status", "down"}
Version == Max(applied \cup {0})
Embedded(release) == 1 .. release

Init ==
    /\ env \in Settings
    /\ applied = {}
    /\ holder = NoOne
    /\ job = [m \in Migrators |->
                [release |-> Min(Releases), cmd |-> "up", pc |-> "off", todo |-> {}]]
    /\ inst = [i \in Instances |-> [release |-> Min(Releases), pc |-> "off"]]
    /\ undone = {}

-----------------------------------------------------------------------------
(* cmd/migrate.                                                            *)

Free(m) == IF holder = m THEN NoOne ELSE holder

(* The session ends with the process, and its lock with the session. *)
Exit(m, pc) ==
    /\ job' = [job EXCEPT ![m].pc = pc, ![m].todo = {}]
    /\ holder' = Free(m)

(* parseCommand, LoadPostgres and the ping of openDB. *)
Migrate(m) ==
    /\ job[m].pc \in {"off", "ok", "failed"}
    /\ \E release \in Releases, cmd \in Commands \cup {"other"} :
          LET runs == cmd \in Commands /\ ValidPostgres(env) IN
          \E pc \in {"failed"} \cup (IF runs THEN {"ready"} ELSE {}) :
              job' = [job EXCEPT ![m] =
                        [release |-> release, cmd |-> cmd, pc |-> pc, todo |-> {}]]
    /\ UNCHANGED <<env, applied, holder, inst, undone>>

(* Status takes no lock and changes nothing. *)
Status(m) ==
    /\ job[m].pc = "ready" /\ job[m].cmd = "status"
    /\ Exit(m, "ok")
    /\ UNCHANGED <<env, applied, inst, undone>>

(* Mutant: newProvider instead of newLockingProvider. *)
LockNothing(m) ==
    /\ job[m].pc = "ready" /\ job[m].cmd \in {"up", "down"}
    /\ job' = [job EXCEPT ![m].pc = "list"]
    /\ UNCHANGED <<env, applied, holder, inst, undone>>

(* newLockingProvider: both commands begin with the lock, *)
Lock(m) ==
    /\ job[m].pc = "ready" /\ job[m].cmd \in {"up", "down"}
    /\ holder = NoOne
    /\ holder' = m
    /\ job' = [job EXCEPT ![m].pc = "list"]
    /\ UNCHANGED <<env, applied, inst, undone>>

(* and give up when somebody else keeps it. *)
LockTimeout(m) ==
    /\ job[m].pc = "ready" /\ job[m].cmd \in {"up", "down"}
    /\ holder \notin {NoOne, m}
    /\ Exit(m, "failed")
    /\ UNCHANGED <<env, applied, inst, undone>>

(* What goose finds to do: all that is newer than the schema, or its       *)
(* newest migration.  It refuses a gap in the schema, a schema with        *)
(* nothing to roll back and a migration this release does not embed.       *)
Todo(cmd, release) ==
    IF cmd = "up" THEN {v \in Embedded(release) : v > Version} ELSE {Version}

Refused(cmd, release) ==
    IF cmd = "up" THEN \E v \in Embedded(release) : v < Version /\ v \notin applied
    ELSE Version \notin Embedded(release)

List(m) ==
    /\ job[m].pc = "list"
    /\ IF Refused(job[m].cmd, job[m].release)
       THEN Exit(m, "failed") /\ UNCHANGED undone
       ELSE /\ job' = [job EXCEPT ![m].pc = "run",
                                  ![m].todo = Todo(job[m].cmd, job[m].release)]
            /\ undone' = undone \ {m}
            /\ UNCHANGED holder
    /\ UNCHANGED <<env, applied, inst>>

(* The tables of a migration that others refer to. *)
References(v) == CASE v = 3 -> {1} [] v = 4 -> {3} [] OTHER -> {}
Applies(v) == v \notin applied /\ References(v) \subseteq applied
RollsBack(v) == \A w \in applied : v \notin References(w)

(* One migration, a transaction of its own, with its row in                *)
(* goose_db_version.                                                       *)
Run(m) ==
    LET v == Min(job[m].todo) IN
    /\ job[m].pc = "run" /\ job[m].todo # {}
    /\ IF job[m].cmd = "up"
       THEN Applies(v) /\ applied' = applied \cup {v} /\ UNCHANGED undone
       ELSE RollsBack(v) /\ applied' = applied \ {v} /\ undone' = Instances \cup Migrators
    /\ job' = [job EXCEPT ![m].todo = @ \ {v}]
    /\ UNCHANGED <<env, holder, inst>>

(* The command is done. *)
Finish(m) ==
    /\ job[m].pc = "run" /\ job[m].todo = {}
    /\ Exit(m, "ok")
    /\ UNCHANGED <<env, applied, inst, undone>>

(* An error of the database, a signal or a crash ends it where it is.      *)
Break(m) ==
    /\ job[m].pc \in {"ready", "list", "run"}
    /\ Exit(m, "failed")
    /\ UNCHANGED <<env, applied, inst, undone>>

-----------------------------------------------------------------------------
(* cmd/storefront.                                                         *)

(* main: Load, or exit. *)
Load(i) ==
    /\ inst[i].pc \in {"off", "failed"}
    /\ \E release \in Releases :
          inst' = [inst EXCEPT ![i] =
                    [release |-> release,
                     pc |-> IF Validate(env, Millisecond) THEN "verify" ELSE "failed"]]
    /\ UNCHANGED <<env, applied, holder, job, undone>>

(* Mutant: any version but none will do. *)
HasPendingNone(release) == Version = 0

(* goose compares the newest versions. *)
HasPending(release) == Version < release

(* Verify: no lock, so a migration may be under way.  It fails, too, when  *)
(* the database does not answer.                                           *)
Verify(i) ==
    /\ inst[i].pc = "verify"
    /\ \E pc \in {"failed"} \cup (IF HasPending(inst[i].release) THEN {} ELSE {"serving"}) :
          inst' = [inst EXCEPT ![i].pc = pc]
    /\ undone' = undone \ {i}
    /\ UNCHANGED <<env, applied, holder, job>>

Stop(i) ==
    /\ inst[i].pc = "serving"
    /\ inst' = [inst EXCEPT ![i].pc = "off"]
    /\ UNCHANGED <<env, applied, holder, job, undone>>

Next ==
    \/ \E m \in Migrators :
          Migrate(m) \/ Status(m) \/ Lock(m) \/ LockTimeout(m) \/ List(m) \/ Run(m)
          \/ Finish(m) \/ Break(m)
    \/ \E i \in Instances : Load(i) \/ Verify(i) \/ Stop(i)

Spec == Init /\ [][Next]_vars

-----------------------------------------------------------------------------
(* The schema never has a gap, whoever migrates it at the same time, with  *)
(* whatever release, and wherever a migrator dies (newLockingProvider, one *)
(* transaction for each migration).                                        *)
SchemaHasNoGap == applied = 1 .. Version

(* A process that serves, or an "up" that exited with 0, has every table   *)
(* its release was built for, unless somebody rolled back later (Verify at *)
(* startup; Up reports success only when all is applied).                  *)
SchemaIsComplete ==
    /\ \A i \in Instances :
          inst[i].pc = "serving" => i \in undone \/ Embedded(inst[i].release) \subseteq applied
    /\ \A m \in Migrators :
          job[m].pc = "ok" /\ job[m].cmd = "up"
              => m \in undone \/ Embedded(job[m].release) \subseteq applied
=============================================================================
