-------------------------- MODULE DeploymentProofs --------------------------
(***************************************************************************)
(* Machine-checked proofs about Deployment, for any number of processes    *)
(* and any releases.                                                       *)
(***************************************************************************)
EXTENDS Deployment, TLAPS

JobStates == {"off", "ready", "list", "run", "ok", "failed"}
InstStates == {"off", "verify", "serving", "failed"}
AnyRelease == Releases \cup {Min(Releases)}
Job == [release : AnyRelease, cmd : Commands \cup {"other"}, pc : JobStates,
        todo : SUBSET Nat]
Instance == [release : AnyRelease, pc : InstStates]

(* The processes and the lock, by their types.  A process that has not     *)
(* been started has no release yet.                                        *)
ProcessTypes ==
    /\ env \in Settings
    /\ holder \in Migrators \cup {NoOne}
    /\ job \in [Migrators -> Job] /\ inst \in [Instances -> Instance]
    /\ \A m \in Migrators : job[m].pc # "off" => job[m].release \in Nat
    /\ \A i \in Instances : inst[i].pc # "off" => inst[i].release \in Nat

(* An applied prefix of the migrations. *)
Prefix == \E n \in Nat : applied = 1 .. n

(* Who lists or runs migrations has the lock, and what is left to run      *)
(* still fits the schema.                                                  *)
JobInv(m) ==
    /\ job[m].pc \in {"list", "run"} => holder = m /\ job[m].cmd \in {"up", "down"}
    /\ job[m].pc = "run" /\ job[m].cmd = "up" =>
            job[m].todo = (Version + 1) .. job[m].release
    /\ job[m].pc = "run" /\ job[m].cmd = "down" =>
            job[m].todo = {} \/ (job[m].todo = {Version} /\ Version > 0)

DeployInv ==
    /\ ProcessTypes /\ Prefix
    /\ \A m \in Migrators : JobInv(m)
    /\ SchemaIsComplete

-----------------------------------------------------------------------------
(* The maximum that Version takes, of a prefix of the migrations.          *)
LEMMA MaxOfPrefix ==
    ASSUME NEW n \in Nat
    PROVE  Max((1 .. n) \cup {0}) = n
<1> DEFINE S == (1 .. n) \cup {0}
<1>1. n \in S /\ \A y \in S : n >= y
    OBVIOUS
<1>2. \A x \in S : (\A y \in S : x >= y) => x = n
    BY <1>1
<1> HIDE DEF S
<1>3. Max(S) \in S /\ \A y \in S : Max(S) >= y
    BY <1>1 DEF Max
<1>4. Max(S) = n
    BY <1>2, <1>3
<1> QED
    BY <1>4 DEF S

(* The version of an applied prefix is its length.                         *)
LEMMA VersionOfPrefix ==
    ASSUME NEW n \in Nat, applied = 1 .. n
    PROVE  Version = n
BY MaxOfPrefix DEF Version

(* The least element of an interval and of a singleton.                    *)
LEMMA LeastTodo ==
    /\ \A a, b \in Nat : a <= b => Min(a .. b) = a
    /\ \A a \in Nat : Min({a}) = a
<1>1. ASSUME NEW a \in Nat, NEW b \in Nat, a <= b PROVE Min(a .. b) = a
    <2>1. a \in a .. b /\ \A y \in a .. b : a =< y
        BY <1>1
    <2>2. Min(a .. b) \in a .. b /\ \A y \in a .. b : Min(a .. b) =< y
        BY <2>1 DEF Min
    <2> QED
        BY <2>1, <2>2
<1>2. ASSUME NEW a \in Nat PROVE Min({a}) = a
    BY DEF Min
<1> QED
    BY <1>1, <1>2

(* The schema that a job sees is a prefix as long as its version.          *)
LEMMA SchemaIsPrefix ==
    ASSUME Prefix
    PROVE  Version \in Nat /\ applied = 1 .. Version
BY VersionOfPrefix DEF Prefix

(* A migrator that ends keeps its release and command, and gives up the    *)
(* lock; the others are as they were.                                      *)
LEMMA ExitEffect ==
    ASSUME ProcessTypes, NEW m \in Migrators, NEW pc \in {"ok", "failed"}, Exit(m, pc)
    PROVE  /\ job'[m].pc = pc /\ job'[m].todo = {}
           /\ job'[m].release = job[m].release /\ job'[m].cmd = job[m].cmd
           /\ \A o \in Migrators \ {m} : job'[o] = job[o]
           /\ holder' # m /\ (holder' = holder \/ (holder = m /\ holder' = NoOne))
           /\ job' \in [Migrators -> Job]
<1>1. job \in [Migrators -> Job]
    BY DEF ProcessTypes
<1>2. /\ job'[m].pc = pc /\ job'[m].todo = {}
      /\ job'[m].release = job[m].release /\ job'[m].cmd = job[m].cmd
      /\ \A o \in Migrators \ {m} : job'[o] = job[o]
    BY <1>1 DEF Exit, Job
<1>3. job' \in [Migrators -> Job]
    BY <1>1 DEF Exit, Job, JobStates
<1>4. holder' # m /\ (holder' = holder \/ (holder = m /\ holder' = NoOne))
    BY ProcessesAssumption DEF Exit, Free
<1> QED
    BY <1>2, <1>3, <1>4

-----------------------------------------------------------------------------
(* The initial state satisfies the invariant.                              *)
LEMMA DeployInit == Init => DeployInv
<1> SUFFICES ASSUME Init PROVE DeployInv
    OBVIOUS
<1>1. ProcessTypes
    BY DEF Init, ProcessTypes, Job, Instance, AnyRelease, JobStates, InstStates, Commands
<1>2. Prefix
    <2>1. applied = 1 .. 0
        BY DEF Init
    <2> QED
        BY <2>1 DEF Prefix
<1>3. (\A m \in Migrators : JobInv(m)) /\ SchemaIsComplete
    BY DEF Init, JobInv, SchemaIsComplete
<1> QED
    BY <1>1, <1>2, <1>3 DEF DeployInv

(* A step of one migrator that leaves schema, instances and history alone  *)
(* and takes the lock only when it is free, or gives it up.                *)
LEMMA MigratorFrame ==
    ASSUME DeployInv, NEW m \in Migrators, UNCHANGED <<env, applied, inst, undone>>,
           job' \in [Migrators -> Job], \A o \in Migrators \ {m} : job'[o] = job[o],
           holder' = holder \/ (holder = NoOne /\ holder' = m) \/ (holder = m /\ holder' = NoOne),
           job'[m].pc # "off" => job'[m].release \in Nat, JobInv(m)',
           job'[m].pc = "ok" /\ job'[m].cmd = "up"
               => m \in undone \/ Embedded(job'[m].release) \subseteq applied
    PROVE  DeployInv'
<1>1. ProcessTypes'
    BY DEF DeployInv, ProcessTypes
<1>2. Prefix'
    BY DEF DeployInv, Prefix
<1>3. ASSUME NEW o \in Migrators PROVE JobInv(o)'
    <2>1. CASE o = m
        BY <2>1
    <2>2. CASE o # m
        <3>1. JobInv(o) /\ job'[o] = job[o] /\ Version' = Version
            BY <2>2 DEF DeployInv, Version
        <3>2. job[o].pc \in {"list", "run"} => holder' = o
            BY <2>2, <3>1, ProcessesAssumption DEF JobInv
        <3> QED
            BY <3>1, <3>2 DEF JobInv
    <2> QED
        BY <2>1, <2>2
<1>4. SchemaIsComplete'
    BY DEF DeployInv, SchemaIsComplete
<1> QED
    BY <1>1, <1>2, <1>3, <1>4 DEF DeployInv

(* A migrator ends.                                                        *)
LEMMA ExitInv ==
    ASSUME DeployInv, NEW m \in Migrators, NEW pc \in {"ok", "failed"}, Exit(m, pc),
           job[m].pc # "off", UNCHANGED <<env, applied, inst, undone>>,
           pc = "ok" /\ job[m].cmd = "up"
               => m \in undone \/ Embedded(job[m].release) \subseteq applied
    PROVE  DeployInv'
<1>1. ProcessTypes
    BY DEF DeployInv
<1>2. /\ job'[m].pc = pc /\ job'[m].release = job[m].release /\ job'[m].cmd = job[m].cmd
      /\ \A o \in Migrators \ {m} : job'[o] = job[o]
      /\ holder' = holder \/ (holder = m /\ holder' = NoOne)
      /\ job' \in [Migrators -> Job]
    BY <1>1, ExitEffect
<1>3. JobInv(m)'
    BY <1>2 DEF JobInv
<1>4. job[m].release \in Nat
    BY <1>1 DEF ProcessTypes
<1> QED
    BY <1>2, <1>3, <1>4, MigratorFrame

(* Start, status, lock and the ends of a command.                          *)
LEMMA MigratorInv ==
    ASSUME DeployInv, NEW m \in Migrators,
           \/ Migrate(m) \/ Status(m) \/ Lock(m) \/ LockTimeout(m) \/ Finish(m) \/ Break(m)
    PROVE  DeployInv'
<1>1. ASSUME Migrate(m) PROVE DeployInv'
    <2>1. PICK release \in Releases, cmd \in Commands \cup {"other"}, pc \in {"ready", "failed"} :
            job' = [job EXCEPT ![m] =
                        [release |-> release, cmd |-> cmd, pc |-> pc, todo |-> {}]]
        BY <1>1 DEF Migrate
    <2>2. [release |-> release, cmd |-> cmd, pc |-> pc, todo |-> {}] \in Job
        BY DEF Job, AnyRelease, JobStates
    <2>3. /\ job' \in [Migrators -> Job] /\ \A o \in Migrators \ {m} : job'[o] = job[o]
          /\ job'[m].pc = pc /\ job'[m].release = release /\ release \in Nat
        BY <2>1, <2>2, ReleasesAssumption DEF DeployInv, ProcessTypes
    <2>4. JobInv(m)'
        BY <2>3 DEF JobInv
    <2> QED
        BY <1>1, <2>3, <2>4, MigratorFrame DEF Migrate
<1>2. ASSUME Status(m) PROVE DeployInv'
    BY <1>2, ExitInv DEF Status
<1>3. ASSUME Lock(m) PROVE DeployInv'
    <2>1. job' = [job EXCEPT ![m].pc = "list"] /\ job \in [Migrators -> Job]
        BY <1>3 DEF Lock, DeployInv, ProcessTypes
    <2>2. /\ job' \in [Migrators -> Job] /\ \A o \in Migrators \ {m} : job'[o] = job[o]
          /\ job'[m].pc = "list" /\ job'[m].cmd = job[m].cmd
          /\ job'[m].release = job[m].release
        BY <2>1 DEF Job, JobStates
    <2>3. JobInv(m)' /\ job[m].release \in Nat
        BY <1>3, <2>2 DEF Lock, JobInv, DeployInv, ProcessTypes
    <2> QED
        BY <1>3, <2>2, <2>3, MigratorFrame DEF Lock
<1>4. ASSUME LockTimeout(m) PROVE DeployInv'
    BY <1>4, ExitInv DEF LockTimeout
<1>5. ASSUME Finish(m) PROVE DeployInv'
    <2>1. job[m].cmd = "up" => Embedded(job[m].release) \subseteq applied
        <3> SUFFICES ASSUME job[m].cmd = "up" PROVE Embedded(job[m].release) \subseteq applied
            OBVIOUS
        <3>1. (Version + 1) .. job[m].release = {} /\ job[m].release \in Nat
            BY <1>5 DEF Finish, DeployInv, JobInv, ProcessTypes
        <3>2. Version \in Nat /\ applied = 1 .. Version
            BY SchemaIsPrefix DEF DeployInv
        <3>3. job[m].release <= Version
            BY <3>1, <3>2
        <3> QED
            BY <3>1, <3>2, <3>3 DEF Embedded
    <2> QED
        BY <1>5, <2>1, ExitInv DEF Finish
<1>6. ASSUME Break(m) PROVE DeployInv'
    BY <1>6, ExitInv DEF Break
<1> QED
    BY <1>1, <1>2, <1>3, <1>4, <1>5, <1>6

(* goose lists what to run, under the lock.                                *)
LEMMA ListInv ==
    ASSUME DeployInv, NEW m \in Migrators, List(m)
    PROVE  DeployInv'
<1>1. CASE Refused(job[m].cmd, job[m].release)
    BY <1>1, ExitInv DEF List
<1>2. CASE ~Refused(job[m].cmd, job[m].release)
    <2>1. /\ job' = [job EXCEPT ![m].pc = "run",
                               ![m].todo = Todo(job[m].cmd, job[m].release)]
          /\ undone' = undone \ {m} /\ UNCHANGED <<holder, env, applied, inst>>
        BY <1>2 DEF List
    <2>2. /\ job \in [Migrators -> Job] /\ job[m].release \in Nat /\ holder = m
          /\ job[m].cmd \in {"up", "down"} /\ Version \in Nat /\ applied = 1 .. Version
        BY SchemaIsPrefix DEF DeployInv, ProcessTypes, List, JobInv
    <2>3. /\ job[m].cmd = "up" =>
                Todo(job[m].cmd, job[m].release) = (Version + 1) .. job[m].release
          /\ job[m].cmd = "down" =>
                Todo(job[m].cmd, job[m].release) = {Version} /\ Version > 0
        <3>1. CASE job[m].cmd = "up"
            <4>1. {w \in 1 .. job[m].release : w > Version} = (Version + 1) .. job[m].release
                BY <2>2
            <4> QED
                BY <3>1, <4>1 DEF Todo, Embedded
        <3>2. CASE job[m].cmd = "down"
            BY <1>2, <2>2, <3>2 DEF Todo, Refused, Embedded
        <3> QED
            BY <2>2, <3>1, <3>2
    <2>4. Todo(job[m].cmd, job[m].release) \in SUBSET Nat
        BY <2>2, <2>3
    <2>5. /\ job' \in [Migrators -> Job] /\ \A o \in Migrators \ {m} : job'[o] = job[o]
          /\ job'[m].pc = "run" /\ job'[m].cmd = job[m].cmd
          /\ job'[m].release = job[m].release
          /\ job'[m].todo = Todo(job[m].cmd, job[m].release)
        BY <2>1, <2>2, <2>4 DEF Job, JobStates
    <2>6. ProcessTypes'
        BY <2>1, <2>2, <2>5 DEF DeployInv, ProcessTypes
    <2>7. Prefix' /\ Version' = Version
        BY <2>1 DEF DeployInv, Prefix, Version
    <2>8. ASSUME NEW o \in Migrators PROVE JobInv(o)'
        <3>1. CASE o = m
            BY <2>1, <2>2, <2>3, <2>5, <2>7, <3>1 DEF JobInv
        <3>2. CASE o # m
            BY <2>1, <2>5, <2>7, <3>2 DEF DeployInv, JobInv
        <3> QED
            BY <3>1, <3>2
    <2>9. SchemaIsComplete'
        <3>1. \A p \in Instances \cup Migrators : p # m => (p \in undone' <=> p \in undone)
            BY <2>1
        <3>2. m \notin Instances
            BY ProcessesAssumption
        <3>3. ASSUME NEW i \in Instances, inst'[i].pc = "serving"
              PROVE  i \in undone' \/ Embedded(inst'[i].release) \subseteq applied'
            BY <2>1, <3>1, <3>2, <3>3 DEF DeployInv, SchemaIsComplete
        <3>4. ASSUME NEW o \in Migrators, job'[o].pc = "ok", job'[o].cmd = "up"
              PROVE  o \in undone' \/ Embedded(job'[o].release) \subseteq applied'
            BY <2>1, <2>5, <3>1, <3>4 DEF DeployInv, SchemaIsComplete
        <3> QED
            BY <3>3, <3>4 DEF SchemaIsComplete
    <2> QED
        BY <2>6, <2>7, <2>8, <2>9 DEF DeployInv
<1> QED
    BY <1>1, <1>2

(* One migration, up or down, under the lock: the schema stays a prefix,   *)
(* and nobody else has listed one.                                         *)
LEMMA RunInv ==
    ASSUME DeployInv, NEW m \in Migrators, Run(m)
    PROVE  DeployInv'
<1> DEFINE v == Min(job[m].todo)
<1>1. /\ job \in [Migrators -> Job] /\ job[m].release \in Nat /\ holder = m
      /\ job[m].pc = "run" /\ job[m].todo # {} /\ job[m].cmd \in {"up", "down"}
      /\ Version \in Nat /\ applied = 1 .. Version
    BY SchemaIsPrefix DEF DeployInv, ProcessTypes, Run, JobInv
<1>2. /\ job' = [job EXCEPT ![m].todo = @ \ {v}]
      /\ UNCHANGED <<env, holder, inst>>
    BY DEF Run
<1>3. /\ job' \in [Migrators -> Job] /\ \A o \in Migrators \ {m} : job'[o] = job[o]
      /\ job'[m].pc = "run" /\ job'[m].cmd = job[m].cmd
      /\ job'[m].release = job[m].release /\ job'[m].todo = job[m].todo \ {v}
    BY <1>1, <1>2 DEF Job
<1>4. ProcessTypes'
    BY <1>1, <1>2, <1>3 DEF DeployInv, ProcessTypes
<1>5. \A o \in Migrators \ {m} : job'[o].pc \notin {"list", "run"}
    BY <1>1, <1>3 DEF DeployInv, JobInv
<1>6. CASE job[m].cmd = "up"
    <2>1. job[m].todo = (Version + 1) .. job[m].release
        BY <1>1, <1>6 DEF DeployInv, JobInv
    <2>2. Version + 1 \in Nat /\ Version + 1 <= job[m].release
        BY <1>1, <2>1
    <2>3. v = Version + 1
        BY <1>1, <2>1, <2>2, LeastTodo
    <2>4. applied' = applied \cup {v} /\ undone' = undone
        BY <1>6 DEF Run
    <2>5. applied' = 1 .. (Version + 1)
        BY <1>1, <2>3, <2>4
    <2>6. Prefix' /\ Version' = Version + 1
        <3>1. Prefix'
            BY <2>2, <2>5 DEF Prefix
        <3>2. Version' = Max((1 .. (Version + 1)) \cup {0})
            BY <2>5 DEF Version
        <3> QED
            BY <2>2, <3>1, <3>2, MaxOfPrefix
    <2>7. job'[m].todo = (Version' + 1) .. job'[m].release
        BY <1>1, <1>3, <2>1, <2>3, <2>6
    <2>8. \A o \in Migrators : JobInv(o)'
        BY <1>1, <1>2, <1>3, <1>5, <1>6, <2>7 DEF JobInv
    <2>9. SchemaIsComplete'
        BY <1>2, <1>3, <2>4 DEF DeployInv, SchemaIsComplete
    <2> QED
        BY <1>4, <2>6, <2>8, <2>9 DEF DeployInv
<1>7. CASE job[m].cmd = "down"
    <2>1. job[m].todo = {Version} /\ Version > 0
        BY <1>1, <1>7 DEF DeployInv, JobInv
    <2>2. v = Version
        BY <1>1, <2>1, LeastTodo
    <2>3. applied' = applied \ {v} /\ undone' = Instances \cup Migrators
        BY <1>7 DEF Run
    <2>4. applied' = 1 .. (Version - 1) /\ Version - 1 \in Nat
        BY <1>1, <2>1, <2>2, <2>3
    <2>5. Prefix'
        BY <2>4 DEF Prefix
    <2>6. job'[m].todo = {}
        BY <1>3, <2>1, <2>2
    <2>7. \A o \in Migrators : JobInv(o)'
        BY <1>1, <1>2, <1>3, <1>5, <1>7, <2>6 DEF JobInv
    <2>8. SchemaIsComplete'
        BY <2>3 DEF SchemaIsComplete
    <2> QED
        BY <1>4, <2>5, <2>7, <2>8 DEF DeployInv
<1> QED
    BY <1>1, <1>6, <1>7

(* cmd/storefront: an instance serves what it has verified.                *)
LEMMA InstanceInv ==
    ASSUME DeployInv, NEW i \in Instances, Load(i) \/ Verify(i) \/ Stop(i)
    PROVE  DeployInv'
<1>1. UNCHANGED <<env, applied, holder, job>> /\ Version' = Version
    BY DEF Load, Verify, Stop, Version
<1>2. inst \in [Instances -> Instance] /\ Version \in Nat /\ applied = 1 .. Version
    BY SchemaIsPrefix DEF DeployInv, ProcessTypes
<1>3. \A p \in Instances \cup Migrators : p # i => (p \in undone' <=> p \in undone)
    BY DEF Load, Verify, Stop
<1>4. /\ inst' \in [Instances -> Instance]
      /\ \A j \in Instances \ {i} : inst'[j] = inst[j]
      /\ inst'[i].pc # "off" => inst'[i].release \in Nat
      /\ inst'[i].pc = "serving" => inst'[i].release <= Version
    <2>1. ASSUME Load(i)
          PROVE  \E release \in Releases, pc \in {"verify", "failed"} :
                    inst' = [inst EXCEPT ![i] = [release |-> release, pc |-> pc]]
        BY <2>1 DEF Load
    <2>2. CASE Load(i)
        <3>1. PICK release \in Releases, pc \in {"verify", "failed"} :
                    inst' = [inst EXCEPT ![i] = [release |-> release, pc |-> pc]]
            BY <2>1, <2>2
        <3>2. [release |-> release, pc |-> pc] \in Instance
            BY DEF Instance, AnyRelease, InstStates
        <3> QED
            BY <1>2, <3>1, <3>2, ReleasesAssumption
    <2>3. CASE Verify(i)
        <3>1. PICK pc \in {"failed", "serving"} :
                    /\ inst' = [inst EXCEPT ![i].pc = pc]
                    /\ pc = "serving" => ~HasPending(inst[i].release)
            BY <2>3 DEF Verify
        <3>2. /\ inst' \in [Instances -> Instance]
              /\ \A j \in Instances \ {i} : inst'[j] = inst[j]
              /\ inst'[i].pc = pc /\ inst'[i].release = inst[i].release
            BY <1>2, <3>1 DEF Instance, InstStates
        <3>3. inst[i].release \in Nat
            BY <2>3 DEF Verify, DeployInv, ProcessTypes
        <3> QED
            BY <1>2, <3>1, <3>2, <3>3 DEF HasPending
    <2>4. CASE Stop(i)
        <3>1. inst' = [inst EXCEPT ![i].pc = "off"]
            BY <2>4 DEF Stop
        <3> QED
            BY <1>2, <3>1 DEF Instance, InstStates
    <2> QED
        BY <2>2, <2>3, <2>4
<1>5. ProcessTypes'
    BY <1>1, <1>4 DEF DeployInv, ProcessTypes
<1>6. Prefix'
    BY <1>1 DEF DeployInv, Prefix
<1>7. \A m \in Migrators : JobInv(m)'
    BY <1>1 DEF DeployInv, JobInv
<1>8. SchemaIsComplete'
    <2>1. ASSUME NEW j \in Instances, inst'[j].pc = "serving"
          PROVE  j \in undone' \/ Embedded(inst'[j].release) \subseteq applied'
        <3>1. CASE j = i
            BY <1>1, <1>2, <1>4, <2>1, <3>1 DEF Embedded
        <3>2. CASE j # i
            BY <1>1, <1>3, <1>4, <2>1, <3>2 DEF DeployInv, SchemaIsComplete
        <3> QED
            BY <3>1, <3>2
    <2>2. \A m \in Migrators : m # i
        BY ProcessesAssumption
    <2>3. ASSUME NEW m \in Migrators, job'[m].pc = "ok", job'[m].cmd = "up"
          PROVE  m \in undone' \/ Embedded(job'[m].release) \subseteq applied'
        BY <1>1, <1>3, <2>2, <2>3 DEF DeployInv, SchemaIsComplete
    <2> QED
        BY <2>1, <2>3 DEF SchemaIsComplete
<1> QED
    BY <1>5, <1>6, <1>7, <1>8 DEF DeployInv

(* Every step preserves the invariant.                                     *)
LEMMA DeployStep == DeployInv /\ [Next]_vars => DeployInv'
<1> SUFFICES ASSUME DeployInv, [Next]_vars PROVE DeployInv'
    OBVIOUS
<1>1. CASE UNCHANGED vars
    BY <1>1 DEF vars, DeployInv, ProcessTypes, Prefix, JobInv, SchemaIsComplete, Version
<1> QED
    BY <1>1, MigratorInv, ListInv, RunInv, InstanceInv DEF Next

(* The inductive invariant holds for any processes, releases and settings. *)
THEOREM DeployInvariant == Spec => []DeployInv
BY DeployInit, DeployStep, PTL DEF Spec

(* The schema never has a gap, whoever migrates it (newLockingProvider).   *)
THEOREM SchemaIsGapless == Spec => []SchemaHasNoGap
<1>1. DeployInv => SchemaHasNoGap
    BY SchemaIsPrefix DEF DeployInv, SchemaHasNoGap
<1> QED
    BY <1>1, DeployInvariant, PTL

(* Who serves, or reports a successful "up", has every migration of its    *)
(* release, unless somebody rolled one back later (Verify, Up).            *)
THEOREM ServedSchemaIsComplete == Spec => []SchemaIsComplete
<1>1. DeployInv => SchemaIsComplete
    BY DEF DeployInv
<1> QED
    BY <1>1, DeployInvariant, PTL
=============================================================================
