--------------------------- MODULE LifecycleProofs ---------------------------
(***************************************************************************)
(* Machine-checked proofs about Lifecycle, for any number of requests.     *)
(***************************************************************************)
EXTENDS Lifecycle, SequenceTheorems, TLAPS

(* What the stage says of the tasks: none starts before all is open, and   *)
(* nothing is closed while one runs.                                       *)
StageInv ==
    /\ stage = "start" => \A t \in Tasks : task[t] = "new"
    /\ stage = "serve" => /\ opened = SubSeq(Resources, 1, 4)
                          /\ \A t \in Tasks : task[t] # "new"
    /\ stage \in {"close", "exit"} =>
            \/ \A t \in Tasks : task[t] = "returned"
            \/ failed /\ \A t \in Tasks : task[t] = "new"

(* A server that broke or ran late has started, and one that returned so   *)
(* has reported it, gRPC excepted.                                         *)
ServerInv ==
    \A s \in Servers :
        /\ s \in broken => task[s] # "new"
        /\ s \in broken /\ task[s] = "returned" => failed
        /\ s \in late => task[s] = "returned" /\ (s = "grpc" \/ failed)

(* A request is in a server that has started and, if that has returned,    *)
(* ran late.                                                               *)
RequestInv ==
    \A q \in Requests : request[q] # "none" =>
        /\ task[request[q]] # "new"
        /\ task[request[q]] = "returned" => request[q] \in late

LifecycleInv == TypeOK /\ StageInv /\ ServerInv /\ RequestInv

-----------------------------------------------------------------------------
(* The prefixes of Resources: opening adds the next one, closing drops the *)
(* last, and the whole of it holds what every task calls.                  *)
LEMMA OpenPrefixes ==
    /\ Len(Resources) = 4 /\ SubSeq(Resources, 1, 0) = <<>>
    /\ \A n \in 0 .. 4 : Len(SubSeq(Resources, 1, n)) = n
    /\ \A n \in 0 .. 3 :
        Append(SubSeq(Resources, 1, n), Resources[n + 1]) = SubSeq(Resources, 1, n + 1)
    /\ \A n \in 1 .. 4 :
        SubSeq(SubSeq(Resources, 1, n), 1, n - 1) = SubSeq(Resources, 1, n - 1)
    /\ \A i \in 1 .. 4 : SubSeq(Resources, 1, 4)[i] = Resources[i]
<1> DEFINE Names == {"postgres", "valkey", "rabbitmq", "publisher"}
<1>1. /\ Resources \in Seq(Names) /\ Len(Resources) = 4
      /\ \A i \in 1 .. 4 : Resources[i] \in Names
    BY DEF Resources
<1>2. SubSeq(Resources, 1, 0) = <<>>
    BY SubSeqEmpty
<1>3. ASSUME NEW n \in 0 .. 4
      PROVE  /\ SubSeq(Resources, 1, n) \in Seq(Names) /\ Len(SubSeq(Resources, 1, n)) = n
             /\ \A i \in 1 .. n : SubSeq(Resources, 1, n)[i] = Resources[i]
    <2>1. \A i \in 1 .. n : Resources[i] \in Names
        BY <1>1
    <2> HIDE DEF Names
    <2>2. /\ SubSeq(Resources, 1, n) \in Seq(Names)
          /\ Len(SubSeq(Resources, 1, n)) = IF 1 <= n THEN n - 1 + 1 ELSE 0
          /\ \A i \in 1 .. n - 1 + 1 : SubSeq(Resources, 1, n)[i] = Resources[1 + i - 1]
        BY <2>1, SubSeqProperties
    <2> QED
        BY <2>2
<1>4. ASSUME NEW n \in 0 .. 3
      PROVE  Append(SubSeq(Resources, 1, n), Resources[n + 1]) = SubSeq(Resources, 1, n + 1)
    <2> DEFINE a == Append(SubSeq(Resources, 1, n), Resources[n + 1])
               b == SubSeq(Resources, 1, n + 1)
    <2>1. a \in Seq(Names) /\ b \in Seq(Names) /\ Len(a) = n + 1 /\ Len(b) = n + 1
        BY <1>1, <1>3
    <2>2. \A i \in 1 .. n + 1 : a[i] = b[i]
        BY <1>1, <1>3
    <2> QED
        BY <2>1, <2>2
<1>5. ASSUME NEW n \in 1 .. 4
      PROVE  SubSeq(SubSeq(Resources, 1, n), 1, n - 1) = SubSeq(Resources, 1, n - 1)
    BY <1>1, <1>3
<1> QED
    BY <1>1, <1>2, <1>3, <1>4, <1>5

(* The initial state satisfies the invariant.                              *)
LEMMA LifecycleInit == Init => LifecycleInv
<1> SUFFICES ASSUME Init PROVE LifecycleInv
    OBVIOUS
<1>1. opened = SubSeq(Resources, 1, 0) /\ Len(Resources) = 4
    BY OpenPrefixes DEF Init
<1>2. TypeOK
    <2>1. \E n \in 0 .. Len(Resources) : opened = SubSeq(Resources, 1, n)
        BY <1>1
    <2>2. cancelled \in BOOLEAN /\ failed \in BOOLEAN
        BY DEF Init
    <2> QED
        BY <2>1, <2>2 DEF Init, TypeOK
<1>3. StageInv /\ ServerInv /\ RequestInv
    BY DEF Init, StageInv, ServerInv, RequestInv
<1> QED
    BY <1>2, <1>3 DEF LifecycleInv

-----------------------------------------------------------------------------
(* Startup and shutdown: the steps of run itself.                          *)
LEMMA RunInv ==
    ASSUME LifecycleInv, OpenNext \/ StartFails \/ Signal \/ Run
    PROVE  LifecycleInv'
<1> USE DEF LifecycleInv
<1>1. PICK n \in 0 .. 4 : opened = SubSeq(Resources, 1, n) /\ Len(opened) = n
    BY OpenPrefixes DEF TypeOK
<1>2. ASSUME OpenNext PROVE LifecycleInv'
    <2>1. n < 4 /\ opened' = Append(opened, Resources[n + 1])
        BY <1>1, <1>2, OpenPrefixes DEF OpenNext
    <2>2. opened' = SubSeq(Resources, 1, n + 1) /\ n + 1 \in 0 .. Len(Resources)
        BY <1>1, <2>1, OpenPrefixes
    <2>3. TypeOK'
        BY <1>2, <2>2 DEF OpenNext, TypeOK
    <2> QED
        BY <1>2, <2>3 DEF OpenNext, StageInv, ServerInv, RequestInv
<1>3. ASSUME StartFails PROVE LifecycleInv'
    <2>1. TypeOK'
        BY <1>3 DEF StartFails, TypeOK
    <2> QED
        BY <1>3, <2>1 DEF StartFails, StageInv, ServerInv, RequestInv
<1>4. ASSUME Signal PROVE LifecycleInv'
    <2>1. TypeOK'
        BY <1>4 DEF Signal, TypeOK
    <2> QED
        BY <1>4, <2>1 DEF Signal, StageInv, ServerInv, RequestInv
<1>5. ASSUME Spawn PROVE LifecycleInv'
    <2>1. opened = SubSeq(Resources, 1, 4)
        BY <1>1, <1>5, OpenPrefixes DEF Spawn
    <2>2. TypeOK'
        BY <1>5 DEF Spawn, TypeOK
    <2>3. broken = {} /\ late = {} /\ \A q \in Requests : request[q] = "none"
        BY <1>5 DEF Spawn, TypeOK, StageInv, ServerInv, RequestInv, Tasks
    <2> QED
        BY <1>5, <2>1, <2>2, <2>3 DEF Spawn, StageInv, ServerInv, RequestInv
<1>6. ASSUME Wait PROVE LifecycleInv'
    <2>1. TypeOK'
        BY <1>6 DEF Wait, TypeOK
    <2> QED
        BY <1>6, <2>1 DEF Wait, StageInv, ServerInv, RequestInv
<1>7. ASSUME CloseLast PROVE LifecycleInv'
    <2>1. n # 0 /\ opened' = SubSeq(opened, 1, n - 1)
        BY <1>1, <1>7, OpenPrefixes DEF CloseLast
    <2>2. opened' = SubSeq(Resources, 1, n - 1) /\ n - 1 \in 0 .. Len(Resources)
        BY <1>1, <2>1, OpenPrefixes
    <2>3. TypeOK'
        BY <1>7, <2>2 DEF CloseLast, TypeOK
    <2> QED
        BY <1>7, <2>3 DEF CloseLast, StageInv, ServerInv, RequestInv
<1>8. ASSUME Exit PROVE LifecycleInv'
    <2>1. TypeOK'
        BY <1>8 DEF Exit, TypeOK
    <2> QED
        BY <1>8, <2>1 DEF Exit, StageInv, ServerInv, RequestInv
<1> QED
    BY <1>2, <1>3, <1>4, <1>5, <1>6, <1>7, <1>8 DEF Run

(* Requests come and go; a server accepts one only while it runs.          *)
LEMMA RequestStepInv ==
    ASSUME LifecycleInv, NEW q \in Requests,
           (\E s \in Servers : Accept(q, s)) \/ Acquire(q) \/ Handle(q)
    PROVE  LifecycleInv'
<1> USE DEF LifecycleInv
<1>1. UNCHANGED <<stage, opened, cancelled, failed, task, broken, late>>
    BY DEF Accept, Acquire, Handle, Release, Answer
<1>2. /\ conns' \subseteq Requests
      /\ \A p \in Requests : \/ request'[p] = request[p] \/ request'[p] = "none"
                             \/ request'[p] \in Servers /\ task[request'[p]] = "running"
      /\ request' \in [Requests -> Servers \cup {"none"}]
    BY DEF Accept, Acquire, Handle, Release, Answer, TypeOK
<1>3. TypeOK'
    BY <1>1, <1>2 DEF TypeOK
<1>4. StageInv' /\ ServerInv'
    BY <1>1 DEF StageInv, ServerInv
<1>5. RequestInv'
    BY <1>1, <1>2 DEF RequestInv
<1> QED
    BY <1>3, <1>4, <1>5

(* A listener fails while its server runs.                                 *)
LEMMA ListenFailsInv ==
    ASSUME LifecycleInv, NEW s \in Servers, ListenFails(s)
    PROVE  LifecycleInv'
<1>1. TypeOK'
    BY DEF LifecycleInv, ListenFails, TypeOK
<1> QED
    BY <1>1 DEF LifecycleInv, ListenFails, StageInv, ServerInv, RequestInv

(* A task runs only while the process serves.                              *)
LEMMA TasksServe ==
    ASSUME LifecycleInv, NEW t \in Tasks, task[t] \in {"running", "draining"}
    PROVE  stage = "serve"
BY DEF LifecycleInv, TypeOK, StageInv

(* A task that returns reports what went wrong in it, and the requests it  *)
(* leaves behind are those of a late server.                               *)
LEMMA ReturnInv ==
    ASSUME LifecycleInv, NEW t \in Tasks, NEW error \in BOOLEAN, Return(t, error),
           task[t] \in {"running", "draining"}, broken' = broken,
           late' = late \/ (t \in Servers /\ late' = late \cup {t} /\ (t = "grpc" \/ error)),
           t \in broken => error,
           t \in Servers => t \in late' \/ Pending(t) = {}
    PROVE  LifecycleInv'
<1> USE DEF LifecycleInv
<1>1. stage = "serve"
    BY TasksServe
<1>2. /\ task' = [task EXCEPT ![t] = "returned"]
      /\ failed' = (failed \/ error) /\ cancelled' = (cancelled \/ error)
      /\ UNCHANGED <<stage, opened, request, conns>>
    BY DEF Return
<1>3. TypeOK'
    <2>1. failed' \in BOOLEAN /\ cancelled' \in BOOLEAN
        BY <1>2 DEF TypeOK
    <2>2. broken' \subseteq Servers /\ late' \subseteq Servers
        BY DEF TypeOK
    <2> QED
        BY <1>2, <2>1, <2>2 DEF TypeOK
<1>4. StageInv'
    BY <1>1, <1>2 DEF StageInv, TypeOK
<1>5. ServerInv'
    <2>1. \A s \in Servers : s \in Tasks
        BY DEF Tasks
    <2> QED
        BY <1>2, <2>1 DEF ServerInv, TypeOK
<1>6. RequestInv'
    <2>1. \A s \in Servers : s \in Tasks
        BY DEF Tasks
    <2>2. ASSUME NEW q \in Requests, request[q] # "none"
          PROVE  /\ task'[request[q]] # "new"
                 /\ task'[request[q]] = "returned" => request[q] \in late'
        <3>1. request[q] \in Servers
            BY <2>2 DEF TypeOK
        <3>2. CASE request[q] = t
            <4>1. Pending(t) # {}
                BY <3>2 DEF Pending
            <4> QED
                BY <1>2, <3>1, <3>2, <4>1 DEF TypeOK
        <3>3. CASE request[q] # t
            BY <1>2, <2>1, <2>2, <3>1, <3>3 DEF RequestInv, TypeOK
        <3> QED
            BY <3>2, <3>3
    <2> QED
        BY <1>2, <2>2 DEF RequestInv
<1> QED
    BY <1>3, <1>4, <1>5, <1>6

(* The steps of a task.                                                    *)
LEMMA TaskStepInv ==
    ASSUME LifecycleInv, NEW t \in Tasks, TaskStep(t)
    PROVE  LifecycleInv'
<1>1. ASSUME t \in Servers, ShutDown(t) PROVE LifecycleInv'
    <2>1. TypeOK'
        BY <1>1 DEF LifecycleInv, ShutDown, TypeOK
    <2>2. stage = "serve"
        BY <1>1, TasksServe DEF ShutDown
    <2>3. StageInv'
        BY <1>1, <2>2 DEF LifecycleInv, ShutDown, TypeOK, StageInv
    <2>4. ServerInv'
        BY <1>1 DEF LifecycleInv, ShutDown, TypeOK, ServerInv, Tasks
    <2>5. RequestInv'
        BY <1>1 DEF LifecycleInv, ShutDown, TypeOK, RequestInv, Tasks
    <2> QED
        BY <2>1, <2>3, <2>4, <2>5 DEF LifecycleInv
<1>2. ASSUME t \in Servers, Drained(t) PROVE LifecycleInv'
    <2> DEFINE error == t \in broken
    <2>1. /\ Return(t, error) /\ error \in BOOLEAN /\ task[t] \in {"running", "draining"}
          /\ broken' = broken /\ late' = late /\ Pending(t) = {}
        BY <1>2 DEF Drained
    <2> QED
        BY <1>2, <2>1, ReturnInv
<1>3. ASSUME t \in Servers, DrainTimeout(t) PROVE LifecycleInv'
    <2> DEFINE error == t \in broken \/ t # "grpc"
    <2>1. /\ Return(t, error) /\ error \in BOOLEAN /\ task[t] \in {"running", "draining"}
          /\ broken' = broken /\ late' = late \cup {t}
        BY <1>3 DEF DrainTimeout
    <2> QED
        BY <1>3, <2>1, ReturnInv
<1>4. ASSUME LoopReturns(t) PROVE LifecycleInv'
    <2>1. t \notin broken
        BY <1>4 DEF LoopReturns, LifecycleInv, TypeOK
    <2> QED
        BY <1>4, <2>1, ReturnInv DEF LoopReturns
<1> QED
    BY <1>1, <1>2, <1>3, <1>4 DEF TaskStep

(* Every step preserves the invariant.                                     *)
LEMMA LifecycleStep == LifecycleInv /\ [Next]_vars => LifecycleInv'
<1> SUFFICES ASSUME LifecycleInv, [Next]_vars PROVE LifecycleInv'
    OBVIOUS
<1>1. CASE UNCHANGED vars
    <2>1. TypeOK'
        BY <1>1 DEF LifecycleInv, TypeOK, vars
    <2> QED
        BY <1>1, <2>1 DEF LifecycleInv, StageInv, ServerInv, RequestInv, vars
<1> QED
    BY <1>1, RunInv, RequestStepInv, ListenFailsInv, TaskStepInv DEF Next

(* The inductive invariant holds for any number of requests.               *)
THEOREM LifecycleInvariant == Spec => []LifecycleInv
BY LifecycleInit, LifecycleStep, PTL DEF Spec

(* Type correctness.                                                       *)
THEOREM LifecycleTypes == Spec => []TypeOK
<1>1. LifecycleInv => TypeOK
    BY DEF LifecycleInv
<1> QED
    BY <1>1, LifecycleInvariant, PTL

(* No task runs without a resource it calls (run's deferred calls).        *)
THEOREM TasksHaveResources == Spec => []RunningTasksHaveResources
<1>1. LifecycleInv => RunningTasksHaveResources
    <2> SUFFICES ASSUME LifecycleInv, NEW t \in Tasks, task[t] \in {"running", "draining"}
                 PROVE  Uses(t) \subseteq Open
        BY DEF RunningTasksHaveResources
    <2>1. opened = SubSeq(Resources, 1, 4)
        BY TasksServe DEF LifecycleInv, StageInv
    <2>2. Len(opened) = 4 /\ \A i \in 1 .. 4 : opened[i] = Resources[i]
        BY <2>1, OpenPrefixes
    <2>3. 1 \in DOMAIN opened /\ 2 \in DOMAIN opened /\ 3 \in DOMAIN opened /\ 4 \in DOMAIN opened
        BY <2>1, <2>2, OpenPrefixes
    <2>4. {"postgres", "valkey", "rabbitmq", "publisher"} \subseteq Open
        BY <2>2, <2>3 DEF Open, Resources
    <2> QED
        BY <2>4 DEF Uses
<1> QED
    BY <1>1, LifecycleInvariant, PTL

(* Only a server that ran out of ShutdownTimeout leaves a request behind   *)
(* (Shutdown, GracefulStop).                                               *)
THEOREM OnlyLateServersLeaveRequests == Spec => []RequestsAreDrained
<1>1. LifecycleInv => RequestsAreDrained
    BY DEF LifecycleInv, TypeOK, StageInv, RequestInv, RequestsAreDrained, Tasks
<1> QED
    BY <1>1, LifecycleInvariant, PTL

(* Exit status 0 means that the process served, that every listener held   *)
(* and that no HTTP server cut a request off (main, run).                  *)
THEOREM ExitStatusIsHonest == Spec => []ExitStatusHonest
<1>1. LifecycleInv => ExitStatusHonest
    BY DEF LifecycleInv, TypeOK, StageInv, ServerInv, ExitStatusHonest, Tasks
<1> QED
    BY <1>1, LifecycleInvariant, PTL
=============================================================================
