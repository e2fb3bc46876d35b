------------------------------ MODULE Lifecycle ------------------------------
(***************************************************************************)
(* cmd/storefront run: what one process opens, runs, drains and closes,    *)
(* with a failure or a signal at any point.  Resources are opened in order *)
(* and closed in reverse by the deferred calls; five tasks run in one      *)
(* errgroup, whose context ends with a signal or the first error.  The     *)
(* servers' Shutdown and GracefulStop wait for their requests, but only    *)
(* ShutdownTimeout long.                                                   *)
(***************************************************************************)
EXTENDS Naturals, Sequences, FiniteSets

CONSTANTS Requests      \* concurrent requests

VARIABLES
    stage,      \* start, serve, close, exit
    opened,     \* resources open, in the order they were opened
    cancelled,  \* the context of the errgroup is done
    failed,     \* run returns an error
    task,       \* the tasks of the errgroup
    broken,     \* servers whose listener failed
    late,       \* servers that ran out of ShutdownTimeout
    request,    \* the server each request is in
    conns       \* requests that hold a connection of the pool

vars == <<stage, opened, cancelled, failed, task, broken, late, request, conns>>

-----------------------------------------------------------------------------
Resources == <<"postgres", "valkey", "rabbitmq", "publisher">>

Servers == {"api", "internal", "grpc"}
Tasks == Servers \cup {"relay", "janitor"}

(* What a task calls while it runs. *)
Uses(t) ==
    IF t = "relay" THEN {"postgres", "rabbitmq", "publisher"}
    ELSE IF t = "janitor" THEN {"postgres"} ELSE {"postgres", "valkey"}

Open == {opened[i] : i \in DOMAIN opened}

TypeOK ==
    /\ stage \in {"start", "serve", "close", "exit"}
    /\ \E n \in 0 .. Len(Resources) : opened = SubSeq(Resources, 1, n)
    /\ cancelled \in BOOLEAN /\ failed \in BOOLEAN
    /\ task \in [Tasks -> {"new", "running", "draining", "returned"}]
    /\ broken \subseteq Servers /\ late \subseteq Servers
    /\ request \in [Requests -> Servers \cup {"none"}]
    /\ conns \subseteq Requests

Init ==
    /\ stage = "start"
    /\ opened = <<>>
    /\ cancelled = FALSE /\ failed = FALSE
    /\ task = [t \in Tasks |-> "new"]
    /\ broken = {} /\ late = {}
    /\ request = [q \in Requests |-> "none"]
    /\ conns = {}

-----------------------------------------------------------------------------
(* Startup.                                                                *)

OpenNext ==
    /\ stage = "start" /\ Len(opened) < Len(Resources)
    /\ opened' = Append(opened, Resources[Len(opened) + 1])
    /\ UNCHANGED <<stage, cancelled, failed, task, broken, late, request, conns>>

(* Verify, an open or newAPIServer fails, a signal during a ping included; *)
(* a resource whose own ping fails is closed on the spot.                  *)
StartFails ==
    /\ stage = "start"
    /\ stage' = "close"
    /\ failed' = TRUE
    /\ UNCHANGED <<opened, cancelled, task, broken, late, request, conns>>

(* eg.Go, five times. *)
Spawn ==
    /\ stage = "start" /\ Len(opened) = Len(Resources)
    /\ stage' = "serve"
    /\ task' = [t \in Tasks |-> "running"]
    /\ UNCHANGED <<opened, cancelled, failed, broken, late, request, conns>>

Signal ==
    /\ stage \in {"start", "serve"} /\ ~cancelled
    /\ cancelled' = TRUE
    /\ UNCHANGED <<stage, opened, failed, task, broken, late, request, conns>>

-----------------------------------------------------------------------------
(* Requests.  Each has a deadline of its own, so it ends in the end.       *)

Accept(q, s) ==
    /\ request[q] = "none"
    /\ task[s] = "running" /\ s \notin broken
    /\ request' = [request EXCEPT ![q] = s]
    /\ UNCHANGED <<stage, opened, cancelled, failed, task, broken, late, conns>>

(* pool.Close refuses new connections from the moment it is called. *)
PoolClosing == stage = "close" /\ opened = SubSeq(Resources, 1, 1)

Acquire(q) ==
    /\ request[q] # "none" /\ q \notin conns
    /\ "postgres" \in Open /\ ~PoolClosing
    /\ conns' = conns \cup {q}
    /\ UNCHANGED <<stage, opened, cancelled, failed, task, broken, late, request>>

Release(q) ==
    /\ q \in conns
    /\ conns' = conns \ {q}
    /\ UNCHANGED <<stage, opened, cancelled, failed, task, broken, late, request>>

Answer(q) ==
    /\ request[q] # "none" /\ q \notin conns
    /\ request' = [request EXCEPT ![q] = "none"]
    /\ UNCHANGED <<stage, opened, cancelled, failed, task, broken, late, conns>>

-----------------------------------------------------------------------------
(* The tasks.                                                              *)

(* A task returns; the first error ends the group's context. *)
Return(t, error) ==
    /\ task' = [task EXCEPT ![t] = "returned"]
    /\ failed' = (failed \/ error)
    /\ cancelled' = (cancelled \/ error)
    /\ UNCHANGED <<stage, opened, request, conns>>

(* ListenAndServe, Serve or the gRPC Listen fails. *)
ListenFails(s) ==
    /\ task[s] = "running" /\ s \notin broken
    /\ broken' = broken \cup {s}
    /\ UNCHANGED <<stage, opened, cancelled, failed, task, late, request, conns>>

(* Mutant: the shutdown waits for the context of run alone. *)
ShutDownOnSignal(s) ==
    /\ task[s] = "running"
    /\ cancelled
    /\ task' = [task EXCEPT ![s] = "draining"]
    /\ UNCHANGED <<stage, opened, cancelled, failed, broken, late, request, conns>>

(* The server's own errgroup is done: its shutdown goroutine starts. *)
ShutDown(s) ==
    /\ task[s] = "running"
    /\ cancelled \/ s \in broken
    /\ task' = [task EXCEPT ![s] = "draining"]
    /\ UNCHANGED <<stage, opened, cancelled, failed, broken, late, request, conns>>

Pending(s) == {q \in Requests : request[q] = s}

(* Mutant: the server returns without waiting for its requests. *)
DrainedAtOnce(s) ==
    /\ task[s] = "draining"
    /\ Return(s, s \in broken)
    /\ UNCHANGED <<broken, late>>

(* Shutdown or GracefulStop saw the last request end. *)
Drained(s) ==
    /\ task[s] = "draining"
    /\ Pending(s) = {}
    /\ Return(s, s \in broken)
    /\ UNCHANGED <<broken, late>>

(* Mutant: no server reports the requests it cut off. *)
DrainTimeoutSilent(s) ==
    /\ task[s] = "draining"
    /\ Pending(s) # {}
    /\ late' = late \cup {s}
    /\ Return(s, s \in broken)
    /\ UNCHANGED broken

(* ShutdownTimeout is over: Shutdown returns an error, GracefulStop is cut *)
(* short by Stop and returns none.  Neither waits for the handlers left.   *)
DrainTimeout(s) ==
    /\ task[s] = "draining"
    /\ Pending(s) # {}
    /\ late' = late \cup {s}
    /\ Return(s, s \in broken \/ s # "grpc")
    /\ UNCHANGED broken

(* Relay.Run and Janitor.Run return nil once the context is done; the      *)
(* relay's LISTEN connection is hijacked and never counts in the pool.     *)
LoopReturns(t) ==
    /\ t \notin Servers
    /\ task[t] = "running" /\ cancelled
    /\ Return(t, FALSE)
    /\ UNCHANGED <<broken, late>>

-----------------------------------------------------------------------------
(* Mutant: run returns with the first error, while other tasks still run. *)
WaitFirst ==
    /\ stage = "serve"
    /\ \E t \in Tasks : task[t] = "returned"
    /\ stage' = "close"
    /\ UNCHANGED <<opened, cancelled, failed, task, broken, late, request, conns>>

(* eg.Wait returned. *)
Wait ==
    /\ stage = "serve"
    /\ \A t \in Tasks : task[t] = "returned"
    /\ stage' = "close"
    /\ UNCHANGED <<opened, cancelled, failed, task, broken, late, request, conns>>

(* Mutant: the resource opened first is closed first. *)
CloseFirst ==
    /\ stage = "close" /\ opened # <<>>
    /\ PoolClosing => conns = {}
    /\ opened' = Tail(opened)
    /\ UNCHANGED <<stage, cancelled, failed, task, broken, late, request, conns>>

(* The deferred calls, last opened first.  The publisher and the broker's  *)
(* connection are given up after a timeout; pool.Close waits for every     *)
(* connection that is out.                                                 *)
CloseLast ==
    /\ stage = "close" /\ opened # <<>>
    /\ PoolClosing => conns = {}
    /\ opened' = SubSeq(opened, 1, Len(opened) - 1)
    /\ UNCHANGED <<stage, cancelled, failed, task, broken, late, request, conns>>

(* main returns and takes the handlers that are left with it. *)
Exit ==
    /\ stage = "close" /\ opened = <<>>
    /\ stage' = "exit"
    /\ UNCHANGED <<opened, cancelled, failed, task, broken, late, request, conns>>

Handle(q) == Release(q) \/ Answer(q)

TaskStep(t) ==
    \/ t \in Servers /\ (ShutDown(t) \/ Drained(t) \/ DrainTimeout(t))
    \/ LoopReturns(t)

Run == Spawn \/ Wait \/ CloseLast \/ Exit

Next ==
    \/ OpenNext \/ StartFails \/ Signal \/ Run
    \/ \E q \in Requests : (\E s \in Servers : Accept(q, s)) \/ Acquire(q) \/ Handle(q)
    \/ \E s \in Servers : ListenFails(s)
    \/ \E t \in Tasks : TaskStep(t)
    \/ stage = "exit" /\ UNCHANGED vars

Spec == Init /\ [][Next]_vars

(* Goroutines run, shutdowns and store calls have timeouts, and opening a  *)
(* resource succeeds or fails.                                             *)
Fairness ==
    /\ WF_vars(OpenNext \/ StartFails) /\ WF_vars(Run)
    /\ \A t \in Tasks : WF_vars(TaskStep(t))
    /\ \A q \in Requests : SF_vars(Release(q)) /\ WF_vars(Answer(q))

FairSpec == Spec /\ Fairness

-----------------------------------------------------------------------------
(* No task runs without a resource it calls: nothing is closed before the  *)
(* group has ended, and nothing starts before all is open (run).           *)
RunningTasksHaveResources ==
    \A t \in Tasks : task[t] \in {"running", "draining"} => Uses(t) \subseteq Open

(* Only a server that ran out of ShutdownTimeout leaves a request behind   *)
(* to meet closed connections.                                             *)
RequestsAreDrained ==
    stage \in {"close", "exit"} =>
        \A q \in Requests : request[q] # "none" => request[q] \in late

(* The process ends with status 0 only if it served and no task failed;    *)
(* requests cut off by an HTTP server show, those cut off by gRPC do not.  *)
ExitStatusHonest ==
    stage = "exit" /\ ~failed =>
        /\ \A t \in Tasks : task[t] = "returned"
        /\ broken = {} /\ late \subseteq {"grpc"}

(* A signal or a failed listener ends the process: no shutdown hangs on a  *)
(* request, a task or a connection.                                        *)
ShutdownEnds == (cancelled \/ failed \/ broken # {}) ~> stage = "exit"
=============================================================================
