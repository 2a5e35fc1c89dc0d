------------------------------ MODULE Dispatcher ------------------------------
(***************************************************************************)
(* dispatcher.py: how a request of the host becomes a response.            *)
(*                                                                         *)
(* Three kinds of actors share the Dispatcher object:                      *)
(*   - the gRPC thread (__poll_grpc) hands each incoming request to the    *)
(*     event loop and sends what it finds in the response queue;           *)
(*   - the event loop runs one task per request, and the main task         *)
(*     (dispatch_forever, stop);                                           *)
(*   - the threads of _sync_call_tp run the sync functions of users.       *)
(* A step of the loop is what one task does between two suspensions.  An   *)
(* environment reload waits for the thread pool inside a step, and blocks  *)
(* the loop meanwhile.  Functions here are not HTTP-streaming ones and     *)
(* use no shared memory: see HttpCoordinator and SharedMemory.             *)
(***************************************************************************)
EXTENDS Integers, Sequences, FiniteSets

CONSTANTS
    NumRequests,    \* bound: requests the host sends
    Contents,       \* request -> what it may be
    Functions,      \* functions of the app
    AsyncFunctions, \* those that are coroutines
    Threads,        \* thread slots of the pool, 1..n
    WorkerCounts,   \* values PYTHON_THREADPOOL_THREAD_COUNT may have
    MaxLogs,        \* bound: log records of one user function
    Outcomes,       \* how a user's function may end
    Faults,         \* what may go wrong around the worker
    Nil

Requests == 1..NumRequests

Kinds == {"worker_init_request", "worker_status_request",
          "functions_metadata_request", "function_load_request",
          "invocation_request", "function_environment_reload_request",
          "unknown"}

\* Every request names a function, which only loads and invocations read.
RequestContents == [kind : Kinds, function : Functions]

OutcomeKinds == {"returns", "raises", "exits"}

FaultKinds == {"connect_timeout", "stream_breaks", "interrupt", "init_error",
               "bad_variable"}

ASSUME ParametersAreBounded ==
    /\ NumRequests \in Nat /\ MaxLogs \in Nat
    /\ Contents \in [Requests -> SUBSET RequestContents]
    /\ AsyncFunctions \subseteq Functions
    /\ Threads \subseteq Nat \ {0} /\ WorkerCounts \subseteq Nat \ {0} /\ WorkerCounts # {}
    /\ \A n \in WorkerCounts : 1..n \subseteq Threads
    /\ Outcomes \subseteq OutcomeKinds
    /\ Faults \subseteq FaultKinds
    /\ Nil \notin Requests /\ Nil \notin {"Success", "Failure"}

VARIABLES
    phase,          \* where the main task is
    grpc,           \* where the gRPC thread is
    received,       \* number of requests handed to the loop so far
    request,        \* request -> its content
    state,          \* request -> where its task is
    outcome,        \* request -> how its user function ended, or what it failed on
    logs_left,      \* request -> log records its function may still write
    ready,          \* the loop's FIFO of tasks that can run
    draining,       \* the reload request that blocks the loop, or Nil
    loaded,         \* _functions: functions that are registered
    loop_local,     \* _invocation_id_local of the loop's thread
    pool_queue,     \* work queue of _sync_call_tp
    executing,      \* pool thread -> the invocation it runs
    thread_local,   \* pool thread -> its _invocation_id_local
    max_workers,    \* size of _sync_call_tp
    resp_queue,     \* _grpc_resp_queue
    sent            \* what the host got, in order

loopVars == <<request, outcome, logs_left, loaded, loop_local>>
poolVars == <<pool_queue, executing, thread_local, max_workers>>
wireVars == <<grpc, received, sent>>
vars == <<phase, state, ready, draining, resp_queue, loopVars, poolVars, wireVars>>

Phases == {"connecting", "connected", "dispatching", "stopping", "joining",
           "waiting_for_pool", "stopped", "failed"}

States == {"absent", "created", "pooled", "executing", "suspended", "resumed",
           "returned", "reloading", "answered", "ignored", "died"}

Messages ==
    [type : {"start_stream", "stop"}]
        \cup [type : {"response"}, of : Requests, status : {"Success", "Failure"}]
        \cup [type : {"rpc_log"}, of : Requests, source : {"worker", "user"},
              invocation_id : Requests \cup {Nil}]

TypeOK ==
    /\ phase \in Phases
    /\ grpc \in {"connecting", "streaming", "ended", "broken"}
    /\ received \in 0..NumRequests
    /\ request \in [Requests -> RequestContents \cup {Nil}]
    /\ state \in [Requests -> States]
    /\ outcome \in [Requests -> OutcomeKinds \cup {"not_found", "refused", Nil}]
    /\ logs_left \in [Requests -> 0..MaxLogs]
    /\ ready \in Seq(Requests)
    /\ draining \in Requests \cup {Nil}
    /\ loaded \subseteq Functions
    /\ loop_local \in Requests \cup {Nil}
    /\ pool_queue \in Seq(Requests)
    /\ executing \in [Threads -> Requests \cup {Nil}]
    /\ thread_local \in [Threads -> Requests \cup {Nil}]
    /\ max_workers \in WorkerCounts
    /\ resp_queue \in Seq(Messages)
    /\ sent \in Seq(Messages)

Init ==
    /\ phase = "connecting" /\ grpc = "connecting"
    /\ received = 0
    /\ request = [r \in Requests |-> Nil]
    /\ state = [r \in Requests |-> "absent"]
    /\ outcome = [r \in Requests |-> Nil]
    /\ logs_left = [r \in Requests |-> MaxLogs]
    /\ ready = <<>> /\ draining = Nil
    /\ loaded = {} /\ loop_local = Nil
    /\ pool_queue = <<>>
    /\ executing = [t \in Threads |-> Nil]
    /\ thread_local = [t \in Threads |-> Nil]
    /\ max_workers \in WorkerCounts
    /\ resp_queue = <<>> /\ sent = <<>>

-----------------------------------------------------------------------------
(* Messages to the host.                                                   *)

StartStream == [type |-> "start_stream"]
GRPC_STOP_RESPONSE == [type |-> "stop"]

Response(r, status) == [type |-> "response", of |-> r, status |-> status]

\* A record of the worker's own loggers, written by the task of r, which has
\* the invocation id id.  A task without one falls back on the loop thread's
\* thread-local (get_current_invocation_id).
WorkerLog(r, id) ==
    [type |-> "rpc_log", of |-> r, source |-> "worker",
     invocation_id |-> IF id # Nil THEN id ELSE loop_local]

UserLog(r, id) ==
    [type |-> "rpc_log", of |-> r, source |-> "user", invocation_id |-> id]

-----------------------------------------------------------------------------
(* The gRPC thread and the start of the main task.                         *)

GrpcConnects ==
    /\ grpc = "connecting"
    /\ grpc' = "streaming" /\ phase' = "connected"
    /\ UNCHANGED <<received, sent, state, ready, draining, resp_queue, loopVars, poolVars>>

\* The connected future gets the timeout's exception: connect raises it, and
\* dispatch_forever is never entered.
GrpcConnectTimeout ==
    /\ "connect_timeout" \in Faults
    /\ grpc = "connecting"
    /\ grpc' = "ended" /\ phase' = "failed"
    /\ UNCHANGED <<received, sent, state, ready, draining, resp_queue, loopVars, poolVars>>

\* dispatch_forever up to its await.
DispatchForever ==
    /\ phase = "connected"
    /\ phase' = "dispatching"
    /\ resp_queue' = Append(resp_queue, StartStream)
    /\ UNCHANGED <<state, ready, draining, loopVars, poolVars, wireVars>>

\* Mutant: the newest request goes first.
GrpcReceivesFirst(c) ==
    /\ grpc = "streaming"
    /\ StartStream \in {sent[k] : k \in DOMAIN sent}
    /\ received < NumRequests
    /\ c \in Contents[received + 1]
    /\ received' = received + 1
    /\ request' = [request EXCEPT ![received + 1] = c]
    /\ state' = [state EXCEPT ![received + 1] = "created"]
    /\ ready' = <<received + 1>> \o ready
    /\ UNCHANGED <<phase, grpc, sent, draining, resp_queue, outcome, logs_left, loaded,
                   loop_local, poolVars>>

\* The host talks after it got StartStream.  The request's task is made by a
\* callback of the loop; arrivals keep their order.
GrpcReceives(c) ==
    /\ grpc = "streaming"
    /\ StartStream \in {sent[k] : k \in DOMAIN sent}
    /\ received < NumRequests
    /\ c \in Contents[received + 1]
    /\ received' = received + 1
    /\ request' = [request EXCEPT ![received + 1] = c]
    /\ state' = [state EXCEPT ![received + 1] = "created"]
    /\ ready' = Append(ready, received + 1)
    /\ UNCHANGED <<phase, grpc, sent, draining, resp_queue, outcome, logs_left, loaded,
                   loop_local, poolVars>>

\* Mutant: the message stays in the queue.
GrpcPeeks ==
    /\ grpc = "streaming"
    /\ resp_queue # <<>>
    /\ Len(sent) <= 2 * NumRequests
    /\ sent' = Append(sent, Head(resp_queue))
    /\ resp_queue' \in {resp_queue, Tail(resp_queue)}
    /\ UNCHANGED <<phase, grpc, received, state, ready, draining, loopVars, poolVars>>

\* gen: the next message of the queue; the stop marker ends the stream.
GrpcSends ==
    /\ grpc = "streaming"
    /\ resp_queue # <<>>
    /\ resp_queue' = Tail(resp_queue)
    /\ IF Head(resp_queue) = GRPC_STOP_RESPONSE
       THEN grpc' = "ended" /\ UNCHANGED sent
       ELSE sent' = Append(sent, Head(resp_queue)) /\ UNCHANGED grpc
    /\ UNCHANGED <<phase, received, state, ready, draining, loopVars, poolVars>>

\* The host goes away: the request iterator ends and the thread returns.
\* Nothing tells the main task.
StreamBreaks ==
    /\ "stream_breaks" \in Faults
    /\ grpc = "streaming"
    /\ grpc' = "broken"
    /\ UNCHANGED <<phase, received, sent, state, ready, draining, resp_queue, loopVars, poolVars>>

-----------------------------------------------------------------------------
(* Tasks of the event loop.                                                *)

LoopIsFree == phase = "dispatching" /\ draining = Nil

Runs(r) == LoopIsFree /\ ready # <<>> /\ Head(ready) = r

\* The first step of the task of a request of kind k.
Begins(r, k) == Runs(r) /\ state[r] = "created" /\ request[r].kind = k

\* The task ends; its handler's response is queued after its log records.
Ends(r, messages, status) ==
    /\ state' = [state EXCEPT ![r] = "answered"]
    /\ ready' = Tail(ready)
    /\ resp_queue' = resp_queue \o messages \o <<Response(r, status)>>

\* An exception leaves the task: no response.
Dies(r, messages) ==
    /\ state' = [state EXCEPT ![r] = "died"]
    /\ ready' = Tail(ready)
    /\ resp_queue' = resp_queue \o messages

\* A content type without a handler is logged and dropped.
HandleUnknown(r) ==
    /\ Begins(r, "unknown")
    /\ state' = [state EXCEPT ![r] = "ignored"]
    /\ ready' = Tail(ready)
    /\ resp_queue' = Append(resp_queue, WorkerLog(r, Nil))
    /\ UNCHANGED <<phase, draining, loopVars, poolVars, wireVars>>

\* Functions enter the registry one by one and never leave it: a step that
\* fails to index the app keeps those it had come to.
Registers(functions) == loaded' = loaded \cup functions

\* With PYTHON_ENABLE_INIT_INDEXING the functions are registered here.
_handle__worker_init_request(r, registered) ==
    /\ Begins(r, "worker_init_request")
    /\ Registers(registered)
    /\ Ends(r, <<WorkerLog(r, Nil)>>, "Success")
    /\ UNCHANGED <<phase, draining, request, outcome, logs_left, loop_local, poolVars, wireVars>>

\* The HTTP server or the binding registry fails to start.
WorkerInitError(r, registered) ==
    /\ "init_error" \in Faults
    /\ Begins(r, "worker_init_request")
    /\ Registers(registered)
    /\ Dies(r, <<WorkerLog(r, Nil)>>)
    /\ UNCHANGED <<phase, draining, request, outcome, logs_left, loop_local, poolVars, wireVars>>

_handle__worker_status_request(r) ==
    /\ Begins(r, "worker_status_request")
    /\ Ends(r, <<>>, "Success")
    /\ UNCHANGED <<phase, draining, loopVars, poolVars, wireVars>>

\* Nothing is registered for an app in the legacy model, which has its
\* functions loaded one by one.
_handle__functions_metadata_request(r, registered, status) ==
    /\ Begins(r, "functions_metadata_request")
    /\ Registers(registered)
    /\ Ends(r, <<WorkerLog(r, Nil)>>, status)
    /\ UNCHANGED <<phase, draining, request, outcome, logs_left, loop_local, poolVars, wireVars>>

\* A function that is not registered yet is loaded, or the whole app is
\* indexed. The handler does not look the function up again: it also succeeds
\* when indexing registered others and not this one.
_handle__function_load_request(r, registered, status) ==
    /\ Begins(r, "function_load_request")
    /\ request[r].function \in loaded => registered = {}
    /\ Registers(registered)
    /\ Ends(r, <<WorkerLog(r, Nil)>>, status)
    /\ UNCHANGED <<phase, draining, request, outcome, logs_left, loop_local, poolVars, wireVars>>

\* get_function finds nothing: the assertion fails before anything is logged.
InvocationNotFound(r) ==
    /\ Begins(r, "invocation_request")
    /\ request[r].function \notin loaded
    /\ outcome' = [outcome EXCEPT ![r] = "not_found"]
    /\ Ends(r, <<>>, "Failure")
    /\ UNCHANGED <<phase, draining, request, logs_left, loaded, loop_local, poolVars, wireVars>>

\* An input of the invocation fails to decode.
InvocationDecodeError(r) ==
    /\ Begins(r, "invocation_request")
    /\ request[r].function \in loaded
    /\ Ends(r, <<WorkerLog(r, r)>>, "Failure")
    /\ UNCHANGED <<phase, draining, loopVars, poolVars, wireVars>>

\* The rest of the invocation handler, messages being what it logs before.  A
\* SystemExit of the user's code leaves the task, and the loop with it.
FinishInvocation(r, o, messages) ==
    CASE o = "returns" -> Ends(r, messages, "Success") /\ UNCHANGED phase
      [] o = "raises"  -> Ends(r, messages, "Failure") /\ UNCHANGED phase
      [] o = "exits"   -> Dies(r, messages) /\ phase' = "stopping"

\* Mutant: the function's name is stored instead of the invocation's id.
InvocationBeginsMisnamed(r) ==
    /\ Begins(r, "invocation_request")
    /\ request[r].function \in loaded
    /\ loop_local' = request[r].function

\* The invocation's first step up to the call of the user's function leaves
\* its id in the loop thread's thread-local.
InvocationBegins(r) ==
    /\ Begins(r, "invocation_request")
    /\ request[r].function \in loaded
    /\ loop_local' = r

\* Mutant: the loop waits for the thread.
SyncInvocationBlocks(r) ==
    /\ InvocationBegins(r)
    /\ request[r].function \notin AsyncFunctions
    /\ resp_queue' = Append(resp_queue, WorkerLog(r, r))
    /\ state' = [state EXCEPT ![r] = "pooled"]
    /\ pool_queue' = Append(pool_queue, r)
    /\ UNCHANGED <<phase, ready, draining, request, outcome, logs_left, loaded, executing,
                   thread_local, max_workers, wireVars>>

\* run_in_executor
SyncInvocationStarts(r) ==
    /\ InvocationBegins(r)
    /\ request[r].function \notin AsyncFunctions
    /\ resp_queue' = Append(resp_queue, WorkerLog(r, r))
    /\ state' = [state EXCEPT ![r] = "pooled"]
    /\ ready' = Tail(ready)
    /\ pool_queue' = Append(pool_queue, r)
    /\ UNCHANGED <<phase, draining, request, outcome, logs_left, loaded, executing,
                   thread_local, max_workers, wireVars>>

AsyncInvocationStarts(r) ==
    /\ InvocationBegins(r)
    /\ request[r].function \in AsyncFunctions
    /\ resp_queue' = Append(resp_queue, WorkerLog(r, r))
    /\ state' = [state EXCEPT ![r] = "suspended"]
    /\ ready' = Tail(ready)
    /\ UNCHANGED <<phase, draining, request, outcome, logs_left, loaded, poolVars, wireVars>>

\* A coroutine that never suspends ends within the step.
AsyncInvocationRunsThrough(r, o) ==
    /\ InvocationBegins(r)
    /\ request[r].function \in AsyncFunctions
    /\ outcome' = [outcome EXCEPT ![r] = o]
    /\ FinishInvocation(r, o, <<WorkerLog(r, r), UserLog(r, r)>>)
    /\ UNCHANGED <<draining, request, logs_left, loaded, poolVars, wireVars>>

\* What a coroutine of the user waits for is there.
AsyncFunctionWakes(r) ==
    /\ LoopIsFree
    /\ state[r] = "suspended"
    /\ state' = [state EXCEPT ![r] = "resumed"]
    /\ ready' = Append(ready, r)
    /\ UNCHANGED <<phase, draining, resp_queue, loopVars, poolVars, wireVars>>

\* The coroutine logs, in a task that has its invocation's id, and suspends.
AsyncFunctionLogs(r) ==
    /\ Runs(r) /\ state[r] = "resumed" /\ logs_left[r] > 0
    /\ logs_left' = [logs_left EXCEPT ![r] = @ - 1]
    /\ resp_queue' = Append(resp_queue, UserLog(r, r))
    /\ state' = [state EXCEPT ![r] = "suspended"]
    /\ ready' = Tail(ready)
    /\ UNCHANGED <<phase, draining, request, outcome, loaded, loop_local, poolVars, wireVars>>

AsyncFunctionEnds(r, o) ==
    /\ Runs(r) /\ state[r] = "resumed"
    /\ outcome' = [outcome EXCEPT ![r] = o]
    /\ FinishInvocation(r, o, <<>>)
    /\ UNCHANGED <<draining, request, logs_left, loaded, loop_local, poolVars, wireVars>>

SyncInvocationResumes(r) ==
    /\ Runs(r) /\ state[r] = "returned"
    /\ FinishInvocation(r, outcome[r], <<>>)
    /\ UNCHANGED <<draining, loopVars, poolVars, wireVars>>

-----------------------------------------------------------------------------
(* The thread pool: _run_sync_func.                                        *)

\* Mutant: the thread-local id is not set.
ThreadStartsAnonymous(t) ==
    /\ t <= max_workers
    /\ executing[t] = Nil /\ pool_queue # <<>>
    /\ executing' = [executing EXCEPT ![t] = Head(pool_queue)]
    /\ state' = [state EXCEPT ![Head(pool_queue)] = "executing"]
    /\ pool_queue' = Tail(pool_queue)
    /\ UNCHANGED <<phase, ready, draining, resp_queue, thread_local, max_workers, loopVars, wireVars>>

ThreadStarts(t) ==
    /\ t <= max_workers
    /\ executing[t] = Nil /\ pool_queue # <<>>
    /\ LET r == Head(pool_queue) IN
       /\ executing' = [executing EXCEPT ![t] = r]
       /\ thread_local' = [thread_local EXCEPT ![t] = r]
       /\ state' = [state EXCEPT ![r] = "executing"]
    /\ pool_queue' = Tail(pool_queue)
    /\ UNCHANGED <<phase, ready, draining, resp_queue, max_workers, loopVars, wireVars>>

\* The function logs: there is no running loop in the thread, so the record
\* gets the thread-local id.  Once stop has begun the log handler is detached,
\* but a record that passed it before may still come after the stop marker.
ThreadLogs(t) ==
    /\ executing[t] # Nil /\ logs_left[executing[t]] > 0
    /\ logs_left' = [logs_left EXCEPT ![executing[t]] = @ - 1]
    /\ \/ resp_queue' = Append(resp_queue, UserLog(executing[t], thread_local[t]))
       \/ phase \notin {"dispatching", "stopping"} /\ UNCHANGED resp_queue
    /\ UNCHANGED <<phase, state, ready, draining, request, outcome, loaded, loop_local,
                   poolVars, wireVars>>

\* Mutant: the result is handed over while the function still runs.
ThreadEndsEarly(t, o) ==
    /\ executing[t] # Nil
    /\ outcome' = [outcome EXCEPT ![executing[t]] = o]
    /\ state' = [state EXCEPT ![executing[t]] = "returned"]
    /\ ready' = Append(ready, executing[t])
    /\ UNCHANGED <<phase, draining, resp_queue, request, logs_left, loaded, loop_local,
                   poolVars, wireVars>>

\* Mutant: the loop is not told.
ThreadEndsSilently(t, o) ==
    /\ executing[t] # Nil
    /\ outcome' = [outcome EXCEPT ![executing[t]] = o]
    /\ state' = [state EXCEPT ![executing[t]] = "returned"]
    /\ executing' = [executing EXCEPT ![t] = Nil]
    /\ thread_local' = [thread_local EXCEPT ![t] = Nil]
    /\ UNCHANGED <<phase, ready, draining, resp_queue, request, logs_left, loaded, loop_local,
                   pool_queue, max_workers, wireVars>>

\* The future's callback makes the invocation's task ready.
ThreadEnds(t, o) ==
    /\ executing[t] # Nil
    /\ LET r == executing[t] IN
       /\ outcome' = [outcome EXCEPT ![r] = o]
       /\ state' = [state EXCEPT ![r] = "returned"]
       /\ ready' = Append(ready, r)
    /\ executing' = [executing EXCEPT ![t] = Nil]
    /\ thread_local' = [thread_local EXCEPT ![t] = Nil]
    /\ UNCHANGED <<phase, draining, resp_queue, request, logs_left, loaded, loop_local,
                   pool_queue, max_workers, wireVars>>

\* Mutant: the threads that are still busy are not waited for.
PoolQueueIsEmpty == pool_queue = <<>>

PoolIsEmpty == pool_queue = <<>> /\ \A t \in Threads : executing[t] = Nil

-----------------------------------------------------------------------------
(* Environment reload and stop.                                            *)

\* os.environ does not take a variable of the request: the handler fails before
\* it comes to the pool, which keeps its threads and its work.
ReloadRefused(r) ==
    /\ "bad_variable" \in Faults
    /\ Begins(r, "function_environment_reload_request")
    /\ outcome' = [outcome EXCEPT ![r] = "refused"]
    /\ Ends(r, <<WorkerLog(r, Nil)>>, "Failure")
    /\ UNCHANGED <<phase, draining, request, logs_left, loaded, loop_local, poolVars, wireVars>>

\* The handler shuts the pool down, which waits for all work given to it: the
\* loop is blocked until ReloadEnds.
ReloadBegins(r) ==
    /\ Begins(r, "function_environment_reload_request")
    /\ state' = [state EXCEPT ![r] = "reloading"]
    /\ draining' = r
    /\ resp_queue' = Append(resp_queue, WorkerLog(r, Nil))
    /\ UNCHANGED <<phase, ready, loopVars, poolVars, wireVars>>

\* Mutant: the old pool is replaced without waiting for it.
ReloadEndsAtOnce(n, registered, status) ==
    /\ phase = "dispatching"
    /\ draining # Nil
    /\ max_workers' = n
    /\ Registers(registered)
    /\ Ends(draining, <<>>, status)
    /\ draining' = Nil
    /\ UNCHANGED <<phase, request, outcome, logs_left, loop_local, pool_queue, executing,
                   thread_local, wireVars>>

\* A new pool with new threads; what comes after it may register functions
\* and may fail.
ReloadEnds(n, registered, status) ==
    /\ phase = "dispatching"
    /\ draining # Nil /\ PoolIsEmpty
    /\ max_workers' = n
    /\ thread_local' = [t \in Threads |-> Nil]
    /\ Registers(registered)
    /\ Ends(draining, <<>>, status)
    /\ draining' = Nil
    /\ UNCHANGED <<phase, request, outcome, logs_left, loop_local, pool_queue, executing, wireVars>>

\* KeyboardInterrupt, wherever the loop's thread is.
Interrupt ==
    /\ "interrupt" \in Faults
    /\ phase = "dispatching"
    /\ phase' = "stopping"
    /\ draining' = Nil
    /\ state' = [r \in Requests |-> IF r = draining THEN "died" ELSE state[r]]
    /\ UNCHANGED <<ready, resp_queue, loopVars, poolVars, wireVars>>

\* Mutant: the marker overtakes the responses.
StopBeginsAtOnce ==
    /\ phase = "stopping"
    /\ phase' = "joining"
    /\ resp_queue' = <<GRPC_STOP_RESPONSE>> \o resp_queue
    /\ UNCHANGED <<state, ready, draining, loopVars, poolVars, wireVars>>

\* Mutant: the gRPC thread is joined without a marker for it.
StopBeginsUnmarked ==
    /\ phase = "stopping"
    /\ phase' = "joining"
    /\ UNCHANGED <<state, ready, draining, resp_queue, loopVars, poolVars, wireVars>>

\* stop: the marker, the gRPC thread's end, the pool's end.
StopBegins ==
    /\ phase = "stopping"
    /\ phase' = "joining"
    /\ resp_queue' = Append(resp_queue, GRPC_STOP_RESPONSE)
    /\ UNCHANGED <<state, ready, draining, loopVars, poolVars, wireVars>>

StopJoins ==
    /\ phase = "joining"
    /\ grpc \in {"ended", "broken"}
    /\ phase' = "waiting_for_pool"
    /\ UNCHANGED <<state, ready, draining, resp_queue, loopVars, poolVars, wireVars>>

StopEnds ==
    /\ phase = "waiting_for_pool"
    /\ PoolIsEmpty
    /\ phase' = "stopped"
    /\ UNCHANGED <<state, ready, draining, resp_queue, loopVars, poolVars, wireVars>>

-----------------------------------------------------------------------------
TaskStep(r) ==
    \/ HandleUnknown(r)
    \/ \E registered \in SUBSET Functions :
            \/ _handle__worker_init_request(r, registered)
            \/ WorkerInitError(r, registered)
    \/ _handle__worker_status_request(r)
    \/ \E registered \in SUBSET Functions, status \in {"Success", "Failure"} :
            \/ _handle__functions_metadata_request(r, registered, status)
            \/ _handle__function_load_request(r, registered, status)
    \/ InvocationNotFound(r)
    \/ InvocationDecodeError(r)
    \/ SyncInvocationStarts(r)
    \/ AsyncInvocationStarts(r)
    \/ \E o \in Outcomes : AsyncInvocationRunsThrough(r, o)
    \/ AsyncFunctionLogs(r)
    \/ \E o \in Outcomes : AsyncFunctionEnds(r, o)
    \/ SyncInvocationResumes(r)
    \/ ReloadRefused(r)
    \/ ReloadBegins(r)

LoopStep ==
    \/ DispatchForever
    \/ \E r \in Requests : TaskStep(r)
    \/ \E n \in WorkerCounts, registered \in SUBSET Functions, status \in {"Success", "Failure"} :
            ReloadEnds(n, registered, status)
    \/ StopBegins \/ StopJoins \/ StopEnds

\* What a user's function does of its own.
UserStep(r) ==
    \/ AsyncFunctionWakes(r)
    \/ \E t \in Threads : executing[t] = r /\ (ThreadLogs(t) \/ \E o \in Outcomes : ThreadEnds(t, o))

GrpcStep == GrpcConnects \/ GrpcSends

HostStep ==
    \/ GrpcConnectTimeout
    \/ \E c \in RequestContents : GrpcReceives(c)
    \/ StreamBreaks
    \/ Interrupt

Next ==
    \/ LoopStep
    \/ \E t \in Threads : ThreadStarts(t)
    \/ \E r \in Requests : UserStep(r)
    \/ GrpcStep
    \/ HostStep

\* The loop, the pool's threads and the gRPC thread run when they can.
WorkerFairness ==
    /\ WF_vars(LoopStep)
    /\ \A t \in Threads : WF_vars(ThreadStarts(t))
    /\ WF_vars(GrpcStep)

\* Users' functions end.
UserFairness == \A r \in Requests : WF_vars(UserStep(r))

Spec == Init /\ [][Next]_vars /\ WorkerFairness /\ UserFairness

\* Users' functions may run for ever.
HangingSpec == Init /\ [][Next]_vars /\ WorkerFairness

-----------------------------------------------------------------------------
(* Properties.                                                             *)

\* Everything the worker said to the host or is about to say, in order.
Said == sent \o resp_queue

IsResponseOf(m, r) == m.type = "response" /\ m.of = r
IsUserLog(m) == m.type = "rpc_log" /\ m.source = "user"

\* What a user's function logs reaches the host before its response, as
\* test_mock_http_functions.py collects it, whatever thread it ran in.
UserLogsPrecedeResponse ==
    \A j, k \in DOMAIN Said : IsUserLog(Said[k]) /\ IsResponseOf(Said[j], Said[k].of) => k < j

\* A record a user's function logs carries the id of its own invocation, with
\* other functions running in other threads and tasks.
UserLogsAttributed ==
    \A k \in DOMAIN Said : IsUserLog(Said[k]) => Said[k].invocation_id = Said[k].of

Executing == {t \in Threads : executing[t] # Nil}

\* Never more sync functions at a time than the setting allows, also after a
\* reload to fewer threads, and each invocation in one thread.
PoolBounded ==
    /\ Cardinality(Executing) <= max_workers
    /\ \A s, t \in Executing : executing[s] = executing[t] => s = t

\* A reload is a barrier for the pool: once it is answered, be it with a failure
\* of a later part of the handler, no sync function of an earlier invocation
\* runs or waits to run in the old environment's pool.  Only a reload whose
\* variables are refused is answered before.
ReloadIsBarrier ==
    \A p, r \in Requests :
        /\ p < r /\ state[r] = "answered"
        /\ request[r].kind = "function_environment_reload_request"
        /\ outcome[r] # "refused"
        => state[p] \notin {"pooled", "executing"}

\* Requests begin in the order they came: one is not looked at before every
\* earlier one was begun, invocations included, and every earlier one that is
\* no invocation is done with, a reload that waits included.
BeginsInOrder ==
    \A p, r \in Requests :
        p < r /\ state[r] \notin {"absent", "created"} =>
            /\ state[p] \notin {"absent", "created"}
            /\ request[p].kind # "invocation_request" =>
                    state[p] \in {"answered", "ignored", "died"}

\* stop hands everything that was queued to the stream before it ends, unless
\* the host went away.
StopFlushes ==
    phase \in {"waiting_for_pool", "stopped"} /\ grpc = "ended" =>
        \A r \in Requests : state[r] = "answered" =>
            \E k \in DOMAIN sent : IsResponseOf(sent[k], r)

Got(r) == \E k \in DOMAIN sent : IsResponseOf(sent[k], r)

\* The host or the main task has ended the exchange.
WorkerStops == phase \in {"stopping", "joining", "waiting_for_pool", "stopped", "failed"}
                   \/ grpc = "broken"

\* The request waits for a user's function: it is an invocation whose function
\* has not ended or has no thread to run in, or the loop is in a reload that
\* waits for a thread.
WaitsForUser(r) ==
    \/ state[r] \in {"executing", "suspended"}
    \/ state[r] = "pooled" /\ \A t \in 1..max_workers : executing[t] # Nil
    \/ /\ state[r] # "answered"
       /\ draining # Nil /\ \E t \in Threads : executing[t] # Nil

\* Every request the worker has a handler for is answered while the worker runs,
\* unless an exception left its task (a SystemExit, the failure of the HTTP
\* server, or the interrupt of a reload) or it waits for a user's function for
\* ever: a status request does not wait for one, however many hang, but behind a
\* reload that does.
RequestsAnswered ==
    \A r \in Requests :
        (state[r] # "absent" /\ request[r].kind # "unknown")
            ~> (Got(r) \/ state[r] = "died" \/ WorkerStops \/ []WaitsForUser(r))

\* The worker stops once it began to, also with a broken stream and with
\* invocations and reloads that are not done, unless a sync function keeps its
\* thread for ever.
StopTerminates ==
    (phase = "stopping")
        ~> \/ phase = "stopped"
           \/ [](phase = "waiting_for_pool" /\ \E t \in Threads : executing[t] # Nil)

\* The dispatcher implements a server that answers each request once.
TimesGot(r, status) == Cardinality({k \in DOMAIN sent : sent[k] = Response(r, status)})

Server == INSTANCE RequestResponse WITH
    asked <- {r \in Requests : state[r] # "absent"},
    replied <- [r \in Requests |-> [status \in {"Success", "Failure"} |-> TimesGot(r, status)]]

ServerSpec == Server!Spec

=============================================================================
