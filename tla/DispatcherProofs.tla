-------------------------- MODULE DispatcherProofs --------------------------
(***************************************************************************)
(* What the dispatcher promises the host, for any requests, functions,     *)
(* threads and faults.                                                     *)
(*                                                                         *)
(* FullInv says where each request is: in the loop's queue, the pool's, a  *)
(* thread, or answered; the size of the pool, the reload as a barrier and  *)
(* the order of requests follow.  MsgInv, on top of it, says what was said *)
(* of each request and where the stop marker is; the properties of logs,   *)
(* of stop and the refinement of RequestResponse follow.                   *)
(***************************************************************************)
EXTENDS Dispatcher, FiniteSetTheorems, TLAPS

-----------------------------------------------------------------------------
(* Facts about sequences.                                                  *)

LEMMA TailFacts ==
    ASSUME NEW S, NEW q \in Seq(S), q # <<>>
    PROVE  /\ Tail(q) \in Seq(S)
           /\ Len(Tail(q)) = Len(q) - 1
           /\ \A k \in 1..Len(Tail(q)) : Tail(q)[k] = q[k + 1]
           /\ Head(q) = q[1] /\ Head(q) \in S /\ Len(q) \in Nat \ {0}
OBVIOUS

LEMMA AppendFacts ==
    ASSUME NEW S, NEW q \in Seq(S), NEW e \in S
    PROVE  /\ Append(q, e) \in Seq(S)
           /\ Len(Append(q, e)) = Len(q) + 1
           /\ \A k \in 1..Len(q) : Append(q, e)[k] = q[k]
           /\ Append(q, e)[Len(q) + 1] = e
OBVIOUS

-----------------------------------------------------------------------------
(* Type correctness.                                                       *)

Statuses == {"Success", "Failure"}

LEMMA MessageTypes ==
    ASSUME TypeOK, NEW r \in Requests
    PROVE  /\ StartStream \in Messages /\ GRPC_STOP_RESPONSE \in Messages
           /\ \A status \in Statuses : Response(r, status) \in Messages
           /\ \A id \in Requests \cup {Nil} :
                WorkerLog(r, id) \in Messages /\ UserLog(r, id) \in Messages
BY DEF TypeOK, Messages, StartStream, GRPC_STOP_RESPONSE, Response, WorkerLog, UserLog, Statuses

LEMMA EndsType ==
    ASSUME TypeOK, NEW r \in Requests, ready # <<>>,
           NEW messages \in Seq(Messages), NEW status \in Statuses, Ends(r, messages, status)
    PROVE  /\ state' \in [Requests -> States]
           /\ ready' \in Seq(Requests)
           /\ resp_queue' \in Seq(Messages)
<1>1. <<Response(r, status)>> \in Seq(Messages)
    BY MessageTypes
<1>2. resp_queue' \in Seq(Messages)
    BY <1>1 DEF Ends, TypeOK
<1>3. ready' \in Seq(Requests)
    BY TailFacts DEF Ends, TypeOK
<1> QED
    BY <1>2, <1>3 DEF Ends, TypeOK, States

LEMMA DiesType ==
    ASSUME TypeOK, NEW r \in Requests, ready # <<>>,
           NEW messages \in Seq(Messages), Dies(r, messages)
    PROVE  /\ state' \in [Requests -> States]
           /\ ready' \in Seq(Requests)
           /\ resp_queue' \in Seq(Messages)
<1>2. resp_queue' \in Seq(Messages)
    BY DEF Dies, TypeOK
<1>3. ready' \in Seq(Requests)
    BY TailFacts DEF Dies, TypeOK
<1> QED
    BY <1>2, <1>3 DEF Dies, TypeOK, States

LEMMA FinishType ==
    ASSUME TypeOK, NEW r \in Requests, ready # <<>>, NEW o \in OutcomeKinds,
           NEW messages \in Seq(Messages), FinishInvocation(r, o, messages),
           phase \in Phases
    PROVE  /\ state' \in [Requests -> States]
           /\ ready' \in Seq(Requests)
           /\ resp_queue' \in Seq(Messages)
           /\ phase' \in Phases
<1>1. CASE o = "returns"
    BY <1>1, EndsType DEF FinishInvocation, Statuses
<1>2. CASE o = "raises"
    BY <1>2, EndsType DEF FinishInvocation, Statuses
<1>3. CASE o = "exits"
    BY <1>3, DiesType DEF FinishInvocation, Phases
<1> QED
    BY <1>1, <1>2, <1>3 DEF OutcomeKinds

-----------------------------------------------------------------------------
(* The inductive invariant.                                                *)

\* The pool's queue and its threads hold exactly the invocations that are
\* there by their state, each of them once, in threads the pool has.
PoolInv ==
    /\ \A t \in Threads : executing[t] # Nil =>
            /\ state[executing[t]] = "executing"
            /\ thread_local[t] = executing[t]
            /\ t <= max_workers
    /\ \A s, t \in Executing : executing[s] = executing[t] => s = t
    /\ \A k \in 1..Len(pool_queue) : state[pool_queue[k]] = "pooled"
    /\ \A j, k \in 1..Len(pool_queue) : pool_queue[j] = pool_queue[k] => j = k
    /\ \A r \in Requests : state[r] = "pooled" => \E k \in 1..Len(pool_queue) : pool_queue[k] = r
    /\ \A r \in Requests : state[r] = "executing" => \E t \in Threads : executing[t] = r

\* While the loop runs, its queue holds each ready task once, and the tasks
\* that were not begun in the order of their requests.
ReadyInv ==
    phase = "dispatching" =>
        /\ \A k \in 1..Len(ready) :
                \/ state[ready[k]] \in {"created", "resumed", "returned"}
                \/ state[ready[k]] = "reloading" /\ draining = ready[k]
        /\ \A j, k \in 1..Len(ready) : ready[j] = ready[k] => j = k
        /\ \A r \in Requests : state[r] = "created" => \E k \in 1..Len(ready) : ready[k] = r
        /\ \A j, k \in 1..Len(ready) :
                j < k /\ state[ready[j]] = "created" /\ state[ready[k]] = "created" =>
                    ready[j] < ready[k]
        /\ draining # Nil => ready # <<>> /\ Head(ready) = draining

\* A request's state fits its kind and its place among the received ones.
StateInv ==
    /\ \A r \in Requests : state[r] = "absent" <=> r > received
    /\ \A r \in Requests : r <= received => request[r] \in RequestContents
    /\ \A r \in Requests :
            state[r] \in {"pooled", "executing", "suspended", "resumed", "returned"} =>
                request[r].kind = "invocation_request"
    /\ \A r \in Requests : state[r] = "returned" => outcome[r] \in OutcomeKinds
    /\ \A r \in Requests : state[r] = "reloading" <=> draining = r
    /\ \A r \in Requests : state[r] = "reloading" =>
            request[r].kind = "function_environment_reload_request"
    /\ draining # Nil => phase = "dispatching"

Unbegun == {"absent", "created"}

\* Nothing overtakes a request that was not begun, or a reload.
OrderInv ==
    \A p, r \in Requests :
        p < r /\ state[p] \in {"created", "reloading"} => state[r] \in Unbegun

IInv == TypeOK /\ PoolInv /\ ReadyInv /\ StateInv /\ OrderInv /\ ReloadIsBarrier

LEMMA InitIInv == Init => IInv
<1> SUFFICES ASSUME Init PROVE IInv
    OBVIOUS
<1>1. TypeOK
    BY ParametersAreBounded DEF Init, TypeOK, Phases, States
<1>2. PoolInv /\ ReadyInv
    BY DEF Init, PoolInv, ReadyInv, Executing
<1>3. StateInv
    BY ParametersAreBounded DEF Init, StateInv, Requests
<1>4. OrderInv /\ ReloadIsBarrier
    BY DEF Init, OrderInv, ReloadIsBarrier, Unbegun
<1> QED
    BY <1>1, <1>2, <1>3, <1>4 DEF IInv

-----------------------------------------------------------------------------
(* Steps of the loop's tasks.                                              *)

AtHead(r) == phase = "dispatching" /\ ready # <<>> /\ Head(ready) = r

\* A task at the head of the queue leaves it and gets state x.
Leaves(r, x) ==
    /\ AtHead(r)
    /\ state' = [state EXCEPT ![r] = x]
    /\ ready' = Tail(ready)
    /\ draining \in {Nil, r} /\ draining' = Nil
    /\ UNCHANGED <<received, request>>

\* A request is begun when all before it were.
LEMMA BeginsLast ==
    ASSUME IInv, NEW r \in Requests, AtHead(r), NEW p \in Requests, p < r
    PROVE  state[r] = "created" => state[p] \notin {"absent", "created", "reloading"}
<1> SUFFICES ASSUME state[r] = "created" PROVE state[p] \notin {"absent", "created", "reloading"}
    OBVIOUS
<1>1. /\ r <= received /\ received \in Nat
      /\ phase = "dispatching" /\ draining # p
      /\ ready \in Seq(Requests) /\ ready # <<>> /\ r = ready[1] /\ Len(ready) >= 1
    <2>1. ready \in Seq(Requests) /\ ready # <<>> /\ r = Head(ready) /\ phase = "dispatching"
        BY DEF IInv, TypeOK, AtHead
    <2>2. r = ready[1] /\ Len(ready) >= 1
        BY <2>1, TailFacts
    <2>3. draining # p
        BY <2>1, ParametersAreBounded DEF IInv, ReadyInv, Requests
    <2>4. r <= received /\ received \in Nat
        BY ParametersAreBounded DEF IInv, TypeOK, StateInv, Requests
    <2> QED
        BY <2>1, <2>2, <2>3, <2>4
<1>2. state[p] # "absent"
    BY <1>1, ParametersAreBounded DEF IInv, StateInv, Requests
<1>3. state[p] # "reloading"
    BY <1>1, ParametersAreBounded DEF IInv, StateInv
<1>4. ASSUME state[p] = "created" PROVE FALSE
    <2>1. PICK k \in 1..Len(ready) : ready[k] = p
        BY <1>1, <1>4 DEF IInv, ReadyInv
    <2>2. k # 1
        BY <1>1, <2>1, ParametersAreBounded DEF Requests
    <2>3. ready[1] < ready[k]
        BY <1>1, <1>4, <2>1, <2>2 DEF IInv, ReadyInv
    <2> QED
        BY <1>1, <2>1, <2>3, ParametersAreBounded DEF Requests
<1> QED
    BY <1>2, <1>3, <1>4

LEMMA LeavesReady ==
    ASSUME IInv, TypeOK', NEW r \in Requests, NEW x \in States, Leaves(r, x),
           x \notin {"absent", "created", "reloading"}, phase' \in {"dispatching", "stopping"}
    PROVE  ReadyInv'
<1> SUFFICES ASSUME phase' = "dispatching" PROVE ReadyInv'
    BY DEF ReadyInv
<1>1. /\ phase = "dispatching" /\ draining \in {Nil, r} /\ draining' = Nil
      /\ ready \in Seq(Requests) /\ ready # <<>> /\ r = ready[1]
      /\ Len(ready) \in Nat \ {0}
      /\ Len(ready') = Len(ready) - 1
      /\ \A k \in 1..Len(ready') : ready'[k] = ready[k + 1]
    BY TailFacts DEF IInv, TypeOK, Leaves, AtHead
<1>2. /\ \A j, k \in 1..Len(ready) : ready[j] = ready[k] => j = k
      /\ \A k \in 1..Len(ready) : state[ready[k]] \in {"created", "resumed", "returned", "reloading"}
      /\ \A k \in 1..Len(ready) : state[ready[k]] = "reloading" => draining = ready[k]
      /\ \A q \in Requests : state[q] = "created" => \E k \in 1..Len(ready) : ready[k] = q
      /\ \A j, k \in 1..Len(ready) :
            j < k /\ state[ready[j]] = "created" /\ state[ready[k]] = "created" => ready[j] < ready[k]
    BY <1>1 DEF IInv, ReadyInv
<1>3. \A k \in 1..Len(ready') : ready'[k] \in Requests /\ ready'[k] # r
    BY SMTT(30), <1>1, <1>2
<1>4. state'[r] = x /\ \A q \in Requests \ {r} : state'[q] = state[q]
    BY DEF Leaves, IInv, TypeOK
<1>5. \A q \in Requests : state'[q] = "created" => \E k \in 1..Len(ready') : ready'[k] = q
    <2> SUFFICES ASSUME NEW q \in Requests, state'[q] = "created"
                 PROVE  \E k \in 1..Len(ready') : ready'[k] = q
        OBVIOUS
    <2>1. q # r /\ state[q] = "created"
        BY <1>4
    <2>2. PICK k \in 1..Len(ready) : ready[k] = q
        BY <1>2, <2>1
    <2>3. k - 1 \in 1..Len(ready') /\ ready'[k - 1] = q
        BY <1>1, <2>1, <2>2
    <2> QED
        BY <2>3
<1>6. \A k \in 1..Len(ready') :
        \/ state'[ready'[k]] \in {"created", "resumed", "returned"}
        \/ state'[ready'[k]] = "reloading" /\ draining' = ready'[k]
    BY <1>1, <1>2, <1>3, <1>4
<1>7. \A j, k \in 1..Len(ready') : ready'[j] = ready'[k] => j = k
    BY <1>1, <1>2
<1>8. \A j, k \in 1..Len(ready') :
        j < k /\ state'[ready'[j]] = "created" /\ state'[ready'[k]] = "created" =>
            ready'[j] < ready'[k]
    BY SMTT(30), <1>1, <1>2, <1>3, <1>4
<1> QED
    BY <1>1, <1>5, <1>6, <1>7, <1>8 DEF ReadyInv

\* The task at the head of the queue of a loop that is free.
LEMMA RunningTask ==
    ASSUME IInv, NEW r \in Requests, Runs(r)
    PROVE  /\ state[r] \in {"created", "resumed", "returned"}
           /\ draining = Nil /\ phase = "dispatching" /\ ready # <<>>
           /\ r <= received
<1>1. /\ ready \in Seq(Requests) /\ ready # <<>> /\ r = ready[1] /\ 1 \in 1..Len(ready)
      /\ phase = "dispatching" /\ draining = Nil
    BY TailFacts DEF IInv, TypeOK, Runs, LoopIsFree
<1>2. state[r] \in {"created", "resumed", "returned"}
    BY <1>1, ParametersAreBounded DEF IInv, ReadyInv
<1> QED
    BY SMTT(30), <1>1, <1>2, ParametersAreBounded DEF IInv, TypeOK, StateInv, Requests

LEMMA LeavingTask ==
    ASSUME IInv, NEW r \in Requests, NEW x, Leaves(r, x)
    PROVE  state[r] \in {"created", "resumed", "returned", "reloading"} /\ r <= received
<1>1. /\ ready \in Seq(Requests) /\ ready # <<>> /\ r = ready[1] /\ 1 \in 1..Len(ready)
      /\ phase = "dispatching"
    BY TailFacts DEF IInv, TypeOK, Leaves, AtHead
<1>2. state[r] \in {"created", "resumed", "returned", "reloading"}
    BY <1>1, ParametersAreBounded DEF IInv, ReadyInv
<1> QED
    BY SMTT(30), <1>1, <1>2, ParametersAreBounded DEF IInv, TypeOK, StateInv, Requests

\* Its effect on the order of requests.
LEMMA LeavesOrder ==
    ASSUME IInv, TypeOK', NEW r \in Requests, NEW x \in States, Leaves(r, x),
           x \in {"answered", "ignored", "died", "pooled", "suspended"},
           x \in {"pooled", "suspended"} => request[r].kind = "invocation_request",
           \A q \in Requests \ {r} : outcome'[q] = outcome[q]
    PROVE  OrderInv' /\ StateInv'
<1>1. /\ draining \in {Nil, r} /\ draining' = Nil /\ received' = received /\ request' = request
      /\ state'[r] = x /\ \A q \in Requests \ {r} : state'[q] = state[q]
    BY DEF Leaves, IInv, TypeOK
<1>2. state[r] \in {"created", "resumed", "returned", "reloading"} /\ r <= received
    BY LeavingTask
<1>3. \A p \in Requests : p < r => state[p] \notin {"created", "reloading"}
    BY <1>2, BeginsLast DEF Leaves, IInv, OrderInv, Unbegun
<1>4. OrderInv'
    BY <1>1, <1>2, <1>3 DEF IInv, OrderInv, Unbegun
<1>5. StateInv'
    <2>1. \A q \in Requests : state'[q] = "absent" <=> q > received
        BY SMTT(30), <1>1, <1>2, ParametersAreBounded DEF IInv, StateInv, TypeOK, Requests
    <2>2. \A q \in Requests : state'[q] # "reloading" /\ draining' # q
        BY <1>1, ParametersAreBounded DEF IInv, StateInv
    <2> QED
        BY <1>1, <2>1, <2>2 DEF IInv, StateInv
<1> QED
    BY <1>4, <1>5

\* Its effect on the pool, when it is given no work.
LEMMA LeavesPool ==
    ASSUME IInv, TypeOK', NEW r \in Requests, NEW x \in States, Leaves(r, x),
           x \notin {"pooled", "executing"}, UNCHANGED poolVars
    PROVE  PoolInv'
<1>1. /\ state'[r] = x /\ \A q \in Requests \ {r} : state'[q] = state[q]
      /\ state[r] \notin {"pooled", "executing"}
    BY LeavingTask DEF Leaves, IInv, TypeOK
<1>2. \A q \in Requests : q # r \/ state'[q] \notin {"pooled", "executing"}
    BY <1>1
<1>3. /\ pool_queue' = pool_queue /\ executing' = executing /\ thread_local' = thread_local
      /\ max_workers' = max_workers /\ Executing' = Executing
    BY DEF poolVars, Executing
<1>4. \A t \in Threads : executing[t] # Nil => executing[t] \in Requests \ {r}
    BY <1>1 DEF IInv, PoolInv, TypeOK
<1>5. \A k \in 1..Len(pool_queue) : pool_queue[k] \in Requests \ {r}
    <2>1. pool_queue \in Seq(Requests)
        BY DEF IInv, TypeOK
    <2>2. \A k \in 1..Len(pool_queue) : state[pool_queue[k]] = "pooled"
        BY DEF IInv, PoolInv
    <2> QED
        BY <1>1, <2>1, <2>2
<1>6. \A t \in Threads : executing'[t] # Nil =>
            /\ state'[executing'[t]] = "executing"
            /\ thread_local'[t] = executing'[t]
            /\ t <= max_workers'
    BY <1>1, <1>3, <1>4 DEF IInv, PoolInv
<1>7. \A s, t \in Executing' : executing'[s] = executing'[t] => s = t
    BY <1>3 DEF IInv, PoolInv
<1>8. /\ \A k \in 1..Len(pool_queue') : state'[pool_queue'[k]] = "pooled"
      /\ \A j, k \in 1..Len(pool_queue') : pool_queue'[j] = pool_queue'[k] => j = k
    BY <1>1, <1>3, <1>5 DEF IInv, PoolInv
<1>9. /\ \A q \in Requests : state'[q] = "pooled" => \E k \in 1..Len(pool_queue') : pool_queue'[k] = q
      /\ \A q \in Requests : state'[q] = "executing" => \E t \in Threads : executing'[t] = q
    BY <1>1, <1>2, <1>3 DEF IInv, PoolInv
<1> QED
    BY <1>6, <1>7, <1>8, <1>9 DEF PoolInv

\* A reload that is answered by now leaves nothing of the pool before it.
LEMMA LeavesBarrier ==
    ASSUME IInv, TypeOK', NEW r \in Requests, NEW x \in States, Leaves(r, x),
           x \in {"answered", "ignored", "died", "pooled", "suspended"},
           x = "answered" =>
               request[r].kind # "function_environment_reload_request" \/ outcome'[r] = "refused",
           x = "pooled" => state[r] = "created",
           \A q \in Requests \ {r} : outcome'[q] = outcome[q]
    PROVE  ReloadIsBarrier'
<1>1. /\ received' = received /\ request' = request
      /\ state'[r] = x /\ \A q \in Requests \ {r} : state'[q] = state[q]
    BY DEF Leaves, IInv, TypeOK
<1>2. \A q \in Requests : r < q /\ state[r] = "created" => state[q] # "answered"
    BY DEF IInv, OrderInv, Unbegun
<1> QED
    BY <1>1, <1>2 DEF IInv, ReloadIsBarrier

\* The four together: a task that ends, dies or suspends.
LEMMA LeavesStep ==
    ASSUME IInv, TypeOK', NEW r \in Requests, NEW x \in States, Leaves(r, x),
           x \in {"answered", "ignored", "died", "suspended"},
           x = "suspended" => request[r].kind = "invocation_request",
           x = "answered" =>
               request[r].kind # "function_environment_reload_request" \/ outcome'[r] = "refused",
           \A q \in Requests \ {r} : outcome'[q] = outcome[q],
           phase' \in {"dispatching", "stopping"}, UNCHANGED poolVars
    PROVE  IInv'
<1>1. ReadyInv'
    BY LeavesReady
<1>2. OrderInv' /\ StateInv'
    BY LeavesOrder
<1>3. PoolInv'
    BY LeavesPool
<1>4. ReloadIsBarrier'
    BY LeavesBarrier
<1> QED
    BY <1>1, <1>2, <1>3, <1>4 DEF IInv

\* Handlers that answer or drop their request in their first step.
LEMMA EndsStep ==
    ASSUME IInv, NEW r \in Requests, Runs(r),
           NEW messages \in Seq(Messages), NEW status \in Statuses, Ends(r, messages, status),
           request[r].kind # "function_environment_reload_request" \/ outcome'[r] = "refused",
           outcome' \in [Requests -> OutcomeKinds \cup {"not_found", "refused", Nil}],
           \A q \in Requests \ {r} : outcome'[q] = outcome[q],
           loaded' \subseteq Functions, loop_local' \in Requests \cup {Nil},
           UNCHANGED <<phase, draining, request, logs_left, poolVars, wireVars>>
    PROVE  IInv'
<1>0. /\ TypeOK /\ ready # <<>> /\ phase = "dispatching"
    BY RunningTask DEF IInv
<1>1. TypeOK'
    BY <1>0, EndsType DEF TypeOK, poolVars, wireVars
<1>2. Leaves(r, "answered")
    BY DEF Leaves, AtHead, Runs, LoopIsFree, Ends, wireVars
<1> QED
    BY <1>0, <1>1, <1>2, LeavesStep DEF States

LEMMA DiesStep ==
    ASSUME IInv, NEW r \in Requests, Runs(r), NEW messages \in Seq(Messages), Dies(r, messages),
           outcome' \in [Requests -> OutcomeKinds \cup {"not_found", "refused", Nil}],
           \A q \in Requests \ {r} : outcome'[q] = outcome[q],
           loaded' \subseteq Functions, loop_local' \in Requests \cup {Nil},
           phase' \in {"dispatching", "stopping"},
           UNCHANGED <<draining, request, logs_left, poolVars, wireVars>>
    PROVE  IInv'
<1>0. /\ TypeOK /\ ready # <<>> /\ phase = "dispatching"
    BY RunningTask DEF IInv
<1>1. TypeOK'
    BY <1>0, DiesType DEF TypeOK, poolVars, wireVars, Phases
<1>2. Leaves(r, "died")
    BY DEF Leaves, AtHead, Runs, LoopIsFree, Dies, wireVars
<1> QED
    BY <1>0, <1>1, <1>2, LeavesStep DEF States

LEMMA FinishStep ==
    ASSUME IInv, NEW r \in Requests, Runs(r), NEW o \in OutcomeKinds,
           NEW messages \in Seq(Messages), FinishInvocation(r, o, messages),
           request[r].kind = "invocation_request",
           outcome' \in [Requests -> OutcomeKinds \cup {"not_found", "refused", Nil}],
           \A q \in Requests \ {r} : outcome'[q] = outcome[q],
           loop_local' \in Requests \cup {Nil},
           UNCHANGED <<draining, request, logs_left, loaded, poolVars, wireVars>>
    PROVE  IInv'
<1>0. phase = "dispatching" /\ loaded' \subseteq Functions
    BY RunningTask DEF IInv, TypeOK
<1>1. CASE o = "returns"
    BY <1>0, <1>1, EndsStep DEF FinishInvocation, Statuses
<1>2. CASE o = "raises"
    BY <1>0, <1>2, EndsStep DEF FinishInvocation, Statuses
<1>3. CASE o = "exits"
    BY <1>0, <1>3, DiesStep DEF FinishInvocation
<1> QED
    BY <1>1, <1>2, <1>3 DEF OutcomeKinds

\* An invocation that is begun, and what a sync one does to the pool.
LEMMA SyncStartStep ==
    ASSUME IInv, NEW r \in Requests, SyncInvocationStarts(r)
    PROVE  IInv'
<1>0. /\ TypeOK /\ Runs(r) /\ ready # <<>> /\ phase = "dispatching" /\ phase' = phase
      /\ state[r] = "created" /\ request[r].kind = "invocation_request"
      /\ state' = [state EXCEPT ![r] = "pooled"]
    BY RunningTask DEF IInv, SyncInvocationStarts, InvocationBegins, Begins
<1>1. /\ pool_queue \in Seq(Requests) /\ Len(pool_queue) \in Nat
      /\ pool_queue' \in Seq(Requests)
      /\ Len(pool_queue') = Len(pool_queue) + 1
      /\ \A k \in 1..Len(pool_queue) : pool_queue'[k] = pool_queue[k]
      /\ pool_queue'[Len(pool_queue) + 1] = r
    BY <1>0, AppendFacts DEF TypeOK, SyncInvocationStarts
<1>2. TypeOK'
    <2>1. resp_queue' \in Seq(Messages)
        BY <1>0, MessageTypes DEF SyncInvocationStarts, TypeOK
    <2>2. ready' \in Seq(Requests) /\ state' \in [Requests -> States]
        BY <1>0, TailFacts DEF SyncInvocationStarts, TypeOK, States
    <2> QED
        BY <1>0, <1>1, <2>1, <2>2 DEF SyncInvocationStarts, InvocationBegins, TypeOK, wireVars
<1>3. Leaves(r, "pooled") /\ outcome' = outcome
    BY <1>0 DEF SyncInvocationStarts, Leaves, AtHead, Runs, LoopIsFree, wireVars
<1>4. ReadyInv' /\ OrderInv' /\ StateInv' /\ ReloadIsBarrier'
    BY <1>0, <1>2, <1>3, LeavesReady, LeavesOrder, LeavesBarrier DEF States
<1>5. PoolInv'
    <2>1. /\ state'[r] = "pooled" /\ \A q \in Requests \ {r} : state'[q] = state[q]
          /\ executing' = executing /\ thread_local' = thread_local /\ max_workers' = max_workers
          /\ Executing' = Executing
        BY <1>0 DEF TypeOK, SyncInvocationStarts, Executing
    <2>2. /\ \A t \in Threads : executing[t] # Nil =>
                /\ executing[t] \in Requests
                /\ state[executing[t]] = "executing"
                /\ thread_local[t] = executing[t]
                /\ t <= max_workers
          /\ \A k \in 1..Len(pool_queue) : state[pool_queue[k]] = "pooled"
          /\ \A j, k \in 1..Len(pool_queue) : pool_queue[j] = pool_queue[k] => j = k
          /\ \A q \in Requests : state[q] = "pooled" => \E k \in 1..Len(pool_queue) : pool_queue[k] = q
          /\ \A q \in Requests : state[q] = "executing" => \E t \in Threads : executing[t] = q
        BY <1>0 DEF IInv, PoolInv, TypeOK
    <2>3. \A k \in 1..Len(pool_queue) : pool_queue[k] \in Requests \ {r}
        BY <1>0, <1>1, <2>2
    <2>4. /\ \A t \in Threads : executing'[t] # Nil =>
                /\ state'[executing'[t]] = "executing"
                /\ thread_local'[t] = executing'[t]
                /\ t <= max_workers'
          /\ \A q \in Requests : state'[q] = "executing" => \E t \in Threads : executing'[t] = q
        BY <1>0, <2>1, <2>2
    <2>5. \A s, t \in Executing' : executing'[s] = executing'[t] => s = t
        BY <2>1 DEF IInv, PoolInv
    <2>6. \A k \in 1..Len(pool_queue') :
            k = Len(pool_queue) + 1 \/ k \in 1..Len(pool_queue)
        BY <1>1
    <2>7. /\ \A k \in 1..Len(pool_queue') : state'[pool_queue'[k]] = "pooled"
          /\ \A j, k \in 1..Len(pool_queue') : pool_queue'[j] = pool_queue'[k] => j = k
        BY <1>1, <2>1, <2>2, <2>3, <2>6
    <2>8. \A q \in Requests : state'[q] = "pooled" =>
            \E k \in 1..Len(pool_queue') : pool_queue'[k] = q
        <3> SUFFICES ASSUME NEW q \in Requests, state'[q] = "pooled"
                     PROVE  \E k \in 1..Len(pool_queue') : pool_queue'[k] = q
            OBVIOUS
        <3>1. CASE q = r
            BY <1>1, <3>1
        <3>2. CASE q # r
            <4>1. PICK k \in 1..Len(pool_queue) : pool_queue[k] = q
                BY <2>1, <2>2, <3>2
            <4> QED
                BY <1>1, <4>1
        <3> QED
            BY <3>1, <3>2
    <2> QED
        BY <2>4, <2>5, <2>7, <2>8 DEF PoolInv
<1> QED
    BY <1>2, <1>4, <1>5 DEF IInv

\* A coroutine that suspends, in its first step or in a later one.
LEMMA SuspendsStep ==
    ASSUME IInv, NEW r \in Requests, Runs(r), request[r].kind = "invocation_request",
           state' = [state EXCEPT ![r] = "suspended"],
           ready' = Tail(ready),
           NEW m \in Messages, resp_queue' = Append(resp_queue, m),
           loop_local' \in Requests \cup {Nil}, logs_left' \in [Requests -> 0..MaxLogs],
           UNCHANGED <<phase, draining, request, outcome, loaded, poolVars, wireVars>>
    PROVE  IInv'
<1>0. /\ TypeOK /\ ready # <<>> /\ phase = "dispatching"
    BY RunningTask DEF IInv
<1>1. ready' \in Seq(Requests) /\ state' \in [Requests -> States] /\ resp_queue' \in Seq(Messages)
    BY <1>0, TailFacts DEF TypeOK, States
<1>2. TypeOK'
    BY <1>0, <1>1 DEF TypeOK, poolVars, wireVars
<1>3. Leaves(r, "suspended")
    BY DEF Leaves, AtHead, Runs, LoopIsFree, wireVars
<1> QED
    BY <1>0, <1>2, <1>3, LeavesStep DEF States

LEMMA UnknownStep ==
    ASSUME IInv, NEW r \in Requests, HandleUnknown(r)
    PROVE  IInv'
<1>0. /\ TypeOK /\ Runs(r) /\ ready # <<>> /\ phase = "dispatching"
    BY RunningTask DEF IInv, HandleUnknown, Begins
<1>1. /\ ready' \in Seq(Requests) /\ state' \in [Requests -> States]
      /\ resp_queue' \in Seq(Messages)
    BY <1>0, TailFacts, MessageTypes DEF HandleUnknown, TypeOK, States
<1>2. TypeOK'
    BY <1>0, <1>1 DEF HandleUnknown, TypeOK, loopVars, poolVars, wireVars
<1>3. Leaves(r, "ignored")
    BY <1>0 DEF HandleUnknown, Leaves, AtHead, Runs, LoopIsFree, loopVars, wireVars
<1> QED
    BY <1>0, <1>2, <1>3, LeavesStep DEF States, HandleUnknown, loopVars

\* A reload begins: its task stays at the head of the queue, and nothing
\* before it is left to begin.
LEMMA ReloadBeginsStep ==
    ASSUME IInv, NEW r \in Requests, ReloadBegins(r)
    PROVE  IInv'
<1>0. /\ TypeOK /\ Runs(r) /\ ready # <<>> /\ phase = "dispatching" /\ draining = Nil
      /\ state[r] = "created" /\ r # Nil
      /\ request[r].kind = "function_environment_reload_request"
      /\ state' = [state EXCEPT ![r] = "reloading"] /\ draining' = r
      /\ phase' = phase /\ ready' = ready /\ request' = request /\ received' = received
      /\ outcome' = outcome
    BY RunningTask, ParametersAreBounded DEF IInv, ReloadBegins, Begins, loopVars, wireVars
<1>1. TypeOK'
    <2>1. resp_queue' \in Seq(Messages) /\ state' \in [Requests -> States]
        BY <1>0, MessageTypes DEF ReloadBegins, TypeOK, States
    <2> QED
        BY <1>0, <2>1 DEF ReloadBegins, TypeOK, loopVars, poolVars, wireVars
<1>2. state'[r] = "reloading" /\ \A q \in Requests \ {r} : state'[q] = state[q]
    BY <1>0 DEF TypeOK
<1>3. /\ ready \in Seq(Requests) /\ Len(ready) \in Nat \ {0} /\ ready[1] = r /\ Head(ready) = r
      /\ \A k \in 1..Len(ready) : ready[k] \in Requests
    BY <1>0, TailFacts DEF TypeOK, Runs
<1>4. ReadyInv'
    <2>1. /\ \A j, k \in 1..Len(ready) : ready[j] = ready[k] => j = k
          /\ \A k \in 1..Len(ready) : state[ready[k]] \in {"created", "resumed", "returned"}
          /\ \A q \in Requests : state[q] = "created" => \E k \in 1..Len(ready) : ready[k] = q
          /\ \A j, k \in 1..Len(ready) :
                j < k /\ state[ready[j]] = "created" /\ state[ready[k]] = "created" =>
                    ready[j] < ready[k]
        BY <1>0, <1>3, ParametersAreBounded DEF IInv, ReadyInv
    <2>2. \A k \in 1..Len(ready) :
            \/ state'[ready[k]] \in {"created", "resumed", "returned"}
            \/ state'[ready[k]] = "reloading" /\ draining' = ready[k]
        BY <1>0, <1>2, <1>3, <2>1
    <2>3. \A q \in Requests : state'[q] = "created" => \E k \in 1..Len(ready) : ready[k] = q
        BY <1>2, <2>1
    <2>4. \A j, k \in 1..Len(ready) :
            j < k /\ state'[ready[j]] = "created" /\ state'[ready[k]] = "created" =>
                ready[j] < ready[k]
        BY <1>2, <1>3, <2>1
    <2> QED
        BY SMTT(30), <1>0, <1>3, <2>1, <2>2, <2>3, <2>4 DEF ReadyInv
<1>5. PoolInv'
    <2>1. /\ pool_queue' = pool_queue /\ executing' = executing /\ thread_local' = thread_local
          /\ max_workers' = max_workers /\ Executing' = Executing
        BY DEF ReloadBegins, poolVars, Executing
    <2>2. /\ \A t \in Threads : executing[t] # Nil => executing[t] \in Requests \ {r}
          /\ \A k \in 1..Len(pool_queue) : pool_queue[k] \in Requests \ {r}
        <3>1. pool_queue \in Seq(Requests) /\ executing \in [Threads -> Requests \cup {Nil}]
            BY <1>0 DEF TypeOK
        <3>2. /\ \A t \in Threads : executing[t] # Nil => state[executing[t]] = "executing"
              /\ \A k \in 1..Len(pool_queue) : state[pool_queue[k]] = "pooled"
            BY DEF IInv, PoolInv
        <3> QED
            BY <1>0, <3>1, <3>2
    <2> QED
        BY <1>0, <1>2, <2>1, <2>2 DEF IInv, PoolInv
<1>6. StateInv'
    <2>1. \A q \in Requests : state[q] # "reloading"
        BY <1>0, ParametersAreBounded DEF IInv, StateInv
    <2> QED
        BY <1>0, <1>2, <2>1 DEF IInv, StateInv
<1>7. OrderInv' /\ ReloadIsBarrier'
    <2>1. \A p \in Requests : p < r => state[p] \notin {"absent", "created", "reloading"}
        BY <1>0, BeginsLast DEF AtHead, Runs
    <2> QED
        BY <1>0, <1>2, <2>1 DEF IInv, OrderInv, ReloadIsBarrier, Unbegun
<1> QED
    BY <1>1, <1>4, <1>5, <1>6, <1>7 DEF IInv

LEMMA TaskNext ==
    ASSUME IInv, NEW r \in Requests, TaskStep(r)
    PROVE  IInv'
<1>0. /\ TypeOK /\ loop_local \in Requests \cup {Nil}
      /\ outcome \in [Requests -> OutcomeKinds \cup {"not_found", "refused", Nil}]
      /\ loaded \subseteq Functions /\ logs_left \in [Requests -> 0..MaxLogs]
      /\ <<>> \in Seq(Messages)
    BY DEF IInv, TypeOK
<1>1. \A id \in Requests \cup {Nil} :
        /\ WorkerLog(r, id) \in Messages /\ UserLog(r, id) \in Messages
        /\ <<WorkerLog(r, id)>> \in Seq(Messages)
        /\ <<WorkerLog(r, id), UserLog(r, id)>> \in Seq(Messages)
    BY <1>0, MessageTypes
<1>2. CASE HandleUnknown(r)
    BY <1>2, UnknownStep
<1>3. ASSUME NEW registered \in SUBSET Functions, _handle__worker_init_request(r, registered)
      PROVE  IInv'
    <2>1. loaded' \subseteq Functions
        BY <1>0, <1>3 DEF _handle__worker_init_request, Registers
    <2> QED
        BY <1>0, <1>1, <1>3, <2>1, EndsStep DEF _handle__worker_init_request, Begins, Statuses
<1>4. ASSUME NEW registered \in SUBSET Functions, WorkerInitError(r, registered)
      PROVE  IInv'
    <2>1. phase' = "dispatching" /\ loaded' \subseteq Functions
        BY <1>0, <1>4, RunningTask DEF WorkerInitError, Registers, Begins
    <2> QED
        BY <1>0, <1>1, <1>4, <2>1, DiesStep DEF WorkerInitError, Begins
<1>5. CASE _handle__worker_status_request(r)
    BY <1>0, <1>5, EndsStep DEF _handle__worker_status_request, Begins, loopVars, Statuses
<1>6. ASSUME NEW registered \in SUBSET Functions, NEW status \in {"Success", "Failure"},
             _handle__functions_metadata_request(r, registered, status)
      PROVE  IInv'
    <2>1. loaded' \subseteq Functions
        BY <1>0, <1>6 DEF _handle__functions_metadata_request, Registers
    <2> QED
        BY <1>0, <1>1, <1>6, <2>1, EndsStep DEF _handle__functions_metadata_request, Begins, Statuses
<1>7. ASSUME NEW registered \in SUBSET Functions, NEW status \in {"Success", "Failure"},
             _handle__function_load_request(r, registered, status)
      PROVE  IInv'
    <2>1. loaded' \subseteq Functions
        BY <1>0, <1>7 DEF _handle__function_load_request, Registers
    <2> QED
        BY <1>0, <1>1, <1>7, <2>1, EndsStep DEF _handle__function_load_request, Begins, Statuses
<1>8. CASE InvocationNotFound(r)
    <2>1. outcome' \in [Requests -> OutcomeKinds \cup {"not_found", "refused", Nil}]
        BY <1>0, <1>8 DEF InvocationNotFound
    <2>2. \A q \in Requests \ {r} : outcome'[q] = outcome[q]
        BY <1>0, <1>8 DEF InvocationNotFound
    <2> QED
        BY <1>0, <1>8, <2>1, <2>2, EndsStep DEF InvocationNotFound, Begins, Statuses
<1>9. CASE InvocationDecodeError(r)
    BY <1>0, <1>1, <1>9, EndsStep DEF InvocationDecodeError, Begins, loopVars, Statuses
<1>10. CASE SyncInvocationStarts(r)
    BY <1>10, SyncStartStep
<1>11. CASE AsyncInvocationStarts(r)
    BY <1>0, <1>1, <1>11, SuspendsStep DEF AsyncInvocationStarts, InvocationBegins, Begins
<1>12. ASSUME NEW o \in Outcomes, AsyncInvocationRunsThrough(r, o) PROVE IInv'
    <2>1. o \in OutcomeKinds
        BY ParametersAreBounded
    <2>2. outcome' \in [Requests -> OutcomeKinds \cup {"not_found", "refused", Nil}]
        BY <1>0, <1>12, <2>1 DEF AsyncInvocationRunsThrough
    <2>3. \A q \in Requests \ {r} : outcome'[q] = outcome[q]
        BY <1>0, <1>12 DEF AsyncInvocationRunsThrough
    <2>4. loop_local' \in Requests \cup {Nil}
        BY <1>12 DEF AsyncInvocationRunsThrough, InvocationBegins
    <2> QED
        BY <1>1, <1>12, <2>1, <2>2, <2>3, <2>4, FinishStep
            DEF AsyncInvocationRunsThrough, InvocationBegins, Begins
<1>13. CASE AsyncFunctionLogs(r)
    <2>1. request[r].kind = "invocation_request"
        BY <1>13 DEF AsyncFunctionLogs, IInv, StateInv
    <2>2. logs_left' \in [Requests -> 0..MaxLogs]
        BY <1>0, <1>13, ParametersAreBounded DEF AsyncFunctionLogs
    <2> QED
        BY <1>0, <1>1, <1>13, <2>1, <2>2, SuspendsStep DEF AsyncFunctionLogs
<1>14. ASSUME NEW o \in Outcomes, AsyncFunctionEnds(r, o) PROVE IInv'
    <2>1. o \in OutcomeKinds /\ request[r].kind = "invocation_request"
        BY <1>14, ParametersAreBounded DEF AsyncFunctionEnds, IInv, StateInv
    <2>2. outcome' \in [Requests -> OutcomeKinds \cup {"not_found", "refused", Nil}]
        BY <1>0, <1>14, <2>1 DEF AsyncFunctionEnds
    <2>3. \A q \in Requests \ {r} : outcome'[q] = outcome[q]
        BY <1>0, <1>14 DEF AsyncFunctionEnds
    <2> QED
        BY <1>0, <1>14, <2>1, <2>2, <2>3, FinishStep DEF AsyncFunctionEnds
<1>15. CASE SyncInvocationResumes(r)
    <2>1. outcome[r] \in OutcomeKinds /\ request[r].kind = "invocation_request"
        BY <1>15 DEF SyncInvocationResumes, IInv, StateInv
    <2> QED
        BY <1>0, <1>15, <2>1, FinishStep DEF SyncInvocationResumes, loopVars
<1>16. CASE ReloadRefused(r)
    <2>1. outcome' \in [Requests -> OutcomeKinds \cup {"not_found", "refused", Nil}]
          /\ outcome'[r] = "refused"
        BY <1>0, <1>16 DEF ReloadRefused
    <2>2. \A q \in Requests \ {r} : outcome'[q] = outcome[q]
        BY <1>0, <1>16 DEF ReloadRefused
    <2> QED
        BY <1>0, <1>1, <1>16, <2>1, <2>2, EndsStep DEF ReloadRefused, Begins, Statuses
<1>17. CASE ReloadBegins(r)
    BY <1>17, ReloadBeginsStep
<1> QED
    BY <1>2, <1>3, <1>4, <1>5, <1>6, <1>7, <1>8, <1>9, <1>10, <1>11, <1>12, <1>13, <1>14, <1>15,
       <1>16, <1>17 DEF TaskStep

\* The reload ends once the pool is empty.
LEMMA ReloadEndsStep ==
    ASSUME IInv, NEW n \in WorkerCounts, NEW registered \in SUBSET Functions,
           NEW status \in Statuses, ReloadEnds(n, registered, status)
    PROVE  IInv'
<1>0. PICK r \in Requests : r = draining
    BY DEF ReloadEnds, IInv, TypeOK
<1>1. /\ TypeOK /\ AtHead(r) /\ Ends(r, <<>>, status) /\ draining' = Nil /\ phase' = phase
      /\ phase = "dispatching" /\ ready # <<>> /\ <<>> \in Seq(Messages)
      /\ outcome' = outcome
    BY <1>0 DEF ReloadEnds, IInv, ReadyInv, AtHead
<1>2. TypeOK'
    <2>1. /\ thread_local' \in [Threads -> Requests \cup {Nil}] /\ max_workers' \in WorkerCounts
          /\ loaded' \subseteq Functions
        BY <1>1 DEF ReloadEnds, Registers, TypeOK
    <2>2. /\ state' \in [Requests -> States] /\ ready' \in Seq(Requests)
          /\ resp_queue' \in Seq(Messages)
        BY <1>1, EndsType
    <2> QED
        BY <1>1, <2>1, <2>2 DEF ReloadEnds, TypeOK, wireVars
<1>3. Leaves(r, "answered")
    BY <1>0, <1>1 DEF Leaves, Ends, ReloadEnds, wireVars
<1>4. ReadyInv' /\ OrderInv' /\ StateInv'
    BY <1>1, <1>2, <1>3, LeavesReady, LeavesOrder DEF States
<1>5. /\ pool_queue = <<>> /\ pool_queue' = <<>> /\ executing' = executing
      /\ \A t \in Threads : executing[t] = Nil
      /\ Executing' = {}
    BY DEF ReloadEnds, PoolIsEmpty, Executing
<1>6. \A q \in Requests : state[q] \notin {"pooled", "executing"}
    <2>1. \A q \in Requests : state[q] = "pooled" => \E k \in 1..Len(pool_queue) : pool_queue[k] = q
        BY DEF IInv, PoolInv
    <2>2. \A q \in Requests : state[q] = "executing" => \E t \in Threads : executing[t] = q
        BY DEF IInv, PoolInv
    <2> QED
        BY <1>5, <2>1, <2>2, ParametersAreBounded
<1>7. \A q \in Requests : state'[q] \notin {"pooled", "executing"}
    BY <1>1, <1>6 DEF Ends, TypeOK
<1> QED
    BY <1>2, <1>4, <1>5, <1>7 DEF IInv, PoolInv, ReloadIsBarrier

-----------------------------------------------------------------------------
(* Steps of the pool's threads and of coroutines that wake.                *)

\* A task that is made ready goes behind the others.
LEMMA BecomesReady ==
    ASSUME IInv, NEW r \in Requests, NEW x \in {"resumed", "returned"},
           state[r] \in {"suspended", "executing"},
           state' = [state EXCEPT ![r] = x], ready' = Append(ready, r),
           UNCHANGED <<phase, draining>>
    PROVE  ReadyInv'
<1> SUFFICES ASSUME phase = "dispatching" PROVE ReadyInv'
    BY DEF ReadyInv
<1>1. /\ ready \in Seq(Requests) /\ Len(ready) \in Nat /\ Len(ready') = Len(ready) + 1
      /\ \A k \in 1..Len(ready) : ready'[k] = ready[k] /\ ready[k] \in Requests
      /\ ready'[Len(ready) + 1] = r
    BY AppendFacts DEF IInv, TypeOK
<1>2. state'[r] = x /\ \A q \in Requests \ {r} : state'[q] = state[q]
    BY DEF IInv, TypeOK
<1>3. /\ \A k \in 1..Len(ready) :
            \/ state[ready[k]] \in {"created", "resumed", "returned"}
            \/ state[ready[k]] = "reloading" /\ draining = ready[k]
      /\ \A j, k \in 1..Len(ready) : ready[j] = ready[k] => j = k
      /\ \A q \in Requests : state[q] = "created" => \E k \in 1..Len(ready) : ready[k] = q
      /\ \A j, k \in 1..Len(ready) :
            j < k /\ state[ready[j]] = "created" /\ state[ready[k]] = "created" => ready[j] < ready[k]
      /\ draining # Nil => ready # <<>> /\ Head(ready) = draining
    BY DEF IInv, ReadyInv
<1>4. \A k \in 1..Len(ready) : ready[k] # r
    BY <1>3
<1>5. \A k \in 1..Len(ready') : k = Len(ready) + 1 \/ k \in 1..Len(ready)
    BY <1>1
<1>6. \A k \in 1..Len(ready') :
        \/ state'[ready'[k]] \in {"created", "resumed", "returned"}
        \/ state'[ready'[k]] = "reloading" /\ draining' = ready'[k]
    BY <1>1, <1>2, <1>3, <1>4, <1>5
<1>7. \A j, k \in 1..Len(ready') : ready'[j] = ready'[k] => j = k
    BY <1>1, <1>3, <1>4, <1>5
<1>8. \A q \in Requests : state'[q] = "created" => \E k \in 1..Len(ready') : ready'[k] = q
    <2> SUFFICES ASSUME NEW q \in Requests, state'[q] = "created"
                 PROVE  \E k \in 1..Len(ready') : ready'[k] = q
        OBVIOUS
    <2>1. PICK k \in 1..Len(ready) : ready[k] = q
        BY <1>2, <1>3
    <2> QED
        BY <1>1, <2>1
<1>9. \A j, k \in 1..Len(ready') :
        j < k /\ state'[ready'[j]] = "created" /\ state'[ready'[k]] = "created" =>
            ready'[j] < ready'[k]
    BY <1>1, <1>2, <1>3, <1>4, <1>5
<1>10. draining' # Nil => ready' # <<>> /\ Head(ready') = draining'
    <2> SUFFICES ASSUME draining # Nil PROVE ready' # <<>> /\ Head(ready') = draining
        OBVIOUS
    <2>1. ready # <<>> /\ Head(ready) = draining
        BY <1>3
    <2> QED
        BY <1>1, <2>1
<1> QED
    BY <1>6, <1>7, <1>8, <1>9, <1>10 DEF ReadyInv

LEMMA AsyncWakesStep ==
    ASSUME IInv, NEW r \in Requests, AsyncFunctionWakes(r)
    PROVE  IInv'
<1>0. /\ TypeOK /\ state[r] = "suspended" /\ phase = "dispatching" /\ draining = Nil
      /\ state' = [state EXCEPT ![r] = "resumed"] /\ ready' = Append(ready, r)
      /\ phase' = phase /\ draining' = draining /\ request' = request /\ received' = received
      /\ outcome' = outcome
      /\ state'[r] = "resumed" /\ \A q \in Requests \ {r} : state'[q] = state[q]
    BY DEF AsyncFunctionWakes, LoopIsFree, IInv, TypeOK, loopVars, wireVars
<1>1. TypeOK'
    <2>1. ready' \in Seq(Requests) /\ state' \in [Requests -> States]
        BY <1>0, AppendFacts DEF TypeOK, States
    <2> QED
        BY <1>0, <2>1 DEF AsyncFunctionWakes, TypeOK, loopVars, poolVars, wireVars
<1>2. ReadyInv'
    BY <1>0, BecomesReady
<1>3. StateInv'
    BY <1>0 DEF IInv, StateInv
<1>4. OrderInv' /\ ReloadIsBarrier'
    BY <1>0 DEF IInv, OrderInv, ReloadIsBarrier, Unbegun
<1>5. PoolInv'
    <2>1. /\ pool_queue' = pool_queue /\ executing' = executing /\ thread_local' = thread_local
          /\ max_workers' = max_workers /\ Executing' = Executing
        BY DEF AsyncFunctionWakes, poolVars, Executing
    <2>2. /\ \A t \in Threads : executing[t] # Nil => executing[t] \in Requests \ {r}
          /\ \A k \in 1..Len(pool_queue) : pool_queue[k] \in Requests \ {r}
        <3>1. pool_queue \in Seq(Requests) /\ executing \in [Threads -> Requests \cup {Nil}]
            BY <1>0 DEF TypeOK
        <3>2. /\ \A t \in Threads : executing[t] # Nil => state[executing[t]] = "executing"
              /\ \A k \in 1..Len(pool_queue) : state[pool_queue[k]] = "pooled"
            BY DEF IInv, PoolInv
        <3> QED
            BY <1>0, <3>1, <3>2
    <2> QED
        BY <1>0, <2>1, <2>2 DEF IInv, PoolInv
<1> QED
    BY <1>1, <1>2, <1>3, <1>4, <1>5 DEF IInv

\* The queue of the loop holds tasks whose states the pool does not change.
LEMMA PoolLeavesReady ==
    ASSUME IInv, NEW r \in Requests, state[r] \in {"pooled", "executing"},
           \A q \in Requests \ {r} : state'[q] = state[q],
           state'[r] \notin {"absent", "created"},
           UNCHANGED <<phase, ready, draining>>
    PROVE  ReadyInv'
<1> SUFFICES ASSUME phase = "dispatching" PROVE ReadyInv'
    BY DEF ReadyInv
<1>1. /\ \A k \in 1..Len(ready) :
            \/ state[ready[k]] \in {"created", "resumed", "returned"}
            \/ state[ready[k]] = "reloading" /\ draining = ready[k]
      /\ \A q \in Requests : state[q] = "created" => \E k \in 1..Len(ready) : ready[k] = q
    BY DEF IInv, ReadyInv
<1>2. ready \in Seq(Requests)
    BY DEF IInv, TypeOK
<1>3. \A k \in 1..Len(ready) : ready[k] \in Requests \ {r}
    BY <1>1, <1>2
<1>4. \A k \in 1..Len(ready) : state'[ready[k]] = state[ready[k]]
    BY <1>3
<1>5. \A q \in Requests : state'[q] = "created" => state[q] = "created"
    OBVIOUS
<1> QED
    BY <1>4, <1>5 DEF IInv, ReadyInv

LEMMA ThreadStartsStep ==
    ASSUME IInv, NEW t \in Threads, ThreadStarts(t)
    PROVE  IInv'
<1> DEFINE r == Head(pool_queue)
<1>0. /\ TypeOK /\ pool_queue \in Seq(Requests) /\ pool_queue # <<>> /\ Len(pool_queue) \in Nat \ {0}
      /\ r \in Requests /\ r = pool_queue[1] /\ r # Nil
      /\ pool_queue' \in Seq(Requests)
      /\ Len(pool_queue') = Len(pool_queue) - 1
      /\ \A k \in 1..Len(pool_queue') : pool_queue'[k] = pool_queue[k + 1]
    BY TailFacts, ParametersAreBounded DEF ThreadStarts, IInv, TypeOK
<1>1. /\ t <= max_workers /\ executing[t] = Nil
      /\ executing' = [executing EXCEPT ![t] = r]
      /\ thread_local' = [thread_local EXCEPT ![t] = r]
      /\ state' = [state EXCEPT ![r] = "executing"]
      /\ phase' = phase /\ ready' = ready /\ draining' = draining /\ max_workers' = max_workers
      /\ request' = request /\ received' = received /\ outcome' = outcome
    BY DEF ThreadStarts, loopVars, wireVars
<1>2. /\ \A k \in 1..Len(pool_queue) : state[pool_queue[k]] = "pooled"
      /\ \A j, k \in 1..Len(pool_queue) : pool_queue[j] = pool_queue[k] => j = k
      /\ \A q \in Requests : state[q] = "pooled" => \E k \in 1..Len(pool_queue) : pool_queue[k] = q
      /\ \A q \in Requests : state[q] = "executing" => \E s \in Threads : executing[s] = q
      /\ \A s \in Threads : executing[s] # Nil =>
            /\ state[executing[s]] = "executing"
            /\ thread_local[s] = executing[s]
            /\ s <= max_workers
      /\ \A s, u \in Threads : executing[s] # Nil /\ executing[s] = executing[u] => s = u
    BY DEF IInv, PoolInv, Executing
<1> HIDE DEF r
<1>3. state[r] = "pooled"
    BY <1>0, <1>2
<1>4. /\ state'[r] = "executing" /\ \A q \in Requests \ {r} : state'[q] = state[q]
      /\ executing'[t] = r /\ \A s \in Threads \ {t} : executing'[s] = executing[s]
      /\ thread_local'[t] = r /\ \A s \in Threads \ {t} : thread_local'[s] = thread_local[s]
      /\ \A s \in Threads : executing[s] \in Requests \cup {Nil}
    BY <1>0, <1>1 DEF TypeOK
<1>5. TypeOK'
    <2>1. /\ state' \in [Requests -> States]
          /\ executing' \in [Threads -> Requests \cup {Nil}]
          /\ thread_local' \in [Threads -> Requests \cup {Nil}]
        BY <1>0, <1>1 DEF TypeOK, States
    <2> QED
        BY <1>0, <1>1, <2>1 DEF ThreadStarts, TypeOK, loopVars, wireVars
<1>6. PoolInv'
    <2>1. \A s \in Threads : executing'[s] # Nil =>
            /\ state'[executing'[s]] = "executing"
            /\ thread_local'[s] = executing'[s]
            /\ s <= max_workers'
        BY <1>0, <1>1, <1>2, <1>3, <1>4
    <2>2. \A s \in Threads : executing[s] # r
        BY <1>0, <1>2, <1>3
    <2>3. \A s, u \in Threads : executing'[s] # Nil /\ executing'[s] = executing'[u] => s = u
        BY <1>2, <1>4, <2>2
    <2>4. \A k \in 1..Len(pool_queue') :
            /\ k + 1 \in 1..Len(pool_queue)
            /\ pool_queue'[k] \in Requests \ {r}
        BY <1>0, <1>2
    <2>5. /\ \A k \in 1..Len(pool_queue') : state'[pool_queue'[k]] = "pooled"
          /\ \A j, k \in 1..Len(pool_queue') : pool_queue'[j] = pool_queue'[k] => j = k
        <3>1. \A k \in 1..Len(pool_queue') : state[pool_queue'[k]] = "pooled"
            BY <1>0, <1>2, <2>4
        <3>2. \A j, k \in 1..Len(pool_queue') : pool_queue'[j] = pool_queue'[k] => j = k
            <4> SUFFICES ASSUME NEW j \in 1..Len(pool_queue'), NEW k \in 1..Len(pool_queue'),
                                pool_queue'[j] = pool_queue'[k]
                         PROVE  j = k
                OBVIOUS
            <4>1. pool_queue[j + 1] = pool_queue[k + 1]
                BY <1>0
            <4>2. j + 1 = k + 1
                BY <1>2, <2>4, <4>1
            <4> QED
                BY <4>2
        <3> QED
            BY <1>4, <2>4, <3>1, <3>2
    <2>6. \A q \in Requests : state'[q] = "pooled" => \E k \in 1..Len(pool_queue') : pool_queue'[k] = q
        <3> SUFFICES ASSUME NEW q \in Requests, state'[q] = "pooled"
                     PROVE  \E k \in 1..Len(pool_queue') : pool_queue'[k] = q
            OBVIOUS
        <3>1. q # r /\ state[q] = "pooled"
            BY <1>4
        <3>2. PICK k \in 1..Len(pool_queue) : pool_queue[k] = q
            BY <1>2, <3>1
        <3>3. k - 1 \in 1..Len(pool_queue') /\ pool_queue'[k - 1] = q
            BY <1>0, <3>1, <3>2
        <3> QED
            BY <3>3
    <2>7. \A q \in Requests : state'[q] = "executing" => \E s \in Threads : executing'[s] = q
        <3> SUFFICES ASSUME NEW q \in Requests, q # r, state'[q] = "executing"
                     PROVE  \E s \in Threads : executing'[s] = q
            BY <1>4
        <3>1. PICK s \in Threads : executing[s] = q
            BY <1>2, <1>4
        <3>2. s # t
            BY <1>1, <3>1, ParametersAreBounded
        <3> QED
            BY <1>4, <3>1, <3>2
    <2> QED
        BY <2>1, <2>3, <2>5, <2>6, <2>7 DEF PoolInv, Executing
<1>7. ReadyInv'
    BY <1>0, <1>1, <1>3, <1>4, PoolLeavesReady
<1>8. StateInv'
    BY <1>0, <1>1, <1>3, <1>4 DEF IInv, StateInv
<1>9. OrderInv' /\ ReloadIsBarrier'
    BY <1>0, <1>1, <1>3, <1>4 DEF IInv, OrderInv, ReloadIsBarrier, Unbegun
<1> QED
    BY <1>5, <1>6, <1>7, <1>8, <1>9 DEF IInv

LEMMA ThreadEndsStep ==
    ASSUME IInv, NEW t \in Threads, NEW o \in OutcomeKinds, ThreadEnds(t, o)
    PROVE  IInv'
<1> DEFINE r == executing[t]
<1>0. /\ TypeOK /\ r \in Requests /\ r # Nil /\ state[r] = "executing"
      /\ request[r].kind = "invocation_request"
    BY DEF ThreadEnds, IInv, TypeOK, PoolInv, StateInv
<1>1. /\ executing' = [executing EXCEPT ![t] = Nil]
      /\ thread_local' = [thread_local EXCEPT ![t] = Nil]
      /\ state' = [state EXCEPT ![r] = "returned"]
      /\ outcome' = [outcome EXCEPT ![r] = o]
      /\ ready' = Append(ready, r)
      /\ phase' = phase /\ draining' = draining /\ max_workers' = max_workers
      /\ pool_queue' = pool_queue /\ request' = request /\ received' = received
    BY DEF ThreadEnds, wireVars
<1>2. \A s \in Threads : executing[s] = r => s = t
    BY <1>0 DEF IInv, PoolInv, Executing
<1> HIDE DEF r
<1>3. /\ state'[r] = "returned" /\ \A q \in Requests \ {r} : state'[q] = state[q]
      /\ outcome'[r] = o /\ \A q \in Requests \ {r} : outcome'[q] = outcome[q]
      /\ executing'[t] = Nil /\ \A s \in Threads \ {t} : executing'[s] = executing[s]
      /\ \A s \in Threads \ {t} : thread_local'[s] = thread_local[s]
      /\ \A s \in Threads : executing[s] \in Requests \cup {Nil}
    BY <1>0, <1>1 DEF TypeOK
<1>4. TypeOK'
    <2>1. /\ state' \in [Requests -> States]
          /\ outcome' \in [Requests -> OutcomeKinds \cup {"not_found", "refused", Nil}]
          /\ executing' \in [Threads -> Requests \cup {Nil}]
          /\ thread_local' \in [Threads -> Requests \cup {Nil}]
          /\ ready' \in Seq(Requests)
        BY <1>0, <1>1, AppendFacts DEF TypeOK, States
    <2> QED
        BY <1>0, <1>1, <2>1 DEF ThreadEnds, TypeOK, wireVars
<1>5. ReadyInv'
    BY <1>0, <1>1, BecomesReady
<1>6. PoolInv'
    <2>1. /\ \A s \in Threads : executing[s] # Nil =>
                /\ state[executing[s]] = "executing"
                /\ thread_local[s] = executing[s]
                /\ s <= max_workers
          /\ \A s, u \in Executing : executing[s] = executing[u] => s = u
          /\ \A k \in 1..Len(pool_queue) : state[pool_queue[k]] = "pooled"
          /\ \A j, k \in 1..Len(pool_queue) : pool_queue[j] = pool_queue[k] => j = k
          /\ \A q \in Requests : state[q] = "pooled" => \E k \in 1..Len(pool_queue) : pool_queue[k] = q
          /\ \A q \in Requests : state[q] = "executing" => \E s \in Threads : executing[s] = q
        BY DEF IInv, PoolInv
    <2>2. \A k \in 1..Len(pool_queue) : pool_queue[k] \in Requests \ {r}
        <3>1. pool_queue \in Seq(Requests)
            BY <1>0 DEF TypeOK
        <3> QED
            BY <1>0, <2>1, <3>1
    <2>3. \A s \in Threads : executing'[s] # Nil =>
            s # t /\ executing'[s] = executing[s] /\ executing[s] \in Requests \ {r}
        BY <1>2, <1>3
    <2>4. \A s \in Threads : executing'[s] # Nil =>
            /\ state'[executing'[s]] = "executing"
            /\ thread_local'[s] = executing'[s]
            /\ s <= max_workers'
        BY <1>1, <1>3, <2>1, <2>3
    <2>5. \A s, u \in Executing' : executing'[s] = executing'[u] => s = u
        BY <2>1, <2>3 DEF Executing
    <2>6. /\ \A k \in 1..Len(pool_queue') : state'[pool_queue'[k]] = "pooled"
          /\ \A j, k \in 1..Len(pool_queue') : pool_queue'[j] = pool_queue'[k] => j = k
          /\ \A q \in Requests : state'[q] = "pooled" => \E k \in 1..Len(pool_queue') : pool_queue'[k] = q
        BY <1>1, <1>3, <2>1, <2>2
    <2>7. \A q \in Requests : state'[q] = "executing" => \E s \in Threads : executing'[s] = q
        <3> SUFFICES ASSUME NEW q \in Requests, q # r, state'[q] = "executing"
                     PROVE  \E s \in Threads : executing'[s] = q
            BY <1>3
        <3>1. PICK s \in Threads : executing[s] = q
            BY <1>3, <2>1
        <3>2. s # t
            BY <3>1 DEF r
        <3> QED
            BY <1>3, <3>1, <3>2
    <2> QED
        BY <2>4, <2>5, <2>6, <2>7 DEF PoolInv
<1>7. StateInv'
    BY <1>0, <1>1, <1>3 DEF IInv, StateInv
<1>8. OrderInv' /\ ReloadIsBarrier'
    BY <1>0, <1>1, <1>3 DEF IInv, OrderInv, ReloadIsBarrier, Unbegun
<1> QED
    BY <1>4, <1>5, <1>6, <1>7, <1>8 DEF IInv

\* A step that changes none of the variables the invariant relates.
LEMMA Untouched ==
    ASSUME IInv, TypeOK',
           UNCHANGED <<phase, state, ready, draining, request, outcome, received, poolVars>>
    PROVE  IInv'
BY DEF IInv, PoolInv, ReadyInv, StateInv, OrderInv, ReloadIsBarrier, Executing, Unbegun, poolVars

\* A record of a sync function changes none of the invariant's variables.
LEMMA ThreadLogsStep ==
    ASSUME IInv, NEW t \in Threads, ThreadLogs(t)
    PROVE  IInv'
<1>1. executing[t] \in Requests /\ thread_local[t] \in Requests \cup {Nil} /\ TypeOK
    BY DEF ThreadLogs, IInv, TypeOK
<1>2. logs_left' \in [Requests -> 0..MaxLogs]
    BY <1>1, ParametersAreBounded DEF ThreadLogs, TypeOK
<1>3. resp_queue' \in Seq(Messages)
    <2>1. UserLog(executing[t], thread_local[t]) \in Messages
        BY <1>1, MessageTypes
    <2>2. resp_queue \in Seq(Messages)
        BY <1>1 DEF TypeOK
    <2>3. \/ resp_queue' = Append(resp_queue, UserLog(executing[t], thread_local[t]))
          \/ resp_queue' = resp_queue
        BY DEF ThreadLogs
    <2> QED
        BY <2>1, <2>2, <2>3
<1>4. TypeOK'
    BY <1>1, <1>2, <1>3 DEF ThreadLogs, TypeOK, poolVars, wireVars
<1>5. UNCHANGED <<phase, state, ready, draining, request, outcome, received, poolVars>>
    BY DEF ThreadLogs, poolVars, wireVars
<1> QED
    BY <1>4, <1>5, Untouched

-----------------------------------------------------------------------------
(* Steps of the main task, the gRPC thread and the host.                   *)

\* A request is received: the last of all, and the last in the queue.
LEMMA ReceivesStep ==
    ASSUME IInv, NEW c \in RequestContents, GrpcReceives(c)
    PROVE  IInv'
<1> DEFINE r == received + 1
<1>0. /\ TypeOK /\ r \in Requests /\ received \in Nat /\ r # Nil /\ r \in Nat
      /\ \A q \in Requests : q \in Nat
      /\ received' = r
      /\ request' = [request EXCEPT ![r] = c]
      /\ state' = [state EXCEPT ![r] = "created"]
      /\ ready' = Append(ready, r)
      /\ phase' = phase /\ draining' = draining /\ outcome' = outcome
    <2>1. TypeOK /\ received \in 0..NumRequests /\ received < NumRequests
        BY DEF GrpcReceives, IInv, TypeOK
    <2>2. /\ r \in Requests /\ received \in Nat /\ r # Nil /\ r \in Nat
          /\ \A q \in Requests : q \in Nat
        BY <2>1, ParametersAreBounded DEF Requests
    <2> QED
        BY <2>1, <2>2 DEF GrpcReceives
<1>1. state[r] = "absent"
    BY <1>0 DEF IInv, StateInv
<1> HIDE DEF r
<1>2. /\ state'[r] = "created" /\ \A q \in Requests \ {r} : state'[q] = state[q]
      /\ request'[r] = c /\ \A q \in Requests \ {r} : request'[q] = request[q]
    BY <1>0 DEF TypeOK
<1>3. TypeOK'
    <2>1. /\ state' \in [Requests -> States] /\ request' \in [Requests -> RequestContents \cup {Nil}]
          /\ ready' \in Seq(Requests)
        BY <1>0, AppendFacts DEF TypeOK, States
    <2>2. received' \in 0..NumRequests
        BY <1>0, ParametersAreBounded DEF Requests
    <2> QED
        BY <1>0, <2>1, <2>2 DEF GrpcReceives, TypeOK, poolVars
<1>4. \A q \in Requests : q # r /\ state[q] # "absent" => q < r
    BY <1>0 DEF IInv, StateInv, r
<1>5. ReadyInv'
    <2> SUFFICES ASSUME phase = "dispatching" PROVE ReadyInv'
        BY <1>0 DEF ReadyInv
    <2>1. /\ ready \in Seq(Requests) /\ Len(ready) \in Nat /\ Len(ready') = Len(ready) + 1
          /\ \A k \in 1..Len(ready) : ready'[k] = ready[k] /\ ready[k] \in Requests
          /\ ready'[Len(ready) + 1] = r
        BY <1>0, AppendFacts DEF TypeOK
    <2>2. /\ \A k \in 1..Len(ready) :
                \/ state[ready[k]] \in {"created", "resumed", "returned"}
                \/ state[ready[k]] = "reloading" /\ draining = ready[k]
          /\ \A j, k \in 1..Len(ready) : ready[j] = ready[k] => j = k
          /\ \A q \in Requests : state[q] = "created" => \E k \in 1..Len(ready) : ready[k] = q
          /\ \A j, k \in 1..Len(ready) :
                j < k /\ state[ready[j]] = "created" /\ state[ready[k]] = "created" =>
                    ready[j] < ready[k]
          /\ draining # Nil => ready # <<>> /\ Head(ready) = draining
        BY DEF IInv, ReadyInv
    <2>3. \A k \in 1..Len(ready) : ready[k] # r /\ ready[k] < r
        BY <1>1, <1>4, <2>1, <2>2
    <2>4. \A k \in 1..Len(ready') : k = Len(ready) + 1 \/ k \in 1..Len(ready)
        BY <2>1
    <2>5. \A k \in 1..Len(ready') :
            \/ state'[ready'[k]] \in {"created", "resumed", "returned"}
            \/ state'[ready'[k]] = "reloading" /\ draining' = ready'[k]
        BY <1>0, <1>2, <2>1, <2>2, <2>3, <2>4
    <2>6. \A j, k \in 1..Len(ready') : ready'[j] = ready'[k] => j = k
        BY <2>1, <2>2, <2>3, <2>4
    <2>7. \A q \in Requests : state'[q] = "created" => \E k \in 1..Len(ready') : ready'[k] = q
        <3> SUFFICES ASSUME NEW q \in Requests, state'[q] = "created"
                     PROVE  \E k \in 1..Len(ready') : ready'[k] = q
            OBVIOUS
        <3>1. CASE q = r
            BY <2>1, <3>1
        <3>2. CASE q # r
            <4>1. PICK k \in 1..Len(ready) : ready[k] = q
                BY <1>2, <2>2, <3>2
            <4> QED
                BY <2>1, <4>1
        <3> QED
            BY <3>1, <3>2
    <2>8. \A j, k \in 1..Len(ready') :
            j < k /\ state'[ready'[j]] = "created" /\ state'[ready'[k]] = "created" =>
                ready'[j] < ready'[k]
        BY <1>2, <2>1, <2>2, <2>3, <2>4
    <2>9. draining' # Nil => ready' # <<>> /\ Head(ready') = draining'
        <3> SUFFICES ASSUME draining # Nil PROVE ready' # <<>> /\ Head(ready') = draining
            BY <1>0
        <3>1. ready # <<>> /\ Head(ready) = draining
            BY <2>2
        <3> QED
            BY <2>1, <3>1
    <2> QED
        BY <2>5, <2>6, <2>7, <2>8, <2>9 DEF ReadyInv
<1>6. PoolInv'
    <2>1. /\ pool_queue' = pool_queue /\ executing' = executing /\ thread_local' = thread_local
          /\ max_workers' = max_workers /\ Executing' = Executing
        BY DEF GrpcReceives, poolVars, Executing
    <2>2. /\ \A t \in Threads : executing[t] # Nil => executing[t] \in Requests \ {r}
          /\ \A k \in 1..Len(pool_queue) : pool_queue[k] \in Requests \ {r}
        <3>1. pool_queue \in Seq(Requests) /\ executing \in [Threads -> Requests \cup {Nil}]
            BY <1>0 DEF TypeOK
        <3>2. /\ \A t \in Threads : executing[t] # Nil => state[executing[t]] = "executing"
              /\ \A k \in 1..Len(pool_queue) : state[pool_queue[k]] = "pooled"
            BY DEF IInv, PoolInv
        <3> QED
            BY <1>1, <3>1, <3>2
    <2> QED
        BY <1>0, <1>2, <2>1, <2>2 DEF IInv, PoolInv
<1>7. StateInv'
    <2>1. \A q \in Requests : state'[q] = "absent" <=> q > received'
        BY <1>0, <1>2, <1>4 DEF IInv, StateInv, r
    <2>2. \A q \in Requests : q <= received' => request'[q] \in RequestContents
        BY <1>0, <1>2 DEF IInv, StateInv, r
    <2>3. \A q \in Requests : state'[q] = "reloading" <=> draining' = q
        BY <1>0, <1>1, <1>2 DEF IInv, StateInv
    <2> QED
        BY <1>0, <1>2, <2>1, <2>2, <2>3 DEF IInv, StateInv
<1>8. OrderInv' /\ ReloadIsBarrier'
    <2>1. \A q \in Requests : r < q => state[q] = "absent"
        BY <1>0, <1>4
    <2> QED
        BY <1>0, <1>1, <1>2, <2>1 DEF IInv, OrderInv, ReloadIsBarrier, Unbegun
<1> QED
    BY <1>3, <1>5, <1>6, <1>7, <1>8 DEF IInv

\* An interrupt leaves the loop, and the reload that blocks it.
LEMMA InterruptStep ==
    ASSUME IInv, Interrupt
    PROVE  IInv'
<1>0. /\ TypeOK /\ draining' = Nil /\ phase' = "stopping" /\ phase' # "dispatching"
      /\ received' = received /\ request' = request /\ outcome' = outcome
      /\ \A q \in Requests : state'[q] = IF q = draining THEN "died" ELSE state[q]
      /\ UNCHANGED poolVars
    BY DEF Interrupt, IInv, loopVars, wireVars
<1>1. \A q \in Requests :
        \/ state'[q] = state[q]
        \/ state[q] = "reloading" /\ state'[q] = "died"
    BY <1>0 DEF IInv, StateInv
<1>2. TypeOK'
    <2>1. state' \in [Requests -> States]
        BY <1>0 DEF Interrupt, TypeOK, States
    <2> QED
        BY <1>0, <2>1 DEF Interrupt, TypeOK, Phases, loopVars, poolVars, wireVars
<1>3. ReadyInv'
    BY <1>0 DEF ReadyInv
<1>4. PoolInv'
    <2>1. /\ pool_queue' = pool_queue /\ executing' = executing /\ thread_local' = thread_local
          /\ max_workers' = max_workers /\ Executing' = Executing
        BY <1>0 DEF poolVars, Executing
    <2>2. /\ \A t \in Threads : executing[t] # Nil => executing[t] \in Requests
          /\ \A k \in 1..Len(pool_queue) : pool_queue[k] \in Requests
        <3>1. pool_queue \in Seq(Requests) /\ executing \in [Threads -> Requests \cup {Nil}]
            BY <1>0 DEF TypeOK
        <3> QED
            BY <3>1
    <2>3. \A q \in Requests : state'[q] \in {"pooled", "executing"} \/ state[q] \in {"pooled", "executing"}
                => state'[q] = state[q]
        BY <1>1
    <2>4. /\ \A t \in Threads : executing[t] # Nil => state[executing[t]] = "executing"
          /\ \A k \in 1..Len(pool_queue) : state[pool_queue[k]] = "pooled"
        BY DEF IInv, PoolInv
    <2>5. /\ \A t \in Threads : executing'[t] # Nil => state'[executing'[t]] = "executing"
          /\ \A k \in 1..Len(pool_queue') : state'[pool_queue'[k]] = "pooled"
        BY <2>1, <2>2, <2>3, <2>4
    <2> QED
        BY <2>1, <2>3, <2>5 DEF IInv, PoolInv
<1>5. StateInv'
    <2>1. \A q \in Requests : state'[q] # "reloading" /\ draining' # q
        BY <1>0, ParametersAreBounded DEF IInv, StateInv
    <2> QED
        BY <1>0, <1>1, <2>1 DEF IInv, StateInv
<1>6. OrderInv' /\ ReloadIsBarrier'
    BY <1>0, <1>1 DEF IInv, OrderInv, ReloadIsBarrier, Unbegun
<1> QED
    BY <1>2, <1>3, <1>4, <1>5, <1>6 DEF IInv

\* Before the loop's main task has queued StartStream, nothing was asked.
StartInv ==
    phase \in {"connecting", "connected", "failed"} =>
        received = 0 /\ ready = <<>> /\ resp_queue = <<>> /\ sent = <<>>

\* The main task waits for the gRPC thread to connect.
ConnectInv == grpc = "connecting" <=> phase = "connecting"

FullInv == IInv /\ StartInv /\ ConnectInv

\* Then the pool is idle, too.
LEMMA NothingAsked ==
    ASSUME FullInv, phase \in {"connecting", "connected", "failed"}
    PROVE  /\ \A r \in Requests : state[r] = "absent"
           /\ pool_queue = <<>> /\ \A t \in Threads : executing[t] = Nil
           /\ draining = Nil /\ ready = <<>>
<1>1. \A r \in Requests : state[r] = "absent"
    BY ParametersAreBounded DEF FullInv, StartInv, IInv, StateInv, Requests
<1>2. pool_queue \in Seq(Requests) /\ executing \in [Threads -> Requests \cup {Nil}]
    BY DEF FullInv, IInv, TypeOK
<1>3. \A k \in 1..Len(pool_queue) : pool_queue[k] \in Requests /\ state[pool_queue[k]] = "pooled"
    BY <1>2 DEF FullInv, IInv, PoolInv
<1>4. pool_queue = <<>>
    <2>1. Len(pool_queue) \in Nat /\ (pool_queue # <<>> => Len(pool_queue) # 0)
        BY <1>2
    <2> QED
        BY <1>1, <1>3, <2>1
<1>5. \A t \in Threads : executing[t] = Nil
    BY <1>1, <1>2 DEF FullInv, IInv, PoolInv
<1> QED
    BY <1>1, <1>4, <1>5 DEF FullInv, StartInv, IInv, StateInv

\* Steps that change the phase, the streams and nothing that IInv relates.
LEMMA StreamStep ==
    ASSUME FullInv, TypeOK',
           UNCHANGED <<state, ready, draining, request, outcome, received, poolVars>>,
           \/ phase' = phase
           \/ phase \in {"connecting", "connected", "failed"}
           \/ phase \notin {"dispatching"} /\ phase' # "dispatching"
    PROVE  IInv'
<1>1. PoolInv' /\ OrderInv' /\ ReloadIsBarrier'
    BY DEF FullInv, IInv, PoolInv, OrderInv, ReloadIsBarrier, Executing, Unbegun, poolVars
<1>2. StateInv' /\ ReadyInv'
    <2>1. CASE phase' = phase
        BY <2>1 DEF FullInv, IInv, StateInv, ReadyInv
    <2>2. CASE phase \in {"connecting", "connected", "failed"}
        BY <2>2, NothingAsked DEF FullInv, IInv, StateInv, ReadyInv
    <2>3. CASE phase \notin {"dispatching"} /\ phase' # "dispatching"
        BY <2>3 DEF FullInv, IInv, StateInv, ReadyInv
    <2> QED
        BY <2>1, <2>2, <2>3
<1> QED
    BY <1>1, <1>2 DEF IInv

\* Steps of the main task and of the gRPC thread.
MainOrStreamStep ==
    \/ DispatchForever \/ GrpcConnects \/ GrpcConnectTimeout \/ GrpcSends
    \/ StreamBreaks \/ StopBegins \/ StopJoins \/ StopEnds

LEMMA MainAndStreamTypes ==
    ASSUME TypeOK, MainOrStreamStep
    PROVE  TypeOK'
<1>0. /\ resp_queue \in Seq(Messages) /\ sent \in Seq(Messages)
      /\ StartStream \in Messages /\ GRPC_STOP_RESPONSE \in Messages
    BY DEF TypeOK, Messages, StartStream, GRPC_STOP_RESPONSE
<1>1. CASE DispatchForever
    <2>1. resp_queue' \in Seq(Messages)
        BY <1>0, <1>1 DEF DispatchForever
    <2> QED
        BY <1>1, <2>1 DEF DispatchForever, TypeOK, Phases, loopVars, poolVars, wireVars
<1>2. CASE GrpcConnects
    BY <1>2 DEF GrpcConnects, TypeOK, Phases, loopVars, poolVars
<1>3. CASE GrpcConnectTimeout
    BY <1>3 DEF GrpcConnectTimeout, TypeOK, Phases, loopVars, poolVars
<1>4. CASE GrpcSends
    <2>1. resp_queue' \in Seq(Messages) /\ Head(resp_queue) \in Messages
        BY <1>0, <1>4, TailFacts DEF GrpcSends
    <2>2. sent' \in Seq(Messages)
        <3>1. sent' = sent \/ sent' = Append(sent, Head(resp_queue))
            BY <1>4 DEF GrpcSends
        <3>2. Append(sent, Head(resp_queue)) \in Seq(Messages)
            BY <1>0, <2>1, AppendFacts
        <3> QED
            BY <1>0, <3>1, <3>2
    <2>3. grpc' \in {"connecting", "streaming", "ended", "broken"}
        BY <1>4 DEF GrpcSends, TypeOK
    <2> QED
        BY <1>4, <2>1, <2>2, <2>3 DEF GrpcSends, TypeOK, loopVars, poolVars
<1>5. CASE StreamBreaks
    BY <1>5 DEF StreamBreaks, TypeOK, loopVars, poolVars
<1>6. CASE StopBegins
    <2>1. resp_queue' \in Seq(Messages)
        BY <1>0, <1>6 DEF StopBegins
    <2> QED
        BY <1>6, <2>1 DEF StopBegins, TypeOK, Phases, loopVars, poolVars, wireVars
<1>7. CASE StopJoins
    BY <1>7 DEF StopJoins, TypeOK, Phases, loopVars, poolVars, wireVars
<1>8. CASE StopEnds
    BY <1>8 DEF StopEnds, TypeOK, Phases, loopVars, poolVars, wireVars
<1> QED
    BY <1>1, <1>2, <1>3, <1>4, <1>5, <1>6, <1>7, <1>8 DEF MainOrStreamStep

LEMMA MainAndStreamSteps ==
    ASSUME FullInv, MainOrStreamStep
    PROVE  IInv'
<1>0. TypeOK /\ TypeOK'
    BY MainAndStreamTypes DEF FullInv, IInv
<1>1. UNCHANGED <<state, ready, draining, request, outcome, received, poolVars>>
    BY DEF MainOrStreamStep, DispatchForever, GrpcConnects, GrpcConnectTimeout, GrpcSends,
           StreamBreaks, StopBegins, StopJoins, StopEnds, loopVars, wireVars
<1>2. CASE DispatchForever
    BY <1>0, <1>1, <1>2, StreamStep DEF DispatchForever
<1>3. CASE GrpcConnects \/ GrpcConnectTimeout
    <2>1. grpc = "connecting" => phase \in {"connecting"}
        BY DEF FullInv, ConnectInv
    <2> QED
        BY <1>0, <1>1, <1>3, <2>1, StreamStep DEF GrpcConnects, GrpcConnectTimeout
<1>4. CASE GrpcSends \/ StreamBreaks
    BY <1>0, <1>1, <1>4, StreamStep DEF GrpcSends, StreamBreaks
<1>5. CASE StopBegins \/ StopJoins \/ StopEnds
    BY <1>0, <1>1, <1>5, StreamStep DEF StopBegins, StopJoins, StopEnds
<1> QED
    BY <1>2, <1>3, <1>4, <1>5 DEF MainOrStreamStep

\* The other two conjuncts: nobody but DispatchForever speaks first.
LEMMA StartStep ==
    ASSUME FullInv, [Next]_vars
    PROVE  StartInv' /\ ConnectInv'
<1> USE DEF FullInv
<1>1. CASE UNCHANGED vars
    BY <1>1 DEF vars, wireVars, StartInv, ConnectInv
<1>2. ASSUME NEW r \in Requests, TaskStep(r) PROVE StartInv' /\ ConnectInv'
    <2>1. phase = "dispatching" /\ grpc' = grpc
        BY <1>2 DEF TaskStep, HandleUnknown, _handle__worker_init_request, WorkerInitError,
            _handle__worker_status_request, _handle__functions_metadata_request,
            _handle__function_load_request, InvocationNotFound, InvocationDecodeError,
            SyncInvocationStarts, AsyncInvocationStarts, AsyncInvocationRunsThrough,
            AsyncFunctionLogs, AsyncFunctionEnds, SyncInvocationResumes, ReloadRefused, ReloadBegins,
            InvocationBegins, Begins, Runs, LoopIsFree, wireVars
    <2>2. \A o \in OutcomeKinds : \A messages : FinishInvocation(r, o, messages) =>
            phase' \in {phase, "stopping"}
        BY DEF OutcomeKinds, FinishInvocation
    <2>3. SyncInvocationResumes(r) => outcome[r] \in OutcomeKinds
        BY DEF SyncInvocationResumes, IInv, StateInv
    <2>4. phase' \in {phase, "stopping"}
        BY <1>2, <2>2, <2>3, ParametersAreBounded
            DEF TaskStep, HandleUnknown, _handle__worker_init_request, WorkerInitError,
                _handle__worker_status_request, _handle__functions_metadata_request,
                _handle__function_load_request, InvocationNotFound, InvocationDecodeError,
                SyncInvocationStarts, AsyncInvocationStarts, AsyncInvocationRunsThrough,
                AsyncFunctionLogs, AsyncFunctionEnds, SyncInvocationResumes, ReloadRefused, ReloadBegins
    <2> QED
        BY <2>1, <2>4 DEF StartInv, ConnectInv
<1>3. CASE DispatchForever \/ StopBegins \/ StopJoins \/ StopEnds
    BY <1>3 DEF DispatchForever, StopBegins, StopJoins, StopEnds, StartInv, ConnectInv, wireVars
<1>4. ASSUME NEW n \in WorkerCounts, NEW registered \in SUBSET Functions,
             NEW status \in {"Success", "Failure"}, ReloadEnds(n, registered, status)
      PROVE  StartInv' /\ ConnectInv'
    BY <1>4 DEF ReloadEnds, StartInv, ConnectInv, wireVars
<1>5. ASSUME NEW t \in Threads, ThreadStarts(t) PROVE StartInv' /\ ConnectInv'
    BY <1>5, NothingAsked DEF ThreadStarts, StartInv, ConnectInv, wireVars
<1>6. ASSUME NEW r \in Requests, UserStep(r) PROVE StartInv' /\ ConnectInv'
    <2>1. phase' = phase /\ grpc' = grpc
        BY <1>6 DEF UserStep, AsyncFunctionWakes, ThreadLogs, ThreadEnds, wireVars
    <2>2. phase \notin {"connecting", "connected", "failed"}
        BY <1>6, NothingAsked, ParametersAreBounded
            DEF UserStep, AsyncFunctionWakes, LoopIsFree, ThreadLogs, ThreadEnds
    <2> QED
        BY <2>1, <2>2 DEF StartInv, ConnectInv
<1>7. CASE GrpcStep
    BY <1>7 DEF GrpcStep, GrpcConnects, GrpcSends, StartInv, ConnectInv
<1>8. CASE GrpcConnectTimeout \/ StreamBreaks \/ Interrupt
    BY <1>8 DEF GrpcConnectTimeout, StreamBreaks, Interrupt, StartInv, ConnectInv, wireVars
<1>9. ASSUME NEW c \in RequestContents, GrpcReceives(c) PROVE StartInv' /\ ConnectInv'
    BY <1>9 DEF GrpcReceives, StartInv, ConnectInv
<1> QED
    BY <1>1, <1>2, <1>3, <1>4, <1>5, <1>6, <1>7, <1>8, <1>9 DEF Next, LoopStep, HostStep

LEMMA NextFullInv == FullInv /\ [Next]_vars => FullInv'
<1> SUFFICES ASSUME FullInv, [Next]_vars PROVE FullInv'
    OBVIOUS
<1>0. IInv
    BY DEF FullInv
<1>1. CASE UNCHANGED vars
    <2>1. TypeOK'
        BY <1>0, <1>1 DEF IInv, TypeOK, vars, loopVars, poolVars, wireVars
    <2>2. UNCHANGED <<phase, state, ready, draining, request, outcome, received, poolVars>>
        BY <1>1 DEF vars, loopVars, wireVars
    <2> QED
        BY <1>0, <2>1, <2>2, Untouched, StartStep DEF FullInv
<1>2. ASSUME NEW r \in Requests, TaskStep(r) PROVE IInv'
    BY <1>0, <1>2, TaskNext
<1>3. CASE DispatchForever \/ StopBegins \/ StopJoins \/ StopEnds
    BY <1>3, MainAndStreamSteps, StartStep DEF MainOrStreamStep, FullInv
<1>4. ASSUME NEW n \in WorkerCounts, NEW registered \in SUBSET Functions,
             NEW status \in {"Success", "Failure"}, ReloadEnds(n, registered, status)
      PROVE  IInv'
    BY <1>0, <1>4, ReloadEndsStep DEF Statuses
<1>5. ASSUME NEW t \in Threads, ThreadStarts(t) PROVE IInv'
    BY <1>0, <1>5, ThreadStartsStep
<1>6. ASSUME NEW r \in Requests, UserStep(r) PROVE IInv'
    <2>1. CASE AsyncFunctionWakes(r)
        BY <1>0, <2>1, AsyncWakesStep
    <2>2. ASSUME NEW t \in Threads, ThreadLogs(t) PROVE IInv'
        BY <1>0, <2>2, ThreadLogsStep
    <2>3. ASSUME NEW t \in Threads, NEW o \in Outcomes, ThreadEnds(t, o) PROVE IInv'
        BY <1>0, <2>3, ThreadEndsStep, ParametersAreBounded
    <2> QED
        BY <1>6, <2>1, <2>2, <2>3 DEF UserStep
<1>7. CASE GrpcStep
    BY <1>7, MainAndStreamSteps, StartStep DEF MainOrStreamStep, GrpcStep, FullInv
<1>8. CASE GrpcConnectTimeout \/ StreamBreaks
    BY <1>8, MainAndStreamSteps, StartStep DEF MainOrStreamStep, FullInv
<1>9. CASE Interrupt
    BY <1>0, <1>9, InterruptStep, StartStep DEF FullInv
<1>10. ASSUME NEW c \in RequestContents, GrpcReceives(c) PROVE IInv'
    BY <1>0, <1>10, ReceivesStep
<1> QED
    BY <1>1, <1>2, <1>3, <1>4, <1>5, <1>6, <1>7, <1>8, <1>9, <1>10, StartStep
        DEF FullInv, Next, LoopStep, HostStep

LEMMA Invariance == Spec => []FullInv
<1>1. Init => FullInv
    BY InitIInv DEF FullInv, StartInv, ConnectInv, Init
<1> QED
    BY <1>1, NextFullInv, PTL DEF Spec

-----------------------------------------------------------------------------
(* What the worker says: facts about sequences of messages.                *)

LEMMA ConcatFacts ==
    ASSUME NEW S, NEW s \in Seq(S), NEW q \in Seq(S)
    PROVE  /\ s \o q \in Seq(S)
           /\ Len(s \o q) = Len(s) + Len(q)
           /\ \A k \in 1..Len(s) : (s \o q)[k] = s[k]
           /\ \A k \in 1..Len(q) : (s \o q)[Len(s) + k] = q[k]
OBVIOUS

LEMMA ConcatAppend ==
    ASSUME NEW S, NEW s \in Seq(S), NEW q \in Seq(S), NEW a \in S, NEW b \in S
    PROVE  /\ s \o Append(q, a) = Append(s \o q, a)
           /\ s \o <<>> = s
           /\ q \o <<a>> = Append(q, a)
           /\ q \o <<a, b>> = Append(Append(q, a), b)
           /\ (s \o q) \o <<a>> = s \o (q \o <<a>>)
BY SMTT(60)

LEMMA ConcatAssociates ==
    ASSUME NEW S, NEW s \in Seq(S), NEW q \in Seq(S), NEW t \in Seq(S)
    PROVE  (s \o q) \o t = s \o (q \o t)
BY SMTT(60)

\* A message that moves from the head of one sequence to the end of another.
LEMMA HeadMoves ==
    ASSUME NEW S, NEW s \in Seq(S), NEW q \in Seq(S), q # <<>>
    PROVE  Append(s, Head(q)) \o Tail(q) = s \o q
OBVIOUS

\* The properties of what was said, of any sequence of messages.
HasResponse(q, r) == \E k \in 1..Len(q) : IsResponseOf(q[k], r)

Attributed(q) == \A k \in 1..Len(q) : IsUserLog(q[k]) => q[k].invocation_id = q[k].of

LogsFirst(q) ==
    \A j, k \in 1..Len(q) : IsUserLog(q[k]) /\ IsResponseOf(q[j], q[k].of) => k < j

OneResponse(q) ==
    \A j, k \in 1..Len(q) : \A r \in Requests :
        IsResponseOf(q[j], r) /\ IsResponseOf(q[k], r) => j = k

Orderly(q) == Attributed(q) /\ LogsFirst(q) /\ OneResponse(q)

LEMMA KindsOfMessages ==
    ASSUME NEW r \in Requests, NEW id, NEW status, NEW p
    PROVE  /\ ~IsUserLog(StartStream) /\ ~IsResponseOf(StartStream, p)
           /\ ~IsUserLog(GRPC_STOP_RESPONSE) /\ ~IsResponseOf(GRPC_STOP_RESPONSE, p)
           /\ ~IsUserLog(WorkerLog(r, id)) /\ ~IsResponseOf(WorkerLog(r, id), p)
           /\ ~IsUserLog(Response(r, status)) /\ (IsResponseOf(Response(r, status), p) <=> p = r)
           /\ IsUserLog(UserLog(r, id)) /\ ~IsResponseOf(UserLog(r, id), p)
           /\ UserLog(r, id).of = r /\ UserLog(r, id).invocation_id = id
           /\ StartStream # GRPC_STOP_RESPONSE
           /\ WorkerLog(r, id) # GRPC_STOP_RESPONSE /\ UserLog(r, id) # GRPC_STOP_RESPONSE
           /\ Response(r, status) # GRPC_STOP_RESPONSE
BY DEF IsUserLog, IsResponseOf, StartStream, GRPC_STOP_RESPONSE, WorkerLog, UserLog, Response

\* One message more.
LEMMA AppendMessage ==
    ASSUME NEW q \in Seq(Messages), NEW m \in Messages, Orderly(q),
           IsUserLog(m) => m.invocation_id = m.of /\ ~HasResponse(q, m.of),
           \A r \in Requests : IsResponseOf(m, r) => ~HasResponse(q, r) /\ ~IsUserLog(m)
    PROVE  /\ Append(q, m) \in Seq(Messages) /\ Orderly(Append(q, m))
           /\ \A r : HasResponse(Append(q, m), r) <=> HasResponse(q, r) \/ IsResponseOf(m, r)
<1> DEFINE w == Append(q, m)
           n == Len(q)
<1>1. /\ w \in Seq(Messages) /\ Len(w) = n + 1 /\ n \in Nat
      /\ \A k \in 1..n : w[k] = q[k]
      /\ w[n + 1] = m
    OBVIOUS
<1> HIDE DEF w
<1>2. \A k : k \in 1..Len(w) <=> k \in 1..n \/ k = n + 1
    BY <1>1
<1> HIDE DEF n
<1>3. Attributed(w)
    BY <1>1, <1>2 DEF Orderly, Attributed, n
<1>4. \A r : HasResponse(w, r) <=> HasResponse(q, r) \/ IsResponseOf(m, r)
    BY <1>1, <1>2 DEF HasResponse, n
<1>5. LogsFirst(w)
    <2> SUFFICES ASSUME NEW j \in 1..Len(w), NEW k \in 1..Len(w),
                        IsUserLog(w[k]), IsResponseOf(w[j], w[k].of)
                 PROVE  k < j
        BY DEF LogsFirst
    <2>1. CASE j \in 1..n /\ k \in 1..n
        <3>1. w[j] = q[j] /\ w[k] = q[k] /\ j \in 1..Len(q) /\ k \in 1..Len(q)
            BY <1>1, <2>1 DEF n
        <3> QED
            BY <3>1 DEF Orderly, LogsFirst
    <2>2. CASE j = n + 1 /\ k \in 1..n
        BY <1>1, <2>2
    <2>3. CASE j \in 1..n /\ k = n + 1
        <3>1. w[j] = q[j] /\ w[k] = m /\ j \in 1..Len(q)
            BY <1>1, <2>3 DEF n
        <3>2. HasResponse(q, m.of)
            BY <3>1 DEF HasResponse
        <3> QED
            BY <3>1, <3>2
    <2>4. CASE j = n + 1 /\ k = n + 1
        <3>1. m.of \in Requests
            BY <1>1, <2>4 DEF IsUserLog, Messages
        <3> QED
            BY <1>1, <2>4, <3>1
    <2> QED
        BY <1>2, <2>1, <2>2, <2>3, <2>4
<1>6. OneResponse(w)
    <2> SUFFICES ASSUME NEW j \in 1..Len(w), NEW k \in 1..Len(w), NEW r \in Requests,
                        IsResponseOf(w[j], r), IsResponseOf(w[k], r)
                 PROVE  j = k
        BY DEF OneResponse
    <2>1. CASE j \in 1..n /\ k \in 1..n
        <3>1. w[j] = q[j] /\ w[k] = q[k] /\ j \in 1..Len(q) /\ k \in 1..Len(q)
            BY <1>1, <2>1 DEF n
        <3> QED
            BY <3>1 DEF Orderly, OneResponse
    <2>2. CASE j = n + 1 /\ k \in 1..n
        BY <1>1, <2>2 DEF HasResponse, n
    <2>3. CASE j \in 1..n /\ k = n + 1
        BY <1>1, <2>3 DEF HasResponse, n
    <2> QED
        BY <1>2, <2>1, <2>2, <2>3
<1> QED
    BY <1>1, <1>3, <1>4, <1>5, <1>6 DEF w, Orderly

\* The stop marker leaves a sequence.
LEMMA MarkerLeaves ==
    ASSUME NEW s \in Seq(Messages), NEW q \in Seq(Messages), q # <<>>,
           Head(q) = GRPC_STOP_RESPONSE, Orderly(s \o q)
    PROVE  /\ Orderly(s \o Tail(q))
           /\ \A r \in Requests : HasResponse(s \o Tail(q), r) <=> HasResponse(s \o q, r)
<1> DEFINE v == s \o q
           w == s \o Tail(q)
           n == Len(s)
           g == [k \in 1..Len(w) |-> IF k <= n THEN k ELSE k + 1]
<1>1. /\ Tail(q) \in Seq(Messages) /\ Len(Tail(q)) = Len(q) - 1 /\ Len(q) \in Nat \ {0}
      /\ \A k \in 1..Len(Tail(q)) : Tail(q)[k] = q[k + 1]
      /\ Head(q) = q[1]
    BY TailFacts
<1>2. /\ Len(v) = n + Len(q) /\ n \in Nat
      /\ \A k \in 1..n : v[k] = s[k]
      /\ \A k \in 1..Len(q) : v[n + k] = q[k]
    BY ConcatFacts
<1>3. /\ Len(w) = n + Len(Tail(q))
      /\ \A k \in 1..n : w[k] = s[k]
      /\ \A k \in 1..Len(Tail(q)) : w[n + k] = Tail(q)[k]
    BY <1>1, ConcatFacts
<1> HIDE DEF v, w
<1>4. ASSUME NEW k \in 1..Len(w)
      PROVE  /\ g[k] \in 1..Len(v) /\ w[k] = v[g[k]]
    <2>1. CASE k <= n
        BY <1>1, <1>2, <1>3, <2>1
    <2>2. CASE ~(k <= n)
        <3>1. k - n \in 1..Len(Tail(q)) /\ n + (k - n) = k /\ (k - n) + 1 \in 1..Len(q)
              /\ n + ((k - n) + 1) = k + 1
            BY <1>1, <1>2, <1>3, <2>2
        <3>2. w[k] = Tail(q)[k - n] /\ Tail(q)[k - n] = q[(k - n) + 1]
              /\ v[k + 1] = q[(k - n) + 1]
            BY SMTT(60), <1>1, <1>2, <1>3, <3>1
        <3>3. g[k] = k + 1 /\ k + 1 \in 1..Len(v)
            BY <1>1, <1>2, <1>3, <2>2
        <3> QED
            BY ZenonT(60), <3>2, <3>3
    <2> QED
        BY <2>1, <2>2
<1>5. \A j, k \in 1..Len(w) : (g[j] < g[k] => j < k) /\ (g[j] = g[k] => j = k)
    BY <1>1, <1>2, <1>3
<1>6. \A k \in 1..Len(v) : k = n + 1 \/ \E j \in 1..Len(w) : g[j] = k
    <2> SUFFICES ASSUME NEW k \in 1..Len(v), k # n + 1 PROVE \E j \in 1..Len(w) : g[j] = k
        OBVIOUS
    <2>1. CASE k <= n
        BY <1>1, <1>2, <1>3, <2>1
    <2>2. CASE k > n + 1
        <3>1. k - 1 \in 1..Len(w) /\ g[k - 1] = k
            BY <1>1, <1>2, <1>3, <2>2
        <3> QED
            BY <3>1
    <2> QED
        BY <1>2, <2>1, <2>2
<1>7. v[n + 1] = GRPC_STOP_RESPONSE
    <2>1. 1 \in 1..Len(q)
        BY <1>1
    <2> QED
        BY <1>1, <1>2, <2>1
<1> HIDE DEF g, n
<1>8. Orderly(w)
    <2>1. Attributed(v) /\ LogsFirst(v) /\ OneResponse(v)
        BY DEF Orderly, v
    <2>2. Attributed(w)
        BY <1>4, <2>1 DEF Attributed
    <2>3. LogsFirst(w)
        <3> SUFFICES ASSUME NEW j \in 1..Len(w), NEW k \in 1..Len(w),
                            IsUserLog(w[k]), IsResponseOf(w[j], w[k].of)
                     PROVE  k < j
            BY DEF LogsFirst
        <3>1. /\ g[j] \in 1..Len(v) /\ g[k] \in 1..Len(v)
              /\ IsUserLog(v[g[k]]) /\ IsResponseOf(v[g[j]], v[g[k]].of)
            BY <1>4
        <3>2. g[k] < g[j]
            BY <2>1, <3>1 DEF LogsFirst
        <3> QED
            BY <1>5, <3>2
    <2>4. OneResponse(w)
        BY <1>4, <1>5, <2>1 DEF OneResponse
    <2> QED
        BY <2>2, <2>3, <2>4 DEF Orderly
<1>9. ASSUME NEW r \in Requests
      PROVE  HasResponse(w, r) <=> HasResponse(v, r)
    <2>1. ~IsResponseOf(v[n + 1], r)
        BY <1>7 DEF IsResponseOf, GRPC_STOP_RESPONSE
    <2>2. ASSUME HasResponse(w, r) PROVE HasResponse(v, r)
        <3>1. PICK k \in 1..Len(w) : IsResponseOf(w[k], r)
            BY <2>2 DEF HasResponse
        <3>2. g[k] \in 1..Len(v) /\ IsResponseOf(v[g[k]], r)
            BY <1>4, <3>1
        <3> QED
            BY <3>2 DEF HasResponse
    <2>3. ASSUME HasResponse(v, r) PROVE HasResponse(w, r)
        <3>1. PICK k \in 1..Len(v) : IsResponseOf(v[k], r)
            BY <2>3 DEF HasResponse
        <3>2. PICK j \in 1..Len(w) : g[j] = k
            BY <1>6, <2>1, <3>1
        <3>3. IsResponseOf(w[j], r)
            BY <1>4, <3>1, <3>2
        <3> QED
            BY <3>3 DEF HasResponse
    <2> QED
        BY <2>2, <2>3
<1> QED
    BY <1>8, <1>9 DEF v, w

-----------------------------------------------------------------------------
(* What the worker says, as an invariant.                                  *)

Late == {"joining", "waiting_for_pool", "stopped"}

Unmarked(q) == \A k \in 1..Len(q) : q[k] # GRPC_STOP_RESPONSE

OnlyUserLogs(q) == \A k \in 1..Len(q) : IsUserLog(q[k])

\* One stop marker, and nothing after it but the records of user functions.
Marked(q) ==
    \E n \in 1..Len(q) :
        /\ q[n] = GRPC_STOP_RESPONSE
        /\ \A k \in 1..(n - 1) : q[k] # GRPC_STOP_RESPONSE
        /\ \A k \in (n + 1)..Len(q) : IsUserLog(q[k])

\* The requests that are answered are those whose response was said.
AnswersInv == \A r \in Requests : HasResponse(Said, r) <=> state[r] = "answered"

\* The stream ends with the marker, so that only user functions' records can
\* be left in the queue.
MarkerInv ==
    /\ phase \notin Late => Unmarked(resp_queue)
    /\ grpc = "ended" => phase \in Late \cup {"failed"}
    /\ phase \in Late => IF grpc = "ended" THEN OnlyUserLogs(resp_queue) ELSE Marked(resp_queue)

MsgInv == Orderly(Said) /\ AnswersInv /\ MarkerInv

LEMMA SaidIsSeq ==
    ASSUME TypeOK
    PROVE  Said \in Seq(Messages) /\ sent \in Seq(Messages) /\ resp_queue \in Seq(Messages)
BY ConcatFacts DEF TypeOK, Said

LEMMA UnmarkedConcat ==
    ASSUME NEW q \in Seq(Messages), NEW add \in Seq(Messages), Unmarked(q), Unmarked(add)
    PROVE  Unmarked(q \o add)
<1> DEFINE w == q \o add
<1>1. /\ Len(w) = Len(q) + Len(add) /\ Len(q) \in Nat /\ Len(add) \in Nat
      /\ \A k \in 1..Len(q) : w[k] = q[k]
      /\ \A k \in 1..Len(add) : w[Len(q) + k] = add[k]
    BY ConcatFacts
<1> HIDE DEF w
<1>2. ASSUME NEW k \in 1..Len(w) PROVE w[k] # GRPC_STOP_RESPONSE
    <2>1. CASE k \in 1..Len(q)
        BY <1>1, <2>1 DEF Unmarked
    <2>2. CASE k \notin 1..Len(q)
        <3>1. k - Len(q) \in 1..Len(add) /\ Len(q) + (k - Len(q)) = k
            BY <1>1, <2>2
        <3> QED
            BY <1>1, <3>1 DEF Unmarked
    <2> QED
        BY <2>1, <2>2
<1> QED
    BY <1>2 DEF Unmarked, w

\* The loop says something while it runs.
LEMMA LoopSays ==
    ASSUME FullInv, MsgInv, phase = "dispatching", phase' \in {"dispatching", "stopping"},
           sent' = sent, grpc' = grpc,
           NEW add \in Seq(Messages), resp_queue' = resp_queue \o add, Unmarked(add),
           Orderly(Said \o add),
           \A r \in Requests : HasResponse(Said \o add, r) <=> state'[r] = "answered"
    PROVE  MsgInv'
<1>0. sent \in Seq(Messages) /\ resp_queue \in Seq(Messages)
    BY SaidIsSeq DEF FullInv, IInv
<1>1. Said' = Said \o add
    BY SMTT(60), <1>0, ConcatAssociates DEF Said
<1>2. Orderly(Said') /\ \A r \in Requests : HasResponse(Said', r) <=> state'[r] = "answered"
    BY <1>1
<1>3. Unmarked(resp_queue')
    BY <1>0, UnmarkedConcat DEF MsgInv, MarkerInv, Late
<1>4. MarkerInv'
    BY <1>3 DEF MsgInv, MarkerInv, Late
<1> QED
    BY <1>2, <1>4 DEF MsgInv, AnswersInv

\* Messages that are no response of any request.
Quiet(messages, r) ==
    \/ messages = <<>>
    \/ \E id \in Requests \cup {Nil} : messages = <<WorkerLog(r, id)>>
    \/ messages = <<UserLog(r, r)>>
    \/ messages = <<WorkerLog(r, r), UserLog(r, r)>>

LEMMA QuietMessages ==
    ASSUME TypeOK, NEW r \in Requests, NEW messages, Quiet(messages, r),
           NEW q \in Seq(Messages), Orderly(q), ~HasResponse(q, r)
    PROVE  /\ messages \in Seq(Messages) /\ Unmarked(messages)
           /\ q \o messages \in Seq(Messages)
           /\ Orderly(q \o messages)
           /\ \A p : HasResponse(q \o messages, p) <=> HasResponse(q, p)
<1>1. \A id \in Requests \cup {Nil} :
        /\ WorkerLog(r, id) \in Messages /\ UserLog(r, id) \in Messages
        /\ WorkerLog(r, id) # GRPC_STOP_RESPONSE /\ UserLog(r, id) # GRPC_STOP_RESPONSE
    BY MessageTypes, KindsOfMessages
<1>2. ASSUME NEW w \in Seq(Messages), Orderly(w), NEW id \in Requests \cup {Nil}
      PROVE  /\ Append(w, WorkerLog(r, id)) \in Seq(Messages)
             /\ Orderly(Append(w, WorkerLog(r, id)))
             /\ \A p : HasResponse(Append(w, WorkerLog(r, id)), p) <=> HasResponse(w, p)
    <2> DEFINE m == WorkerLog(r, id)
    <2>1. m \in Messages /\ ~IsUserLog(m) /\ \A p : ~IsResponseOf(m, p)
        BY <1>1, KindsOfMessages
    <2> HIDE DEF m
    <2>2. /\ Append(w, m) \in Seq(Messages) /\ Orderly(Append(w, m))
          /\ \A p : HasResponse(Append(w, m), p) <=> HasResponse(w, p)
        BY <1>2, <2>1, AppendMessage
    <2> QED
        BY <2>2 DEF m
<1>3. ASSUME NEW w \in Seq(Messages), Orderly(w), ~HasResponse(w, r)
      PROVE  /\ Append(w, UserLog(r, r)) \in Seq(Messages)
             /\ Orderly(Append(w, UserLog(r, r)))
             /\ \A p : HasResponse(Append(w, UserLog(r, r)), p) <=> HasResponse(w, p)
    <2> DEFINE m == UserLog(r, r)
    <2>1. m \in Messages /\ m.of = r /\ m.invocation_id = r /\ \A p : ~IsResponseOf(m, p)
        BY <1>1, KindsOfMessages
    <2> HIDE DEF m
    <2>2. /\ Append(w, m) \in Seq(Messages) /\ Orderly(Append(w, m))
          /\ \A p : HasResponse(Append(w, m), p) <=> HasResponse(w, p)
        BY <1>3, <2>1, AppendMessage
    <2> QED
        BY <2>2 DEF m
<1>4. CASE messages = <<>>
    <2>1. messages \in Seq(Messages) /\ q \o messages = q
        BY <1>4
    <2>2. Unmarked(messages)
        BY <1>4 DEF Unmarked
    <2> QED
        BY <2>1, <2>2
<1>5. ASSUME NEW id \in Requests \cup {Nil}, messages = <<WorkerLog(r, id)>>
      PROVE  /\ messages \in Seq(Messages) /\ Unmarked(messages)
             /\ q \o messages = Append(q, WorkerLog(r, id))
    <2> DEFINE m == WorkerLog(r, id)
    <2>1. m \in Messages /\ m # GRPC_STOP_RESPONSE /\ messages = <<m>>
        BY <1>1, <1>5
    <2> HIDE DEF m
    <2>2. messages \in Seq(Messages) /\ Unmarked(messages) /\ q \o messages = Append(q, m)
        BY <2>1 DEF Unmarked
    <2> QED
        BY <2>2 DEF m
<1>6. CASE messages = <<UserLog(r, r)>>
    <2> DEFINE m == UserLog(r, r)
    <2>1. m \in Messages /\ m # GRPC_STOP_RESPONSE /\ messages = <<m>>
        BY <1>1, <1>6
    <2> HIDE DEF m
    <2>2. messages \in Seq(Messages) /\ Unmarked(messages) /\ q \o messages = Append(q, m)
        BY <2>1 DEF Unmarked
    <2>3. /\ messages \in Seq(Messages) /\ Unmarked(messages)
          /\ q \o messages = Append(q, UserLog(r, r))
        BY <2>2 DEF m
    <2> QED
        BY <1>3, <2>3
<1>7. CASE messages = <<WorkerLog(r, r), UserLog(r, r)>>
    <2> DEFINE a == WorkerLog(r, r)
               b == UserLog(r, r)
               u == Append(q, a)
    <2>1. /\ a \in Messages /\ a # GRPC_STOP_RESPONSE /\ b \in Messages /\ b # GRPC_STOP_RESPONSE
          /\ messages = <<a, b>>
        BY <1>1, <1>7
    <2>2. u \in Seq(Messages) /\ Orderly(u) /\ \A p : HasResponse(u, p) <=> HasResponse(q, p)
        BY <1>2
    <2>3. /\ Append(u, b) \in Seq(Messages) /\ Orderly(Append(u, b))
          /\ \A p : HasResponse(Append(u, b), p) <=> HasResponse(u, p)
        <3>1. ~HasResponse(u, r)
            BY <2>2
        <3> HIDE DEF u
        <3> QED
            BY <1>3, <2>2, <3>1
    <2> HIDE DEF a, b
    <2>4. messages \in Seq(Messages) /\ q \o messages = Append(u, b)
        BY <2>1, ConcatAppend
    <2>5. Unmarked(messages)
        BY <2>1 DEF Unmarked
    <2> HIDE DEF u
    <2> QED
        BY SMTT(60), <2>2, <2>3, <2>4, <2>5
<1> QED
    BY ZenonT(60), <1>2, <1>4, <1>5, <1>6, <1>7 DEF Quiet

\* A response is said by the step that answers its request.
LEMMA EndsSays ==
    ASSUME FullInv, MsgInv, NEW r \in Requests, NEW messages, Quiet(messages, r),
           NEW status \in Statuses, Ends(r, messages, status), state[r] # "answered",
           phase = "dispatching", phase' \in {"dispatching", "stopping"},
           sent' = sent, grpc' = grpc
    PROVE  MsgInv'
<1> DEFINE m == Response(r, status)
           u == Said \o messages
           add == messages \o <<m>>
<1>0. TypeOK /\ Said \in Seq(Messages) /\ resp_queue \in Seq(Messages)
    BY SaidIsSeq DEF FullInv, IInv
<1>1. Orderly(Said) /\ \A p \in Requests : HasResponse(Said, p) <=> state[p] = "answered"
    BY DEF MsgInv, AnswersInv
<1>2. /\ messages \in Seq(Messages) /\ Unmarked(messages)
      /\ u \in Seq(Messages) /\ Orderly(u)
      /\ \A p : HasResponse(u, p) <=> HasResponse(Said, p)
    BY <1>0, <1>1, QuietMessages
<1>3. /\ m \in Messages /\ ~IsUserLog(m) /\ m # GRPC_STOP_RESPONSE
      /\ \A p : IsResponseOf(m, p) <=> p = r
    BY <1>0, MessageTypes, KindsOfMessages
<1>4. resp_queue' = (resp_queue \o messages) \o <<m>>
    BY DEF Ends
<1> HIDE DEF m
<1>5. <<m>> \in Seq(Messages) /\ Unmarked(<<m>>)
    BY <1>3 DEF Unmarked
<1>6. resp_queue' = resp_queue \o add /\ Said \o add = u \o <<m>>
    BY SMTT(60), <1>0, <1>2, <1>4, <1>5, ConcatAssociates
<1> HIDE DEF u
<1>7. u \o <<m>> = Append(u, m)
    BY <1>2, <1>3
<1>8. /\ Orderly(Append(u, m))
      /\ \A p : HasResponse(Append(u, m), p) <=> HasResponse(u, p) \/ p = r
    BY <1>1, <1>2, <1>3, AppendMessage
<1>9. add \in Seq(Messages) /\ Unmarked(add)
    BY <1>2, <1>5, UnmarkedConcat, ConcatFacts
<1>10. \A p \in Requests : state'[p] = "answered" <=> p = r \/ state[p] = "answered"
    BY <1>0 DEF Ends, TypeOK
<1> HIDE DEF add
<1>11. /\ Orderly(Said \o add)
       /\ \A p \in Requests : HasResponse(Said \o add, p) <=> state'[p] = "answered"
    BY <1>1, <1>2, <1>6, <1>7, <1>8, <1>10
<1> QED
    BY <1>6, <1>9, <1>11, LoopSays

\* Messages of a request that is not answered by the step.
LEMMA QuietSays ==
    ASSUME FullInv, MsgInv, NEW r \in Requests, NEW messages, Quiet(messages, r),
           resp_queue' = resp_queue \o messages, state[r] # "answered",
           \A p \in Requests : state'[p] = "answered" <=> state[p] = "answered",
           phase = "dispatching", phase' \in {"dispatching", "stopping"},
           sent' = sent, grpc' = grpc
    PROVE  MsgInv'
<1>0. TypeOK /\ Said \in Seq(Messages)
    BY SaidIsSeq DEF FullInv, IInv
<1>1. Orderly(Said) /\ \A p \in Requests : HasResponse(Said, p) <=> state[p] = "answered"
    BY DEF MsgInv, AnswersInv
<1>2. /\ messages \in Seq(Messages) /\ Unmarked(messages)
      /\ Orderly(Said \o messages)
      /\ \A p : HasResponse(Said \o messages, p) <=> HasResponse(Said, p)
    BY <1>0, <1>1, QuietMessages
<1> QED
    BY <1>1, <1>2, LoopSays

LEMMA TaskSays ==
    ASSUME FullInv, MsgInv, NEW r \in Requests, TaskStep(r)
    PROVE  MsgInv'
<1>0. /\ TypeOK /\ Nil \notin Requests /\ Nil \in Requests \cup {Nil}
      /\ resp_queue \in Seq(Messages)
      /\ \A id \in Requests \cup {Nil} : WorkerLog(r, id) \in Messages /\ UserLog(r, id) \in Messages
    BY MessageTypes, ParametersAreBounded DEF FullInv, IInv, TypeOK
<1>1. Runs(r) /\ sent' = sent /\ grpc' = grpc
    BY DEF TaskStep, HandleUnknown, _handle__worker_init_request, WorkerInitError,
        _handle__worker_status_request, _handle__functions_metadata_request,
        _handle__function_load_request, InvocationNotFound, InvocationDecodeError,
        SyncInvocationStarts, AsyncInvocationStarts, AsyncInvocationRunsThrough,
        AsyncFunctionLogs, AsyncFunctionEnds, SyncInvocationResumes, ReloadRefused, ReloadBegins,
        InvocationBegins, Begins, wireVars
<1>2. phase = "dispatching" /\ state[r] # "answered"
    BY <1>1, RunningTask DEF FullInv
<1>3. /\ Quiet(<<>>, r) /\ Quiet(<<UserLog(r, r)>>, r)
      /\ \A id \in Requests \cup {Nil} : Quiet(<<WorkerLog(r, id)>>, r)
      /\ Quiet(<<WorkerLog(r, r), UserLog(r, r)>>, r)
    BY DEF Quiet
<1>4. ASSUME NEW x \in States \ {"answered"}, state' = [state EXCEPT ![r] = x]
      PROVE  \A p \in Requests : state'[p] = "answered" <=> state[p] = "answered"
    BY <1>0, <1>2, <1>4 DEF TypeOK
<1>5. \A m \in Messages : Append(resp_queue, m) = resp_queue \o <<m>>
    BY <1>0
<1>6. ASSUME NEW messages, Quiet(messages, r), Dies(r, messages),
             phase' \in {"dispatching", "stopping"}
      PROVE  MsgInv'
    <2>1. \A p \in Requests : state'[p] = "answered" <=> state[p] = "answered"
        BY <1>4, <1>6 DEF Dies, States
    <2> QED
        BY <1>1, <1>2, <1>6, <2>1, QuietSays DEF Dies
<1>7. ASSUME NEW messages, Quiet(messages, r), NEW o \in OutcomeKinds,
             FinishInvocation(r, o, messages)
      PROVE  MsgInv'
    <2>1. CASE o = "returns"
        BY <1>1, <1>2, <1>7, <2>1, EndsSays DEF FinishInvocation, Statuses
    <2>2. CASE o = "raises"
        BY <1>1, <1>2, <1>7, <2>2, EndsSays DEF FinishInvocation, Statuses
    <2>3. CASE o = "exits"
        BY <1>6, <1>7, <2>3 DEF FinishInvocation
    <2> QED
        BY <2>1, <2>2, <2>3 DEF OutcomeKinds
<1>8. ASSUME NEW m \in Messages, Quiet(<<m>>, r), resp_queue' = Append(resp_queue, m),
             NEW x \in States \ {"answered"}, state' = [state EXCEPT ![r] = x], phase' = phase
      PROVE  MsgInv'
    <2>1. \A p \in Requests : state'[p] = "answered" <=> state[p] = "answered"
        BY <1>4, <1>8
    <2> QED
        BY <1>1, <1>2, <1>5, <1>8, <2>1, QuietSays
<1>9. CASE HandleUnknown(r)
    BY <1>0, <1>3, <1>8, <1>9 DEF HandleUnknown, States
<1>10. ASSUME NEW registered \in SUBSET Functions, _handle__worker_init_request(r, registered)
       PROVE  MsgInv'
    BY <1>0, <1>1, <1>2, <1>3, <1>10, EndsSays DEF _handle__worker_init_request, Statuses
<1>11. ASSUME NEW registered \in SUBSET Functions, WorkerInitError(r, registered)
       PROVE  MsgInv'
    BY <1>0, <1>2, <1>3, <1>6, <1>11 DEF WorkerInitError
<1>12. CASE _handle__worker_status_request(r)
    BY <1>1, <1>2, <1>3, <1>12, EndsSays DEF _handle__worker_status_request, Statuses
<1>13. ASSUME NEW registered \in SUBSET Functions, NEW status \in {"Success", "Failure"},
              _handle__functions_metadata_request(r, registered, status)
       PROVE  MsgInv'
    BY <1>0, <1>1, <1>2, <1>3, <1>13, EndsSays DEF _handle__functions_metadata_request, Statuses
<1>14. ASSUME NEW registered \in SUBSET Functions, NEW status \in {"Success", "Failure"},
              _handle__function_load_request(r, registered, status)
       PROVE  MsgInv'
    BY <1>0, <1>1, <1>2, <1>3, <1>14, EndsSays DEF _handle__function_load_request, Statuses
<1>15. CASE InvocationNotFound(r)
    BY <1>1, <1>2, <1>3, <1>15, EndsSays DEF InvocationNotFound, Statuses
<1>16. CASE InvocationDecodeError(r)
    BY <1>1, <1>2, <1>3, <1>16, EndsSays DEF InvocationDecodeError, Statuses
<1>17. CASE SyncInvocationStarts(r)
    BY <1>0, <1>3, <1>8, <1>17 DEF SyncInvocationStarts, States
<1>18. CASE AsyncInvocationStarts(r)
    BY <1>0, <1>3, <1>8, <1>18 DEF AsyncInvocationStarts, States
<1>19. ASSUME NEW o \in Outcomes, AsyncInvocationRunsThrough(r, o) PROVE MsgInv'
    BY <1>3, <1>7, <1>19, ParametersAreBounded DEF AsyncInvocationRunsThrough
<1>20. CASE AsyncFunctionLogs(r)
    BY <1>0, <1>3, <1>8, <1>20 DEF AsyncFunctionLogs, States
<1>21. ASSUME NEW o \in Outcomes, AsyncFunctionEnds(r, o) PROVE MsgInv'
    BY <1>3, <1>7, <1>21, ParametersAreBounded DEF AsyncFunctionEnds
<1>22. CASE SyncInvocationResumes(r)
    <2>1. outcome[r] \in OutcomeKinds
        BY <1>22 DEF SyncInvocationResumes, FullInv, IInv, StateInv
    <2> QED
        BY <1>3, <1>7, <1>22, <2>1 DEF SyncInvocationResumes
<1>23. CASE ReloadRefused(r)
    BY <1>0, <1>1, <1>2, <1>3, <1>23, EndsSays DEF ReloadRefused, Statuses
<1>24. CASE ReloadBegins(r)
    BY <1>0, <1>3, <1>8, <1>24 DEF ReloadBegins, States
<1> QED
    BY <1>9, <1>10, <1>11, <1>12, <1>13, <1>14, <1>15, <1>16, <1>17, <1>18, <1>19, <1>20,
       <1>21, <1>22, <1>23, <1>24 DEF TaskStep

\* Steps that say nothing and answer nothing.
LEMMA NothingSaid ==
    ASSUME MsgInv, sent' = sent, resp_queue' = resp_queue,
           \A p \in Requests : state'[p] = "answered" <=> state[p] = "answered",
           MarkerInv'
    PROVE  MsgInv'
<1>1. Said' = Said
    BY DEF Said
<1> QED
    BY <1>1 DEF MsgInv, AnswersInv

LEMMA PoolSays ==
    ASSUME FullInv, MsgInv, NEW t \in Threads,
           ThreadStarts(t) \/ \E o \in Outcomes : ThreadEnds(t, o)
    PROVE  MsgInv'
<1>0. TypeOK
    BY DEF FullInv, IInv
<1>1. /\ sent' = sent /\ resp_queue' = resp_queue /\ phase' = phase /\ grpc' = grpc
    BY DEF ThreadStarts, ThreadEnds, wireVars
<1>2. \A p \in Requests : state'[p] = "answered" <=> state[p] = "answered"
    <2>1. CASE ThreadStarts(t)
        <3>1. pool_queue \in Seq(Requests) /\ pool_queue # <<>>
            BY <1>0, <2>1 DEF ThreadStarts, TypeOK
        <3>2. Head(pool_queue) = pool_queue[1] /\ 1 \in 1..Len(pool_queue)
            BY <3>1
        <3>3. state[Head(pool_queue)] = "pooled"
            BY <3>2 DEF FullInv, IInv, PoolInv
        <3> QED
            BY <1>0, <2>1, <3>3 DEF ThreadStarts, TypeOK
    <2>2. ASSUME NEW o \in Outcomes, ThreadEnds(t, o)
          PROVE  \A p \in Requests : state'[p] = "answered" <=> state[p] = "answered"
        <3>1. executing[t] \in Requests /\ state[executing[t]] = "executing"
            BY <1>0, <2>2 DEF ThreadEnds, TypeOK, FullInv, IInv, PoolInv
        <3> QED
            BY <1>0, <2>2, <3>1 DEF ThreadEnds, TypeOK
    <2> QED
        BY <2>1, <2>2
<1>3. MarkerInv'
    BY <1>1 DEF MsgInv, MarkerInv
<1> QED
    BY <1>1, <1>2, <1>3, NothingSaid

\* The record of a function in a thread: its invocation is not answered, and
\* it may come after the stop marker.
LEMMA ThreadSays ==
    ASSUME FullInv, MsgInv, NEW t \in Threads, ThreadLogs(t)
    PROVE  MsgInv'
<1> DEFINE r == executing[t]
           m == UserLog(r, thread_local[t])
<1>0. TypeOK /\ Said \in Seq(Messages) /\ sent \in Seq(Messages) /\ resp_queue \in Seq(Messages)
    BY SaidIsSeq DEF FullInv, IInv
<1>1. /\ r \in Requests /\ state[r] = "executing" /\ thread_local[t] = r
      /\ sent' = sent /\ state' = state /\ phase' = phase /\ grpc' = grpc
    BY <1>0 DEF ThreadLogs, TypeOK, FullInv, IInv, PoolInv, wireVars
<1>2. CASE resp_queue' = resp_queue
    <2>1. MarkerInv'
        BY <1>1, <1>2 DEF MsgInv, MarkerInv
    <2> QED
        BY <1>1, <1>2, <2>1, NothingSaid
<1>3. CASE resp_queue' = Append(resp_queue, m)
    <2>1. /\ m \in Messages /\ IsUserLog(m) /\ m.of = r /\ m.invocation_id = r
          /\ m # GRPC_STOP_RESPONSE /\ \A p : ~IsResponseOf(m, p)
        BY <1>0, <1>1, MessageTypes, KindsOfMessages
    <2> HIDE DEF m
    <2>2. Orderly(Said) /\ ~HasResponse(Said, r)
        BY <1>1 DEF MsgInv, AnswersInv
    <2>3. /\ Orderly(Append(Said, m))
          /\ \A p : HasResponse(Append(Said, m), p) <=> HasResponse(Said, p)
        BY <1>0, <2>1, <2>2, AppendMessage
    <2>4. Said' = Append(Said, m)
        BY <1>0, <1>1, <1>3, <2>1, ConcatAppend DEF Said
    <2>5. Orderly(Said') /\ AnswersInv'
        BY <1>1, <2>3, <2>4 DEF MsgInv, AnswersInv
    <2> DEFINE q == resp_queue
               w == Append(q, m)
               n == Len(q)
    <2>6. /\ Len(w) = n + 1 /\ n \in Nat
          /\ \A k \in 1..n : w[k] = q[k]
          /\ w[n + 1] = m
        BY <1>0
    <2>7. resp_queue' = w
        BY <1>3
    <2> HIDE DEF w
    <2>8. \A k : k \in 1..Len(w) <=> k \in 1..n \/ k = n + 1
        BY <2>6
    <2>9. Unmarked(q) => Unmarked(w)
        BY <2>1, <2>6, <2>8 DEF Unmarked
    <2>10. OnlyUserLogs(q) => OnlyUserLogs(w)
        BY <2>1, <2>6, <2>8 DEF OnlyUserLogs
    <2>11. ASSUME Marked(q) PROVE Marked(w)
        <3>1. PICK i \in 1..Len(q) :
                /\ q[i] = GRPC_STOP_RESPONSE
                /\ \A k \in 1..(i - 1) : q[k] # GRPC_STOP_RESPONSE
                /\ \A k \in (i + 1)..Len(q) : IsUserLog(q[k])
            BY <2>11 DEF Marked
        <3>2. i \in 1..Len(w) /\ w[i] = GRPC_STOP_RESPONSE
            BY <2>6, <3>1
        <3>3. \A k \in 1..(i - 1) : w[k] # GRPC_STOP_RESPONSE
            BY <2>6, <3>1
        <3>4. \A k \in (i + 1)..Len(w) : IsUserLog(w[k])
            BY <2>1, <2>6, <3>1
        <3> QED
            BY <3>2, <3>3, <3>4 DEF Marked
    <2>12. MarkerInv'
        BY <1>1, <2>7, <2>9, <2>10, <2>11 DEF MsgInv, MarkerInv
    <2> QED
        BY <2>5, <2>12 DEF MsgInv
<1> QED
    BY <1>2, <1>3 DEF ThreadLogs

\* The gRPC thread sends a message, or takes the marker and ends.
LEMMA GrpcSays ==
    ASSUME FullInv, MsgInv, GrpcSends
    PROVE  MsgInv'
<1> DEFINE q == resp_queue
           w == Tail(q)
<1>0. TypeOK /\ sent \in Seq(Messages) /\ q \in Seq(Messages) /\ q # <<>>
    BY SaidIsSeq DEF FullInv, IInv, GrpcSends
<1>1. /\ w \in Seq(Messages) /\ Len(w) = Len(q) - 1 /\ Len(q) \in Nat \ {0}
      /\ \A k \in 1..Len(w) : w[k] = q[k + 1]
      /\ Head(q) = q[1]
    BY <1>0, TailFacts
<1>2. resp_queue' = w /\ state' = state /\ phase' = phase /\ grpc = "streaming"
    BY DEF GrpcSends
<1>3. Orderly(Said) /\ AnswersInv /\ MarkerInv
    BY DEF MsgInv
<1> HIDE DEF w
<1>4. Unmarked(q) => Unmarked(w)
    BY <1>1 DEF Unmarked
<1>5. CASE Head(q) = GRPC_STOP_RESPONSE
    <2>1. grpc' = "ended" /\ sent' = sent
        BY <1>5 DEF GrpcSends
    <2>2. /\ Orderly(sent \o w)
          /\ \A r \in Requests : HasResponse(sent \o w, r) <=> HasResponse(sent \o q, r)
        BY <1>0, <1>3, <1>5, MarkerLeaves DEF Said, w
    <2>3. Said' = sent \o w
        BY <1>2, <2>1 DEF Said
    <2>4. Orderly(Said') /\ AnswersInv'
        BY <1>2, <1>3, <2>2, <2>3 DEF AnswersInv, Said
    <2>5. 1 \in 1..Len(q) /\ q[1] = GRPC_STOP_RESPONSE
        BY <1>1, <1>5
    <2>6. phase \in Late /\ Marked(q)
        BY <1>2, <1>3, <2>5 DEF MarkerInv, Unmarked
    <2>7. OnlyUserLogs(w)
        <3>1. PICK i \in 1..Len(q) :
                /\ q[i] = GRPC_STOP_RESPONSE
                /\ \A k \in 1..(i - 1) : q[k] # GRPC_STOP_RESPONSE
                /\ \A k \in (i + 1)..Len(q) : IsUserLog(q[k])
            BY <2>6 DEF Marked
        <3>2. i = 1
            BY <2>5, <3>1
        <3> QED
            BY <1>1, <3>1, <3>2 DEF OnlyUserLogs
    <2>8. MarkerInv'
        BY <1>2, <2>1, <2>6, <2>7 DEF MarkerInv
    <2> QED
        BY <2>4, <2>8 DEF MsgInv
<1>6. CASE Head(q) # GRPC_STOP_RESPONSE
    <2>1. grpc' = grpc /\ sent' = Append(sent, Head(q))
        BY <1>6 DEF GrpcSends
    <2>2. Said' = Said
        BY <1>0, <1>2, <2>1, HeadMoves DEF Said, w
    <2>3. ASSUME Marked(q) PROVE Marked(w)
        <3>1. PICK i \in 1..Len(q) :
                /\ q[i] = GRPC_STOP_RESPONSE
                /\ \A k \in 1..(i - 1) : q[k] # GRPC_STOP_RESPONSE
                /\ \A k \in (i + 1)..Len(q) : IsUserLog(q[k])
            BY <2>3 DEF Marked
        <3>2. i # 1
            BY <1>1, <1>6, <3>1
        <3>3. i - 1 \in 1..Len(w) /\ w[i - 1] = GRPC_STOP_RESPONSE
            BY <1>1, <3>1, <3>2
        <3>4. \A k \in 1..((i - 1) - 1) : w[k] # GRPC_STOP_RESPONSE
            BY <1>1, <3>1
        <3>5. \A k \in ((i - 1) + 1)..Len(w) : IsUserLog(w[k])
            BY <1>1, <3>1
        <3> QED
            BY <3>3, <3>4, <3>5 DEF Marked
    <2>4. MarkerInv'
        BY <1>2, <1>3, <1>4, <2>1, <2>3 DEF MarkerInv
    <2> QED
        BY <1>2, <1>3, <2>2, <2>4 DEF MsgInv, AnswersInv
<1> QED
    BY <1>5, <1>6

\* The main task: it starts the stream and marks its end.
LEMMA MainSays ==
    ASSUME FullInv, MsgInv, DispatchForever \/ StopBegins
    PROVE  MsgInv'
<1> DEFINE m == IF phase = "connected" THEN StartStream ELSE GRPC_STOP_RESPONSE
           q == resp_queue
           w == Append(q, m)
           n == Len(q)
<1>0. TypeOK /\ Said \in Seq(Messages) /\ sent \in Seq(Messages) /\ q \in Seq(Messages)
    BY SaidIsSeq DEF FullInv, IInv
<1>1. /\ resp_queue' = w /\ sent' = sent /\ state' = state /\ grpc' = grpc
      /\ phase \in {"connected", "stopping"}
      /\ phase = "connected" => phase' = "dispatching"
      /\ phase = "stopping" => phase' = "joining"
    BY DEF DispatchForever, StopBegins, wireVars
<1>2. /\ m \in Messages /\ ~IsUserLog(m) /\ \A p : ~IsResponseOf(m, p)
      /\ phase = "connected" => m # GRPC_STOP_RESPONSE
      /\ phase # "connected" => m = GRPC_STOP_RESPONSE
    BY DEF Messages, StartStream, GRPC_STOP_RESPONSE, IsUserLog, IsResponseOf
<1> HIDE DEF m
<1>3. Orderly(Said) /\ AnswersInv /\ Unmarked(q) /\ grpc # "ended"
    BY <1>1 DEF MsgInv, MarkerInv, Late
<1>4. /\ Orderly(Append(Said, m))
      /\ \A p : HasResponse(Append(Said, m), p) <=> HasResponse(Said, p)
    BY <1>0, <1>2, <1>3, AppendMessage
<1>5. Said' = Append(Said, m)
    BY <1>0, <1>1, <1>2, ConcatAppend DEF Said
<1>6. Orderly(Said') /\ AnswersInv'
    BY <1>1, <1>3, <1>4, <1>5 DEF AnswersInv
<1>7. /\ Len(w) = n + 1 /\ n \in Nat
      /\ \A k \in 1..n : w[k] = q[k]
      /\ w[n + 1] = m
    BY <1>0, <1>2
<1> HIDE DEF w
<1>8. phase = "connected" => Unmarked(w)
    BY <1>2, <1>3, <1>7 DEF Unmarked
<1>9. phase = "stopping" => Marked(w)
    <2> SUFFICES ASSUME phase = "stopping" PROVE Marked(w)
        OBVIOUS
    <2>1. n + 1 \in 1..Len(w) /\ w[n + 1] = GRPC_STOP_RESPONSE
        BY <1>2, <1>7
    <2>2. \A k \in 1..((n + 1) - 1) : w[k] # GRPC_STOP_RESPONSE
        BY <1>3, <1>7 DEF Unmarked
    <2>3. \A k \in ((n + 1) + 1)..Len(w) : IsUserLog(w[k])
        BY <1>7
    <2> QED
        BY <2>1, <2>2, <2>3 DEF Marked
<1>10. MarkerInv'
    BY <1>1, <1>3, <1>8, <1>9 DEF MarkerInv, Late
<1> QED
    BY <1>6, <1>10 DEF MsgInv

LEMMA OthersSay ==
    ASSUME FullInv, MsgInv,
           \/ StopJoins \/ StopEnds \/ GrpcConnects \/ GrpcConnectTimeout \/ StreamBreaks
           \/ Interrupt
           \/ \E c \in RequestContents : GrpcReceives(c)
           \/ \E r \in Requests : AsyncFunctionWakes(r)
           \/ UNCHANGED vars
    PROVE  MsgInv'
<1>0. TypeOK
    BY DEF FullInv, IInv
<1>1. sent' = sent /\ resp_queue' = resp_queue
    BY DEF StopJoins, StopEnds, GrpcConnects, GrpcConnectTimeout, StreamBreaks, Interrupt,
           GrpcReceives, AsyncFunctionWakes, vars, wireVars
<1>2. \A p \in Requests : state'[p] = "answered" <=> state[p] = "answered"
    <2>1. CASE \E c \in RequestContents : GrpcReceives(c)
        <3>1. received + 1 \in Requests
            BY <1>0, <2>1, ParametersAreBounded DEF GrpcReceives, TypeOK, Requests
        <3>2. state[received + 1] = "absent"
            BY <1>0, <3>1, ParametersAreBounded DEF FullInv, IInv, StateInv, TypeOK
        <3> QED
            BY <1>0, <2>1, <3>1, <3>2 DEF GrpcReceives, TypeOK
    <2>2. CASE Interrupt
        <3>1. \A p \in Requests : p = draining => state[p] = "reloading"
            BY DEF FullInv, IInv, StateInv
        <3> QED
            BY <2>2, <3>1 DEF Interrupt
    <2>3. CASE \E r \in Requests : AsyncFunctionWakes(r)
        BY <1>0, <2>3 DEF AsyncFunctionWakes, TypeOK
    <2> QED
        BY <2>1, <2>2, <2>3
           DEF StopJoins, StopEnds, GrpcConnects, GrpcConnectTimeout, StreamBreaks, vars
<1>3. MarkerInv
    BY DEF MsgInv
<1>4. MarkerInv'
    <2>1. CASE \/ \E c \in RequestContents : GrpcReceives(c)
               \/ \E r \in Requests : AsyncFunctionWakes(r)
               \/ UNCHANGED vars
        BY <1>1, <1>3, <2>1 DEF GrpcReceives, AsyncFunctionWakes, vars, wireVars, MarkerInv
    <2>2. CASE StopJoins \/ StopEnds \/ StreamBreaks \/ Interrupt
        BY <1>1, <1>3, <2>2 DEF StopJoins, StopEnds, StreamBreaks, Interrupt, wireVars,
                                MarkerInv, Late
    <2>3. CASE GrpcConnects \/ GrpcConnectTimeout
        <3>1. phase = "connecting"
            BY <2>3 DEF GrpcConnects, GrpcConnectTimeout, FullInv, ConnectInv
        <3> QED
            BY <1>1, <1>3, <2>3, <3>1 DEF GrpcConnects, GrpcConnectTimeout, MarkerInv, Late
    <2> QED
        BY <2>1, <2>2, <2>3
<1> QED
    BY <1>1, <1>2, <1>4, NothingSaid

LEMMA NextSays == FullInv /\ MsgInv /\ [Next]_vars => MsgInv'
<1> SUFFICES ASSUME FullInv, MsgInv, [Next]_vars PROVE MsgInv'
    OBVIOUS
<1>1. CASE UNCHANGED vars
    BY <1>1, OthersSay
<1>2. ASSUME NEW r \in Requests, TaskStep(r) PROVE MsgInv'
    BY <1>2, TaskSays
<1>3. CASE DispatchForever \/ StopBegins
    BY <1>3, MainSays
<1>4. CASE StopJoins \/ StopEnds
    BY <1>4, OthersSay
<1>5. ASSUME NEW n \in WorkerCounts, NEW registered \in SUBSET Functions,
             NEW status \in {"Success", "Failure"}, ReloadEnds(n, registered, status)
      PROVE  MsgInv'
    <2>1. /\ draining \in Requests /\ state[draining] = "reloading"
          /\ phase = "dispatching" /\ phase' = phase /\ sent' = sent /\ grpc' = grpc
          /\ Ends(draining, <<>>, status)
        BY <1>5, ParametersAreBounded DEF ReloadEnds, FullInv, IInv, TypeOK, StateInv, wireVars
    <2>2. Quiet(<<>>, draining)
        BY DEF Quiet
    <2> QED
        BY <2>1, <2>2, EndsSays DEF Statuses
<1>6. ASSUME NEW t \in Threads, ThreadStarts(t) PROVE MsgInv'
    BY <1>6, PoolSays
<1>7. ASSUME NEW r \in Requests, UserStep(r) PROVE MsgInv'
    BY <1>7, PoolSays, ThreadSays, OthersSay DEF UserStep
<1>8. CASE GrpcStep
    BY <1>8, GrpcSays, OthersSay DEF GrpcStep
<1>9. CASE HostStep
    BY <1>9, OthersSay DEF HostStep
<1> QED
    BY <1>1, <1>2, <1>3, <1>4, <1>5, <1>6, <1>7, <1>8, <1>9 DEF Next, LoopStep

LEMMA MessageInvariance == Spec => [](FullInv /\ MsgInv)
<1>1. ASSUME Init PROVE MsgInv
    <2>1. sent = <<>> /\ resp_queue = <<>> /\ Said = <<>>
        BY <1>1 DEF Init, Said
    <2>2. Orderly(Said) /\ AnswersInv
        BY <1>1, <2>1
           DEF Init, Orderly, Attributed, LogsFirst, OneResponse, AnswersInv, HasResponse
    <2>3. MarkerInv
        BY <1>1, <2>1 DEF Init, MarkerInv, Unmarked, Late
    <2> QED
        BY <2>2, <2>3 DEF MsgInv
<1>2. Init => FullInv
    BY InitIInv DEF FullInv, StartInv, ConnectInv, Init
<1> QED
    BY <1>1, <1>2, NextFullInv, NextSays, PTL DEF Spec

-----------------------------------------------------------------------------
(* The dispatcher implements the server of RequestResponse.                *)

Places(r, status) == {k \in DOMAIN sent : sent[k] = Response(r, status)}

\* Only two steps touch the wire between the host and the worker.
LEMMA WireSteps ==
    ASSUME FullInv, [Next]_vars
    PROVE  \/ sent' = sent /\ received' = received
           \/ sent' = sent /\ received' = received + 1 /\ received + 1 \in Requests
           \/ GrpcSends
<1>1. CASE UNCHANGED vars
    BY <1>1 DEF vars, wireVars
<1>2. ASSUME NEW r \in Requests, TaskStep(r) PROVE sent' = sent /\ received' = received
    BY <1>2 DEF TaskStep, HandleUnknown, _handle__worker_init_request, WorkerInitError,
        _handle__worker_status_request, _handle__functions_metadata_request,
        _handle__function_load_request, InvocationNotFound, InvocationDecodeError,
        SyncInvocationStarts, AsyncInvocationStarts, AsyncInvocationRunsThrough,
        AsyncFunctionLogs, AsyncFunctionEnds, SyncInvocationResumes, ReloadRefused, ReloadBegins, wireVars
<1>3. CASE DispatchForever \/ StopBegins \/ StopJoins \/ StopEnds
    BY <1>3 DEF DispatchForever, StopBegins, StopJoins, StopEnds, wireVars
<1>4. ASSUME NEW n \in WorkerCounts, NEW registered \in SUBSET Functions,
             NEW status \in {"Success", "Failure"}, ReloadEnds(n, registered, status)
      PROVE  sent' = sent /\ received' = received
    BY <1>4 DEF ReloadEnds, wireVars
<1>5. ASSUME NEW t \in Threads, ThreadStarts(t) PROVE sent' = sent /\ received' = received
    BY <1>5 DEF ThreadStarts, wireVars
<1>6. ASSUME NEW r \in Requests, UserStep(r) PROVE sent' = sent /\ received' = received
    BY <1>6 DEF UserStep, AsyncFunctionWakes, ThreadLogs, ThreadEnds, wireVars
<1>7. CASE GrpcConnects \/ GrpcConnectTimeout \/ StreamBreaks \/ Interrupt
    BY <1>7 DEF GrpcConnects, GrpcConnectTimeout, StreamBreaks, Interrupt, wireVars
<1>8. ASSUME NEW c \in RequestContents, GrpcReceives(c)
      PROVE  sent' = sent /\ received' = received + 1 /\ received + 1 \in Requests
    BY <1>8, ParametersAreBounded DEF GrpcReceives, FullInv, IInv, TypeOK, Requests
<1> QED
    BY <1>1, <1>2, <1>3, <1>4, <1>5, <1>6, <1>7, <1>8
       DEF Next, LoopStep, GrpcStep, HostStep

Asked == {r \in Requests : state[r] # "absent"}
Replied == [r \in Requests |-> [status \in Statuses |-> TimesGot(r, status)]]

LEMMA AskedAreReceived ==
    ASSUME FullInv
    PROVE  \A r \in Requests : r \in Asked <=> r <= received
BY ParametersAreBounded DEF Asked, FullInv, IInv, StateInv, TypeOK, Requests

\* What a message that is sent adds to the replies the host got.
LEMMA SentOnce ==
    ASSUME FullInv, MsgInv, NEW m \in Messages, sent' = Append(sent, m),
           Said' = Said, Orderly(Said),
           NEW r \in Requests
    PROVE  /\ (\A status \in Statuses : m # Response(r, status)) =>
                \A status \in Statuses : TimesGot(r, status)' = TimesGot(r, status)
           /\ \A status \in Statuses : m = Response(r, status) =>
                /\ \A other \in Statuses : TimesGot(r, other) = 0
                /\ TimesGot(r, status)' = 1
                /\ \A other \in Statuses \ {status} : TimesGot(r, other)' = 0
<1> DEFINE w == Append(sent, m)
           n == Len(sent)
<1>0. TypeOK /\ Said \in Seq(Messages) /\ sent \in Seq(Messages) /\ resp_queue \in Seq(Messages)
    BY SaidIsSeq DEF FullInv, IInv
<1>1. /\ Len(w) = n + 1 /\ n \in Nat /\ DOMAIN sent = 1..n /\ DOMAIN w = 1..(n + 1)
      /\ \A k \in 1..n : w[k] = sent[k]
      /\ w[n + 1] = m
    BY <1>0
<1>2. sent' = w
    OBVIOUS
<1> HIDE DEF w, n
<1>3. \A k : k \in 1..(n + 1) <=> k \in 1..n \/ k = n + 1
    BY <1>1
<1>4. n + 1 \notin 1..n
    BY <1>1
<1>5. ASSUME NEW status \in Statuses, m # Response(r, status)
      PROVE  Places(r, status)' = Places(r, status)
    BY <1>1, <1>2, <1>3, <1>5 DEF Places, Response
<1>6. ASSUME NEW status \in Statuses, m = Response(r, status), NEW other \in Statuses
      PROVE  Places(r, other) = {}
    <2> SUFFICES ASSUME NEW k \in 1..n, sent[k] = Response(r, other) PROVE FALSE
        BY <1>1 DEF Places
    <2>1. IsResponseOf(sent[k], r) /\ IsResponseOf(m, r)
        BY <1>6, KindsOfMessages
    <2>2. /\ Len(Said) >= n + 1 /\ Said[k] = sent[k] /\ Said[n + 1] = m
        <3>1. TypeOK' => sent' \in Seq(Messages) /\ resp_queue' \in Seq(Messages)
            BY DEF TypeOK
        <3> QED
            BY <1>0, <1>1, <1>2, ConcatFacts DEF Said
    <2> QED
        BY <1>1, <2>1, <2>2 DEF Orderly, OneResponse
<1>7. ASSUME NEW status \in Statuses
      PROVE  TimesGot(r, status) = Cardinality(Places(r, status))
    BY DEF TimesGot, Places
<1>8. ASSUME \A status \in Statuses : m # Response(r, status), NEW status \in Statuses
      PROVE  TimesGot(r, status)' = TimesGot(r, status)
    BY <1>5, <1>8 DEF TimesGot, Places
<1>9. ASSUME NEW status \in Statuses, m = Response(r, status)
      PROVE  /\ \A other \in Statuses : TimesGot(r, other) = 0
             /\ TimesGot(r, status)' = 1
             /\ \A other \in Statuses \ {status} : TimesGot(r, other)' = 0
    <2>1. \A other \in Statuses : TimesGot(r, other) = 0
        BY <1>6, <1>7, <1>9, FS_EmptySet
    <2>2. Places(r, status)' = {n + 1}
        <3>1. \A k \in 1..n : w[k] # Response(r, status)
            BY <1>1, <1>6, <1>9 DEF Places
        <3>2. Places(r, status)' = {k \in 1..(n + 1) : w[k] = Response(r, status)}
            BY <1>1, <1>2 DEF Places, Response
        <3> QED
            BY <1>1, <1>3, <1>9, <3>1, <3>2
    <2>3. TimesGot(r, status)' = 1
        <3>1. Cardinality({n + 1}) = 1
            BY FS_Singleton
        <3>2. Cardinality(Places(r, status)') = 1
            BY <2>2, <3>1
        <3> QED
            BY <3>2 DEF TimesGot, Places
    <2>4. ASSUME NEW other \in Statuses \ {status}
          PROVE  TimesGot(r, other)' = 0
        <3>1. m # Response(r, other)
            BY <1>9, <2>4 DEF Response
        <3>2. Places(r, other)' = {}
            BY <1>5, <1>6, <1>9, <3>1
        <3>3. Cardinality(Places(r, other)') = 0
            BY <3>2, FS_EmptySet
        <3> QED
            BY <3>3 DEF TimesGot, Places
    <2> QED
        BY <2>1, <2>3, <2>4
<1> QED
    BY <1>8, <1>9

LEMMA ServerInitMaps == Init => Server!Init
<1> SUFFICES ASSUME Init PROVE Server!Init
    OBVIOUS
<1>1. Asked = {}
    BY DEF Init, Asked
<1>2. ASSUME NEW r \in Requests, NEW status \in Statuses
      PROVE  TimesGot(r, status) = 0
    <2>1. {k \in DOMAIN sent : sent[k] = Response(r, status)} = {}
        BY DEF Init
    <2> QED
        BY <2>1, FS_EmptySet DEF TimesGot
<1>3. Replied = [r \in Requests |-> [status \in Statuses |-> 0]]
    BY <1>2 DEF Replied
<1> QED
    BY <1>1, <1>3 DEF Server!Init, Server!NoReply, Server!Statuses, Statuses, Asked, Replied

LEMMA ServerNextMaps ==
    ASSUME FullInv, FullInv', MsgInv, MsgInv', [Next]_vars
    PROVE  [Server!Next]_(Server!vars)
<1> DEFINE NoReply == [status \in Statuses |-> 0]
<1>0. TypeOK /\ Said \in Seq(Messages) /\ sent \in Seq(Messages) /\ resp_queue \in Seq(Messages)
      /\ Orderly(Said) /\ received \in 0..NumRequests
    BY SaidIsSeq DEF FullInv, IInv, MsgInv, TypeOK
<1>1. /\ \A r \in Requests : r \in Asked <=> r <= received
      /\ \A r \in Requests : r \in Asked' <=> r <= received'
    <2>1. \A r \in Requests : r \in Asked <=> r <= received
        BY AskedAreReceived
    <2>2. \A r \in Requests : r \in Asked' <=> r <= received'
        <3>1. \A r \in Requests : state'[r] = "absent" <=> r > received'
            BY DEF FullInv, IInv, StateInv
        <3>2. received' \in 0..NumRequests
            BY DEF FullInv, IInv, TypeOK
        <3> QED
            BY <3>1, <3>2, ParametersAreBounded DEF Asked, Requests
    <2> QED
        BY <2>1, <2>2
<1>2. Asked \subseteq Requests /\ Asked' \subseteq Requests
    BY DEF Asked
<1>3. received' = received => Asked' = Asked
    BY <1>1, <1>2
<1>4. sent' = sent => Replied' = Replied
    BY DEF Replied, TimesGot, Response
<1>5. /\ Asked = {r \in Requests : state[r] # "absent"}
      /\ Replied = [r \in Requests |-> [status \in {"Success", "Failure"} |-> TimesGot(r, status)]]
    BY DEF Asked, Replied, Statuses
<1>6. CASE sent' = sent /\ received' = received
    <2>1. Asked' = Asked /\ Replied' = Replied
        BY <1>3, <1>4, <1>6
    <2> QED
        BY <2>1 DEF Server!vars, Asked, Replied, Statuses
<1>7. CASE sent' = sent /\ received' = received + 1 /\ received + 1 \in Requests
    <2>1. PICK r \in Requests : r = received + 1
        BY <1>7
    <2>2. r \notin Asked /\ Asked' = Asked \cup {r}
        <3>1. \A p \in Requests : p <= received + 1 <=> p <= received \/ p = r
            BY <1>0, <2>1 DEF Requests
        <3>2. ~(r <= received)
            BY <1>0, <2>1
        <3> QED
            BY <1>1, <1>2, <1>7, <2>1, <3>1, <3>2
    <2>3. Server!Ask(r)
        BY <1>4, <1>7, <2>2 DEF Server!Ask, Asked, Replied, Statuses
    <2> QED
        BY <2>3 DEF Server!Next
<1>8. CASE GrpcSends
    <2> DEFINE m == Head(resp_queue)
    <2>1. resp_queue # <<>> /\ m \in Messages /\ received' = received
        BY <1>0, <1>8 DEF GrpcSends
    <2>2. CASE m = GRPC_STOP_RESPONSE
        <3>1. sent' = sent
            BY <1>8, <2>2 DEF GrpcSends
        <3> QED
            BY <1>6, <2>1, <3>1
    <2>3. CASE m # GRPC_STOP_RESPONSE
        <3>1. sent' = Append(sent, m) /\ resp_queue' = Tail(resp_queue)
            BY <1>8, <2>3 DEF GrpcSends
        <3>2. Said' = Said
            BY <1>0, <2>1, <3>1, HeadMoves DEF Said
        <3> HIDE DEF m
        <3>3. \A r \in Requests :
                /\ (\A status \in Statuses : m # Response(r, status)) =>
                      \A status \in Statuses : TimesGot(r, status)' = TimesGot(r, status)
                /\ \A status \in Statuses : m = Response(r, status) =>
                      /\ \A other \in Statuses : TimesGot(r, other) = 0
                      /\ TimesGot(r, status)' = 1
                      /\ \A other \in Statuses \ {status} : TimesGot(r, other)' = 0
            BY <1>0, <2>1, <3>1, <3>2, SentOnce
        <3>4. CASE \A r \in Requests, status \in Statuses : m # Response(r, status)
            <4>1. \A r \in Requests, status \in Statuses : TimesGot(r, status)' = TimesGot(r, status)
                BY <3>3, <3>4
            <4>2. Replied' = Replied
                BY <4>1 DEF Replied
            <4> QED
                BY <1>3, <2>1, <4>2 DEF Server!vars, Asked, Replied, Statuses
        <3>5. ASSUME NEW r \in Requests, NEW status \in Statuses, m = Response(r, status)
              PROVE  Server!Next
            <4>1. \A p \in Requests \ {r} : \A other \in Statuses :
                        TimesGot(p, other)' = TimesGot(p, other)
                <5>1. \A p \in Requests \ {r} : \A other \in Statuses : m # Response(p, other)
                    BY <3>5 DEF Response
                <5> QED
                    BY <3>3, <5>1
            <4>2. Replied[r] = NoReply
                BY <3>3, <3>5 DEF Replied
            <4>3. Replied' = [Replied EXCEPT ![r] = [NoReply EXCEPT ![status] = 1]]
                <5>1. Replied'[r] = [NoReply EXCEPT ![status] = 1]
                    BY <3>3, <3>5 DEF Replied
                <5>2. \A p \in Requests \ {r} : Replied'[p] = Replied[p]
                    BY <4>1 DEF Replied
                <5> QED
                    BY <5>1, <5>2 DEF Replied
            <4>4. r \in Asked
                <5>1. 1 \in 1..Len(resp_queue) /\ m = resp_queue[1]
                    BY <1>0, <2>1 DEF m
                <5>2. Len(sent) + 1 \in 1..Len(Said) /\ Said[Len(sent) + 1] = m
                    BY <1>0, <5>1, ConcatFacts DEF Said
                <5>3. HasResponse(Said, r)
                    BY <3>5, <5>2, KindsOfMessages DEF HasResponse
                <5>4. state[r] = "answered"
                    BY <5>3 DEF MsgInv, AnswersInv
                <5> QED
                    BY <5>4 DEF Asked
            <4>5. Server!Reply(r, status)
                BY <1>3, <2>1, <4>2, <4>3, <4>4
                   DEF Server!Reply, Server!NoReply, Server!Statuses, Asked, Replied, Statuses
            <4> QED
                BY <4>5 DEF Server!Next, Server!Statuses, Statuses
        <3> QED
            BY <3>4, <3>5
    <2> QED
        BY <2>2, <2>3
<1> QED
    BY <1>6, <1>7, <1>8, WireSteps

-----------------------------------------------------------------------------
(* Theorems.                                                               *)

\* The variables of the worker have their types in every reachable state.
THEOREM TypeCorrect == Spec => []TypeOK
<1>1. FullInv => TypeOK
    BY DEF FullInv, IInv
<1> QED
    BY <1>1, Invariance, PTL

\* The pool never runs more sync functions than its size, also after a reload
\* gave it another, and runs no invocation twice at a time.
THEOREM PoolIsBounded == Spec => []PoolBounded
<1>1. ASSUME FullInv PROVE PoolBounded
    <2>1. max_workers \in Nat /\ Threads \subseteq Nat \ {0}
        BY <1>1, ParametersAreBounded DEF FullInv, IInv, TypeOK
    <2>2. Executing \subseteq 1..max_workers
        <3> SUFFICES ASSUME NEW t \in Threads, executing[t] # Nil PROVE t \in 1..max_workers
            BY DEF Executing
        <3>1. t <= max_workers
            BY <1>1 DEF FullInv, IInv, PoolInv
        <3> QED
            BY <2>1, <3>1
    <2>3. IsFiniteSet(1..max_workers) /\ Cardinality(1..max_workers) = max_workers
        BY <2>1, FS_Interval
    <2>4. Cardinality(Executing) <= max_workers
        BY <2>2, <2>3, FS_Subset
    <2> QED
        BY <1>1, <2>4 DEF PoolBounded, FullInv, IInv, PoolInv
<1> QED
    BY <1>1, Invariance, PTL

\* Once an environment reload is answered no sync function that came before it
\* runs or waits for a thread.
THEOREM ReloadBarrier == Spec => []ReloadIsBarrier
<1>1. FullInv => ReloadIsBarrier
    BY DEF FullInv, IInv
<1> QED
    BY <1>1, Invariance, PTL

\* Requests begin in the order in which the host sent them: when one was begun,
\* no earlier one is left to begin, and of the earlier ones only invocations
\* are not done.
THEOREM BeginsInRequestOrder == Spec => []BeginsInOrder
<1>1. ASSUME FullInv PROVE BeginsInOrder
    <2> SUFFICES ASSUME NEW p \in Requests, NEW r \in Requests, p < r,
                        state[r] \notin {"absent", "created"}
                 PROVE  /\ state[p] \notin {"absent", "created"}
                        /\ request[p].kind # "invocation_request" =>
                                state[p] \in {"answered", "ignored", "died"}
        BY DEF BeginsInOrder
    <2>1. state[p] \notin {"created", "reloading"}
        BY <1>1 DEF FullInv, IInv, OrderInv, Unbegun
    <2>2. state[p] # "absent"
        BY <1>1, ParametersAreBounded DEF FullInv, IInv, StateInv, TypeOK, Requests
    <2>3. request[p].kind # "invocation_request" =>
            state[p] \notin {"pooled", "executing", "suspended", "resumed", "returned"}
        BY <1>1 DEF FullInv, IInv, StateInv
    <2> QED
        BY <1>1, <2>1, <2>2, <2>3 DEF FullInv, IInv, TypeOK, States
<1> QED
    BY <1>1, Invariance, PTL

\* The records a user's function logs carry the id of its own invocation,
\* whatever thread or task it runs in.
THEOREM UserLogsAttributedAlways == Spec => []UserLogsAttributed
<1>1. ASSUME FullInv, MsgInv PROVE UserLogsAttributed
    <2>1. DOMAIN Said = 1..Len(Said)
        BY <1>1, SaidIsSeq DEF FullInv, IInv
    <2> QED
        BY <1>1, <2>1 DEF MsgInv, Orderly, Attributed, UserLogsAttributed
<1> QED
    BY <1>1, MessageInvariance, PTL

\* They come before the response of the invocation.
THEOREM UserLogsPrecedeResponseAlways == Spec => []UserLogsPrecedeResponse
<1>1. ASSUME FullInv, MsgInv PROVE UserLogsPrecedeResponse
    <2>1. DOMAIN Said = 1..Len(Said)
        BY <1>1, SaidIsSeq DEF FullInv, IInv
    <2> QED
        BY <1>1, <2>1 DEF MsgInv, Orderly, LogsFirst, UserLogsPrecedeResponse
<1> QED
    BY <1>1, MessageInvariance, PTL

\* When stop has seen the stream's end, every request that was answered had
\* its response sent.
THEOREM StopFlushesAlways == Spec => []StopFlushes
<1>1. ASSUME FullInv, MsgInv PROVE StopFlushes
    <2> SUFFICES ASSUME phase \in {"waiting_for_pool", "stopped"}, grpc = "ended",
                        NEW r \in Requests, state[r] = "answered"
                 PROVE  \E k \in DOMAIN sent : IsResponseOf(sent[k], r)
        BY DEF StopFlushes
    <2>1. /\ Said \in Seq(Messages) /\ sent \in Seq(Messages) /\ resp_queue \in Seq(Messages)
          /\ DOMAIN sent = 1..Len(sent)
        BY <1>1, SaidIsSeq DEF FullInv, IInv
    <2>2. PICK k \in 1..Len(Said) : IsResponseOf(Said[k], r)
        BY <1>1 DEF MsgInv, AnswersInv, HasResponse
    <2>3. OnlyUserLogs(resp_queue)
        BY <1>1 DEF MsgInv, MarkerInv, Late
    <2>4. k \in 1..Len(sent)
        <3> SUFFICES ASSUME k \notin 1..Len(sent) PROVE FALSE
            OBVIOUS
        <3>1. k - Len(sent) \in 1..Len(resp_queue) /\ Len(sent) + (k - Len(sent)) = k
            BY <2>1, ConcatFacts DEF Said
        <3>2. Said[k] = resp_queue[k - Len(sent)]
            BY <2>1, <3>1, ConcatFacts DEF Said
        <3> QED
            BY <2>2, <2>3, <3>1, <3>2 DEF OnlyUserLogs, IsUserLog, IsResponseOf
    <2> QED
        BY <2>1, <2>2, <2>4, ConcatFacts DEF Said
<1> QED
    BY <1>1, MessageInvariance, PTL

\* The dispatcher is a server that answers each request at most once, and
\* none that it was not asked.
THEOREM ImplementsServer == Spec => ServerSpec
<1>1. FullInv /\ MsgInv /\ (FullInv /\ MsgInv)' /\ [Next]_vars => [Server!Next]_(Server!vars)
    BY ServerNextMaps
<1> QED
    BY <1>1, ServerInitMaps, MessageInvariance, PTL DEF Spec, ServerSpec, Server!Spec

=============================================================================
