--------------------------- MODULE HttpCoordinator ---------------------------
(***************************************************************************)
(* The meeting of an HTTP call with the invocation it belongs to.          *)
(*                                                                         *)
(* With HTTP streaming ("HTTP v2") the host delivers an HTTP-triggered     *)
(* invocation twice: as an InvocationRequest on the gRPC stream and as an  *)
(* HTTP call whose header names the invocation.  The two run as separate   *)
(* tasks of one asyncio event loop: the invocation task of                 *)
(* dispatcher.py (_handle__invocation_request) and the catch_all task of   *)
(* http_v2.py.  They meet in the HttpCoordinator, a dictionary of context  *)
(* references, each with a request, a response and an event for each.      *)
(*                                                                         *)
(* A step of the model is what a task does between two suspensions.  The   *)
(* loop runs the tasks of its FIFO ready queue, one step each.             *)
(***************************************************************************)
EXTENDS Naturals, Sequences, FiniteSets

CONSTANTS
    Invocations,    \* invocation ids the host sends, each of them once
    HttpCalls,      \* HTTP calls that may reach the web server
    Nil,            \* Python's None
    NoHeader,       \* a call without the x-ms-invocation-id header
    Faults          \* the failures of FaultKinds that may happen

FaultKinds == {"unknown_function", "decode_error", "cancelled"}

VARIABLES
    ready,          \* the event loop's FIFO of tasks that can run
    refs,           \* _context_references: id -> context reference
    waiters,        \* id -> calls waiting on its response event, in order
    task,           \* id -> where its invocation task stands
    outcome,        \* id -> how the user's function ended, Nil before
    argument,       \* id -> the HTTP call its function was given
    answer,         \* id -> status of its InvocationResponse, Nil before
    call,           \* HTTP call -> where its catch_all task stands
    header          \* HTTP call -> invocation id it carries, or NoHeader

vars == <<ready, refs, waiters, task, outcome, argument, answer, call, header>>

Responses == {"value", "error"}     \* a result; an exception to re-raise

\* How a user's function ends, with what the handler makes of its result:
\* "returns", "returns_none", "raises" (or returns without a $return binding),
\* "returns_unencodable" (an output binding fails to encode after the HTTP
\* response was set), "cancelled" (an exception that is not an Exception).
Outcomes == {"returns", "returns_none", "raises", "returns_unencodable"}
                \cup (Faults \cap {"cancelled"})

Replies == Responses \cup {"ValueError", "MissingHeaderError"}

ASSUME FaultsAreKinds == Faults \subseteq FaultKinds

ASSUME DistinctNames ==
    /\ Invocations \cap HttpCalls = {}
    /\ NoHeader \notin Invocations
    /\ Nil \notin HttpCalls \cup Outcomes \cup Replies \cup {"Success", "Failure"}

ContextReference ==
    [request : HttpCalls \cup {Nil}, request_event : BOOLEAN,
     response : Responses \cup {Nil}, response_event : BOOLEAN]

NewReference ==
    [request |-> Nil, request_event |-> FALSE,
     response |-> Nil, response_event |-> FALSE]

TaskStates == {"absent", "created", "await_request", "woken", "running",
               "returned", "done", "died"}

CallStates == {"absent", "created", "await_response", "woken"} \cup Replies

TypeOK ==
    /\ ready \in Seq(Invocations \cup HttpCalls)
    /\ refs \in UNION {[S -> ContextReference] : S \in SUBSET Invocations}
    /\ waiters \in [Invocations -> Seq(HttpCalls)]
    /\ task \in [Invocations -> TaskStates]
    /\ outcome \in [Invocations -> Outcomes \cup {Nil}]
    /\ argument \in [Invocations -> HttpCalls \cup {Nil}]
    /\ answer \in [Invocations -> {Nil, "Success", "Failure"}]
    /\ call \in [HttpCalls -> CallStates]
    /\ header \in [HttpCalls -> Invocations \cup {NoHeader}]

Init ==
    /\ ready = <<>>
    /\ refs = [i \in {} |-> NewReference]
    /\ waiters = [i \in Invocations |-> <<>>]
    /\ task = [i \in Invocations |-> "absent"]
    /\ outcome = [i \in Invocations |-> Nil]
    /\ argument = [i \in Invocations |-> Nil]
    /\ answer = [i \in Invocations |-> Nil]
    /\ call = [h \in HttpCalls |-> "absent"]
    /\ header = [h \in HttpCalls |-> NoHeader]

-----------------------------------------------------------------------------
(* The coordinator's dictionary: c is its content before the operation.    *)

\* the reference of i, a new one if there is none
ReferenceOf(c, i) == IF i \in DOMAIN c THEN c[i] ELSE NewReference

StoreReference(c, i, r) == [j \in DOMAIN c \cup {i} |-> IF j = i THEN r ELSE c[j]]

\* Mutant: a reference that exists gets the event but not the request.
set_request_of_new_only(c, i, h) ==
    StoreReference(c, i, [ReferenceOf(c, i) EXCEPT
        !.request = IF i \in DOMAIN c THEN @ ELSE h, !.request_event = TRUE])

set_http_request(c, i, h) ==
    StoreReference(c, i, [ReferenceOf(c, i) EXCEPT !.request = h, !.request_event = TRUE])

\* Mutant: the first response stays.
set_response_once(c, i, r) ==
    IF ReferenceOf(c, i).response_event THEN c
    ELSE StoreReference(c, i, [ReferenceOf(c, i) EXCEPT !.response = r, !.response_event = TRUE])

\* raises KeyError instead when i is not in the dictionary: see FailInvocation
set_http_response(c, i, r) ==
    StoreReference(c, i, [ReferenceOf(c, i) EXCEPT !.response = r, !.response_event = TRUE])

pop_http_request(c, i) == StoreReference(c, i, [ReferenceOf(c, i) EXCEPT !.request = Nil])

\* Mutant: the response is read and stays.
peek_http_response(c, i) == StoreReference(c, i, ReferenceOf(c, i))

pop_http_response(c, i) == StoreReference(c, i, [ReferenceOf(c, i) EXCEPT !.response = Nil])

RequestOf(i) == ReferenceOf(refs, i).request
RequestIsSet(i) == ReferenceOf(refs, i).request_event
ResponseIsSet(i) == ReferenceOf(refs, i).response_event

-----------------------------------------------------------------------------
(* Arrivals: a task is made for each and put at the end of the queue.      *)

ReceiveInvocation(i) ==
    /\ task[i] = "absent"
    /\ task' = [task EXCEPT ![i] = "created"]
    /\ ready' = Append(ready, i)
    /\ UNCHANGED <<refs, waiters, outcome, argument, answer, call, header>>

ReceiveHttpCall(h, id) ==
    /\ call[h] = "absent"
    /\ call' = [call EXCEPT ![h] = "created"]
    /\ header' = [header EXCEPT ![h] = id]
    /\ ready' = Append(ready, h)
    /\ UNCHANGED <<refs, waiters, task, outcome, argument, answer>>

Runs(t) == ready # <<>> /\ Head(ready) = t

-----------------------------------------------------------------------------
(* catch_all: the task of an HTTP call.                                    *)

CatchAllRejects(h) ==
    /\ Runs(h) /\ call[h] = "created" /\ header[h] = NoHeader
    /\ call' = [call EXCEPT ![h] = "MissingHeaderError"]
    /\ ready' = Tail(ready)
    /\ UNCHANGED <<refs, waiters, task, outcome, argument, answer, header>>

\* The request event wakes the invocation task if it waits for it.
WakeInvocation(i) ==
    IF task[i] = "await_request"
    THEN /\ task' = [task EXCEPT ![i] = "woken"]
         /\ ready' = Append(Tail(ready), i)
    ELSE /\ ready' = Tail(ready)
         /\ UNCHANGED task

\* set_http_request, then the wait for the response begins.
CatchAllWaits(h) ==
    /\ Runs(h) /\ call[h] = "created" /\ header[h] # NoHeader
    /\ LET i == header[h] IN
       /\ ~ResponseIsSet(i)
       /\ refs' = set_http_request(refs, i, h)
       /\ WakeInvocation(i)
       /\ waiters' = [waiters EXCEPT ![i] = Append(@, h)]
    /\ call' = [call EXCEPT ![h] = "await_response"]
    /\ UNCHANGED <<outcome, argument, answer, header>>

\* Mutant: None is handed on as a response.
ReplyWithAnything(h, response) == call' = [call EXCEPT ![h] = response]

ReplyWith(h, response) ==
    call' = [call EXCEPT ![h] = IF response = Nil THEN "ValueError" ELSE response]

\* The response event is already set: the wait returns at once and the
\* response is taken in the same step.
CatchAllLate(h) ==
    /\ Runs(h) /\ call[h] = "created" /\ header[h] # NoHeader
    /\ LET i == header[h] IN
       /\ ResponseIsSet(i)
       /\ refs' = pop_http_response(set_http_request(refs, i, h), i)
       /\ WakeInvocation(i)
       /\ ReplyWith(h, refs[i].response)
    /\ UNCHANGED <<waiters, outcome, argument, answer, header>>

\* Woken by the response event: _pop_http_response.
CatchAllResumes(h) ==
    /\ Runs(h) /\ call[h] = "woken"
    /\ ReplyWith(h, refs[header[h]].response)
    /\ refs' = pop_http_response(refs, header[h])
    /\ ready' = Tail(ready)
    /\ UNCHANGED <<waiters, task, outcome, argument, answer, header>>

-----------------------------------------------------------------------------
(* The invocation task.                                                    *)

Answer(i, status) ==
    /\ answer' = [answer EXCEPT ![i] = status]
    /\ task' = [task EXCEPT ![i] = "done"]

\* The task ends with an exception: nothing is sent for its invocation.
Die(c, i) ==
    /\ task' = [task EXCEPT ![i] = "died"]
    /\ ready' = Tail(ready)
    /\ refs' = c
    /\ UNCHANGED <<waiters, answer, call>>

\* Mutant: only the first of the waiting calls is woken.
PublishToFirst(c, i, r) ==
    /\ refs' = set_http_response(c, i, r)
    /\ ready' = Tail(ready) \o SubSeq(waiters[i], 1, 1)
    /\ waiters' = [waiters EXCEPT ![i] = SubSeq(@, 2, Len(@))]
    /\ call' = [h \in HttpCalls |->
                    IF waiters[i] # <<>> /\ h = Head(waiters[i]) THEN "woken" ELSE call[h]]

\* The response event wakes every waiting call, in the order they came.
PublishResponse(c, i, r) ==
    /\ refs' = set_http_response(c, i, r)
    /\ ready' = Tail(ready) \o waiters[i]
    /\ waiters' = [waiters EXCEPT ![i] = <<>>]
    /\ call' = [h \in HttpCalls |->
                    IF call[h] = "await_response" /\ header[h] = i THEN "woken" ELSE call[h]]

\* The handler's exception branch hands the exception to the HTTP side first,
\* which raises KeyError when the dictionary does not know the invocation.
FailInvocation(c, i) ==
    IF i \in DOMAIN c
    THEN PublishResponse(c, i, "error") /\ Answer(i, "Failure")
    ELSE Die(c, i)

\* Mutant: a result whose outputs fail to encode stays the HTTP response.
FinishKeepsResult(c, i, o) ==
    CASE o = "returns"             -> PublishResponse(c, i, "value") /\ Answer(i, "Success")
      [] o = "returns_none"        -> PublishResponse(c, i, Nil) /\ Answer(i, "Success")
      [] o = "raises"              -> FailInvocation(c, i)
      [] o = "returns_unencodable" -> PublishResponse(c, i, "value") /\ Answer(i, "Failure")
      [] o = "cancelled"           -> Die(c, i)

\* What the handler does with the end of the user's function.  When an output
\* fails to encode, the response was set already and is set again, to the
\* exception, in the same step: no call can run in between.
FinishInvocation(c, i, o) ==
    CASE o = "returns"             -> PublishResponse(c, i, "value") /\ Answer(i, "Success")
      [] o = "returns_none"        -> PublishResponse(c, i, Nil) /\ Answer(i, "Success")
      [] o = "raises"              -> FailInvocation(c, i)
      [] o = "returns_unencodable" -> FailInvocation(set_http_response(c, i, "value"), i)
      [] o = "cancelled"           -> Die(c, i)

\* get_function finds nothing: http_v2_enabled is still False, so the HTTP
\* side is not told.
InvocationUnknown(i) ==
    /\ "unknown_function" \in Faults
    /\ Runs(i) /\ task[i] = "created"
    /\ Answer(i, "Failure")
    /\ ready' = Tail(ready)
    /\ UNCHANGED <<refs, waiters, outcome, argument, call, header>>

\* An input binding fails to decode, before the request is waited for.
InvocationDecodeError(i) ==
    /\ "decode_error" \in Faults
    /\ Runs(i) /\ task[i] = "created"
    /\ FailInvocation(refs, i)
    /\ UNCHANGED <<outcome, argument, header>>

InvocationAwaitsRequest(i) ==
    /\ Runs(i) /\ task[i] = "created"
    /\ ~RequestIsSet(i)
    /\ refs' = StoreReference(refs, i, ReferenceOf(refs, i))
    /\ task' = [task EXCEPT ![i] = "await_request"]
    /\ ready' = Tail(ready)
    /\ UNCHANGED <<waiters, outcome, argument, answer, call, header>>

\* The request event is set, now or when the task came to it.
HasRequest(i) ==
    /\ Runs(i)
    /\ task[i] = "woken" \/ (task[i] = "created" /\ RequestIsSet(i))

\* The request is taken and the function starts: in the thread pool, or as a
\* coroutine that suspends.
InvocationSuspends(i) ==
    /\ HasRequest(i)
    /\ RequestOf(i) # Nil
    /\ argument' = [argument EXCEPT ![i] = RequestOf(i)]
    /\ refs' = pop_http_request(refs, i)
    /\ task' = [task EXCEPT ![i] = "running"]
    /\ ready' = Tail(ready)
    /\ UNCHANGED <<waiters, outcome, answer, call, header>>

\* A coroutine that never suspends: the function ends within the step.
InvocationRunsThrough(i, o) ==
    /\ HasRequest(i)
    /\ RequestOf(i) # Nil
    /\ argument' = [argument EXCEPT ![i] = RequestOf(i)]
    /\ outcome' = [outcome EXCEPT ![i] = o]
    /\ FinishInvocation(pop_http_request(refs, i), i, o)
    /\ UNCHANGED header

\* The thread or the coroutine ends; the task is made ready again.
FunctionEnds(i, o) ==
    /\ task[i] = "running"
    /\ outcome' = [outcome EXCEPT ![i] = o]
    /\ task' = [task EXCEPT ![i] = "returned"]
    /\ ready' = Append(ready, i)
    /\ UNCHANGED <<refs, waiters, argument, answer, call, header>>

InvocationResumes(i) ==
    /\ Runs(i) /\ task[i] = "returned"
    /\ FinishInvocation(refs, i, outcome[i])
    /\ UNCHANGED <<outcome, argument, header>>

-----------------------------------------------------------------------------
InvocationStep(i) ==
    \/ InvocationUnknown(i)
    \/ InvocationDecodeError(i)
    \/ InvocationAwaitsRequest(i)
    \/ InvocationSuspends(i)
    \/ \E o \in Outcomes : InvocationRunsThrough(i, o)
    \/ InvocationResumes(i)

CallStep(h) ==
    \/ CatchAllRejects(h)
    \/ CatchAllWaits(h)
    \/ CatchAllLate(h)
    \/ CatchAllResumes(h)

EventLoop ==
    \/ \E i \in Invocations : InvocationStep(i)
    \/ \E h \in HttpCalls : CallStep(h)

Next ==
    \/ EventLoop
    \/ \E i \in Invocations : ReceiveInvocation(i)
    \/ \E h \in HttpCalls, id \in Invocations \cup {NoHeader} : ReceiveHttpCall(h, id)
    \/ \E i \in Invocations, o \in Outcomes : FunctionEnds(i, o)

\* The loop keeps running its queue and a user's function ends; the host may
\* stop sending at any point.
Fairness ==
    /\ WF_vars(EventLoop)
    /\ \A i \in Invocations : WF_vars(\E o \in Outcomes : FunctionEnds(i, o))

Spec == Init /\ [][Next]_vars /\ Fairness

-----------------------------------------------------------------------------
(* Properties.                                                             *)

CallsOf(i) == {h \in HttpCalls : header[h] = i}
ServedCalls(i) == {h \in CallsOf(i) : call[h] \in Responses}

\* When the request event lets an invocation go on, the request is there:
\* _pop_http_request (http_v2.py) never raises its ValueError, whatever calls
\* with the same id come before the task runs.
RequestThere == \A i \in Invocations : HasRequest(i) => RequestOf(i) # Nil

\* A published result is in exactly one place: still in its context reference,
\* or with the one HTTP call it was returned to.  _pop_http_response never
\* hands it to two calls with the same id, and never drops it.
ResultConserved ==
    \A i \in Invocations :
        ResponseIsSet(i) /\ outcome[i] # "returns_none" =>
            \/ refs[i].response # Nil /\ ServedCalls(i) = {}
            \/ refs[i].response = Nil /\ Cardinality(ServedCalls(i)) = 1

\* The two channels of one invocation tell the same story: a call gets the
\* function's result only with a Success InvocationResponse, an exception only
\* with a Failure one, although the handler sets the result before it knows
\* whether its outputs encode.
ChannelsAgree ==
    \A h \in HttpCalls :
        /\ call[h] = "value" => answer[header[h]] = "Success"
        /\ call[h] = "error" => answer[header[h]] = "Failure"

\* The handler gave up before it could tell the HTTP side: its function is
\* unknown, or its exception branch raised or did not catch.
GaveUp(i) == task[i] = "died" \/ (answer[i] = "Failure" /\ ~ResponseIsSet(i))

\* An invocation that arrives on both channels is answered on both, in
\* whatever order they come and with duplicate calls, unless its handler gave
\* up: no other failure leaves one of the channels waiting.
BothChannelsAnswered ==
    \A h \in HttpCalls, i \in Invocations :
        (header[h] = i /\ task[i] # "absent") ~>
            (GaveUp(i) \/ (call[h] \in Replies /\ answer[i] # Nil))

\* FunctionRpc.proto says of InvocationResponse "Worker responds to a given
\* invocation": every invocation whose HTTP call arrives gets one.
InvocationAnswered ==
    \A h \in HttpCalls, i \in Invocations :
        (header[h] = i /\ task[i] # "absent") ~> (answer[i] # Nil)

\* The coordinator implements the exchange of HttpExchange.
Exchange == INSTANCE HttpExchange WITH
    published <- {i \in Invocations : ResponseIsSet(i)},
    mailbox <- [i \in Invocations |-> ReferenceOf(refs, i).response],
    reply <- [h \in HttpCalls |-> IF call[h] \in Replies THEN call[h] ELSE Nil]

ExchangeSpec == Exchange!Spec

=============================================================================
