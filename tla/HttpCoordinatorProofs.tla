------------------------ MODULE HttpCoordinatorProofs ------------------------
EXTENDS HttpCoordinator, FiniteSetTheorems, TLAPS

Dictionary == UNION {[S -> ContextReference] : S \in SUBSET Invocations}

LEMMA ReferenceOfType ==
    ASSUME NEW c \in Dictionary, NEW i \in Invocations
    PROVE  ReferenceOf(c, i) \in ContextReference
BY DEF Dictionary, ReferenceOf, NewReference, ContextReference

LEMMA StoreReferenceType ==
    ASSUME NEW c \in Dictionary, NEW i \in Invocations, NEW r \in ContextReference
    PROVE  /\ StoreReference(c, i, r) \in Dictionary
           /\ DOMAIN StoreReference(c, i, r) = DOMAIN c \cup {i}
           /\ ReferenceOf(StoreReference(c, i, r), i) = r
           /\ \A j \in Invocations \ {i} :
                ReferenceOf(StoreReference(c, i, r), j) = ReferenceOf(c, j)
<1>1. PICK S \in SUBSET Invocations : c \in [S -> ContextReference]
    BY DEF Dictionary
<1>2. StoreReference(c, i, r) \in [S \cup {i} -> ContextReference]
    BY <1>1 DEF StoreReference
<1>3. S \cup {i} \in SUBSET Invocations
    OBVIOUS
<1>4. StoreReference(c, i, r) \in Dictionary
    BY <1>2, <1>3 DEF Dictionary
<1> QED
    BY <1>1, <1>4 DEF StoreReference, ReferenceOf

\* What the proofs need to know of a dictionary: the response and the response
\* event of each id.
Response(c, i) == ReferenceOf(c, i).response
Event(c, i) == ReferenceOf(c, i).response_event

SameExcept(c, d, I) ==
    \A j \in Invocations \ I : Response(d, j) = Response(c, j) /\ Event(d, j) = Event(c, j)

LEMMA StoredView ==
    ASSUME NEW c \in Dictionary, NEW i \in Invocations, NEW r \in ContextReference
    PROVE  LET d == StoreReference(c, i, r) IN
           /\ d \in Dictionary
           /\ i \in DOMAIN d
           /\ Response(d, i) = r.response
           /\ Event(d, i) = r.response_event
           /\ SameExcept(c, d, {i})
<1> DEFINE d == StoreReference(c, i, r)
<1>1. /\ d \in Dictionary
      /\ DOMAIN d = DOMAIN c \cup {i}
      /\ ReferenceOf(d, i) = r
      /\ \A j \in Invocations \ {i} : ReferenceOf(d, j) = ReferenceOf(c, j)
    BY ZenonT(30), StoreReferenceType
<1> HIDE DEF d
<1>2. /\ d \in Dictionary
      /\ i \in DOMAIN d
      /\ Response(d, i) = r.response
      /\ Event(d, i) = r.response_event
      /\ SameExcept(c, d, {i})
    BY <1>1 DEF Response, Event, SameExcept
<1> QED
    BY <1>2 DEF d

LEMMA SetRequestView ==
    ASSUME NEW c \in Dictionary, NEW i \in Invocations, NEW h \in HttpCalls
    PROVE  /\ set_http_request(c, i, h) \in Dictionary
           /\ SameExcept(c, set_http_request(c, i, h), {})
<1> DEFINE r == [ReferenceOf(c, i) EXCEPT !.request = h, !.request_event = TRUE]
<1>1. /\ r \in ContextReference
      /\ r.response = Response(c, i)
      /\ r.response_event = Event(c, i)
    BY ReferenceOfType DEF ContextReference, Response, Event
<1>2. set_http_request(c, i, h) = StoreReference(c, i, r)
    BY DEF set_http_request
<1> HIDE DEF r
<1> QED
    BY <1>1, <1>2, StoredView DEF SameExcept

LEMMA CreateReferenceView ==
    ASSUME NEW c \in Dictionary, NEW i \in Invocations
    PROVE  /\ StoreReference(c, i, ReferenceOf(c, i)) \in Dictionary
           /\ SameExcept(c, StoreReference(c, i, ReferenceOf(c, i)), {})
BY SMTT(30), StoredView, ReferenceOfType DEF SameExcept, Response, Event

LEMMA PopRequestView ==
    ASSUME NEW c \in Dictionary, NEW i \in Invocations
    PROVE  /\ pop_http_request(c, i) \in Dictionary
           /\ i \in DOMAIN pop_http_request(c, i)
           /\ SameExcept(c, pop_http_request(c, i), {})
<1> DEFINE r == [ReferenceOf(c, i) EXCEPT !.request = Nil]
<1>1. /\ r \in ContextReference
      /\ r.response = Response(c, i)
      /\ r.response_event = Event(c, i)
    BY ReferenceOfType DEF ContextReference, Response, Event
<1>2. pop_http_request(c, i) = StoreReference(c, i, r)
    BY DEF pop_http_request
<1> HIDE DEF r
<1> QED
    BY <1>1, <1>2, StoredView DEF SameExcept

LEMMA SetResponseView ==
    ASSUME NEW c \in Dictionary, NEW i \in Invocations, NEW v \in Responses \cup {Nil}
    PROVE  LET d == set_http_response(c, i, v) IN
           /\ d \in Dictionary
           /\ i \in DOMAIN d
           /\ Response(d, i) = v
           /\ Event(d, i) = TRUE
           /\ SameExcept(c, d, {i})
<1> DEFINE r == [ReferenceOf(c, i) EXCEPT !.response = v, !.response_event = TRUE]
<1>1. r \in ContextReference /\ r.response = v /\ r.response_event = TRUE
    BY ReferenceOfType DEF ContextReference
<1>2. set_http_response(c, i, v) = StoreReference(c, i, r)
    BY DEF set_http_response
<1> HIDE DEF r
<1> QED
    BY <1>1, <1>2, StoredView

LEMMA PopResponseView ==
    ASSUME NEW c \in Dictionary, NEW i \in Invocations
    PROVE  LET d == pop_http_response(c, i) IN
           /\ d \in Dictionary
           /\ Response(d, i) = Nil
           /\ Event(d, i) = Event(c, i)
           /\ SameExcept(c, d, {i})
<1> DEFINE r == [ReferenceOf(c, i) EXCEPT !.response = Nil]
<1>1. r \in ContextReference /\ r.response = Nil /\ r.response_event = Event(c, i)
    BY ReferenceOfType DEF ContextReference, Event
<1>2. pop_http_response(c, i) = StoreReference(c, i, r)
    BY DEF pop_http_response
<1> HIDE DEF r
<1> QED
    BY <1>1, <1>2, StoredView

-----------------------------------------------------------------------------
(* What the end of an invocation task does, whichever way it comes.        *)

\* The task queued an InvocationResponse with status s and published r.
Published(i, r, s) ==
    /\ \/ s = "Success" /\ r \in {"value", Nil}
       \/ s = "Failure" /\ r = "error"
    /\ refs' \in Dictionary
    /\ Response(refs', i) = r
    /\ Event(refs', i) = TRUE
    /\ SameExcept(refs, refs', {i})
    /\ task' = [task EXCEPT ![i] = "done"]
    /\ answer' = [answer EXCEPT ![i] = s]
    /\ call' = [h \in HttpCalls |->
                    IF call[h] = "await_response" /\ header[h] = i THEN "woken" ELSE call[h]]
    /\ ready' \in Seq(Invocations \cup HttpCalls)
    /\ waiters' \in [Invocations -> Seq(HttpCalls)]

\* The task ended with an exception and left both channels as they were.
Died(i) ==
    /\ refs' \in Dictionary
    /\ SameExcept(refs, refs', {})
    /\ task' = [task EXCEPT ![i] = "died"]
    /\ answer' = answer /\ call' = call /\ waiters' = waiters
    /\ ready' \in Seq(Invocations \cup HttpCalls)

LEMMA TailType ==
    ASSUME NEW S, NEW q \in Seq(S), q # <<>>
    PROVE  Tail(q) \in Seq(S)
OBVIOUS

LEMMA PublishEffect ==
    ASSUME TypeOK, NEW i \in Invocations, Runs(i),
           NEW c \in Dictionary, SameExcept(refs, c, {i}),
           NEW r \in Responses \cup {Nil}, NEW s \in {"Success", "Failure"},
           \/ s = "Success" /\ r \in {"value", Nil}
           \/ s = "Failure" /\ r = "error",
           PublishResponse(c, i, r), Answer(i, s)
    PROVE  Published(i, r, s)
<1>1. /\ refs' \in Dictionary
      /\ Response(refs', i) = r
      /\ Event(refs', i) = TRUE
      /\ SameExcept(c, refs', {i})
    BY SetResponseView DEF PublishResponse
<1>2. SameExcept(refs, refs', {i})
    BY <1>1 DEF SameExcept
<1>3. /\ Tail(ready) \in Seq(Invocations \cup HttpCalls)
      /\ waiters[i] \in Seq(Invocations \cup HttpCalls)
    BY TailType DEF TypeOK, Runs
<1>4. ready' \in Seq(Invocations \cup HttpCalls)
    BY <1>3 DEF PublishResponse
<1>5. waiters' \in [Invocations -> Seq(HttpCalls)]
    BY DEF PublishResponse, TypeOK
<1> QED
    BY <1>1, <1>2, <1>4, <1>5 DEF Published, PublishResponse, Answer

LEMMA DieEffect ==
    ASSUME TypeOK, NEW i \in Invocations, Runs(i),
           NEW c \in Dictionary, SameExcept(refs, c, {}), Die(c, i)
    PROVE  Died(i)
<1>1. Tail(ready) \in Seq(Invocations \cup HttpCalls)
    BY TailType DEF TypeOK, Runs
<1> QED
    BY <1>1 DEF Died, Die

LEMMA FailEffect ==
    ASSUME TypeOK, NEW i \in Invocations, Runs(i),
           NEW c \in Dictionary, SameExcept(refs, c, {i}),
           i \in DOMAIN c \/ SameExcept(refs, c, {}),
           FailInvocation(c, i)
    PROVE  Published(i, "error", "Failure") \/ Died(i)
<1>1. CASE i \in DOMAIN c
    <2>1. PublishResponse(c, i, "error") /\ Answer(i, "Failure")
        BY <1>1 DEF FailInvocation
    <2> QED
        BY <2>1, PublishEffect DEF Responses
<1>2. CASE i \notin DOMAIN c
    BY <1>2, DieEffect DEF FailInvocation
<1> QED
    BY <1>1, <1>2

LEMMA FinishEffect ==
    ASSUME TypeOK, NEW i \in Invocations, Runs(i),
           NEW c \in Dictionary, SameExcept(refs, c, {}),
           NEW o \in Outcomes, FinishInvocation(c, i, o)
    PROVE  \/ Died(i)
           \/ \E r \in Responses \cup {Nil}, s \in {"Success", "Failure"} :
                Published(i, r, s) /\ (r = Nil => o = "returns_none")
<1>0. SameExcept(refs, c, {i}) /\ "error" # Nil /\ "value" # Nil
    BY DistinctNames DEF SameExcept, Replies, Responses
<1>1. CASE o = "returns"
    BY <1>0, <1>1, PublishEffect DEF FinishInvocation, Responses
<1>2. CASE o = "returns_none"
    BY <1>0, <1>2, PublishEffect DEF FinishInvocation, Responses
<1>3. CASE o = "raises"
    <2>1. FailInvocation(c, i)
        BY <1>3 DEF FinishInvocation
    <2> QED
        BY <1>0, <2>1, FailEffect DEF Responses
<1>4. CASE o = "returns_unencodable"
    <2> DEFINE d == set_http_response(c, i, "value")
    <2>1. FailInvocation(d, i)
        BY <1>4 DEF FinishInvocation
    <2>2. d \in Dictionary /\ i \in DOMAIN d /\ SameExcept(c, d, {i})
        BY SetResponseView DEF Responses
    <2>3. SameExcept(refs, d, {i})
        BY <2>2 DEF SameExcept
    <2> HIDE DEF d
    <2> QED
        BY <1>0, <2>1, <2>2, <2>3, FailEffect DEF Responses
<1>5. CASE o = "cancelled"
    BY <1>5, DieEffect DEF FinishInvocation
<1> QED
    BY <1>1, <1>2, <1>3, <1>4, <1>5 DEF Outcomes

-----------------------------------------------------------------------------
(* The inductive invariant.                                                *)

\* A published invocation is over, and nothing is published before.
PublishedIsDone ==
    \A i \in Invocations :
        /\ answer[i] # Nil => task[i] = "done"
        /\ Event(refs, i) => answer[i] # Nil
        /\ ~Event(refs, i) => Response(refs, i) = Nil
        /\ task[i] = "returned" => outcome[i] \in Outcomes

\* A response still in its reference agrees with the InvocationResponse and
\* was given to no call.
StoredResponse ==
    \A i \in Invocations :
        /\ Response(refs, i) = "value" => answer[i] = "Success"
        /\ Response(refs, i) = "error" => answer[i] = "Failure"
        /\ Response(refs, i) # Nil => ServedCalls(i) = {}

\* Calls past their first step name an invocation; a woken one and a served
\* one a published invocation; at most one is served.
CallHeaders ==
    /\ \A h \in HttpCalls :
        /\ call[h] = "absent" => header[h] = NoHeader
        /\ call[h] = "await_response" => header[h] \in Invocations
        /\ call[h] \in {"woken"} \cup Responses =>
                header[h] \in Invocations /\ Event(refs, header[h])
    /\ \A i \in Invocations : \A g, h \in ServedCalls(i) : g = h

\* A result that is no longer in its reference was given to a call.
ResultTaken ==
    \A i \in Invocations :
        Event(refs, i) /\ outcome[i] # "returns_none" /\ Response(refs, i) = Nil =>
            ServedCalls(i) # {}

IInv ==
    /\ TypeOK
    /\ PublishedIsDone
    /\ StoredResponse
    /\ CallHeaders
    /\ ChannelsAgree
    /\ ResultTaken

LEMMA InitIInv == Init => IInv
<1> SUFFICES ASSUME Init PROVE IInv
    OBVIOUS
<1>1. refs \in Dictionary /\ \A i \in Invocations : i \notin DOMAIN refs
    <2>1. refs \in [{} -> ContextReference]
        BY DEF Init
    <2> QED
        BY <2>1 DEF Dictionary
<1>2. \A i \in Invocations : Response(refs, i) = Nil /\ Event(refs, i) = FALSE
    BY <1>1 DEF Response, Event, ReferenceOf, NewReference
<1>3. TypeOK
    BY <1>1 DEF Init, TypeOK, Dictionary, TaskStates, CallStates
<1>4. \A h \in HttpCalls : call[h] \notin Responses \cup {"woken", "await_response"}
    BY DEF Init, Responses
<1>5. PublishedIsDone
    BY <1>2 DEF Init, PublishedIsDone
<1>6. StoredResponse
    BY <1>2, DistinctNames DEF StoredResponse, Replies, Responses
<1>7. CallHeaders
    <2>1. \A i \in Invocations : ServedCalls(i) = {}
        BY <1>4 DEF ServedCalls, CallsOf
    <2>2. \A h \in HttpCalls :
            /\ call[h] = "absent" => header[h] = NoHeader
            /\ call[h] \notin Responses \cup {"woken", "await_response"}
        BY <1>4 DEF Init
    <2> QED
        BY <2>1, <2>2 DEF CallHeaders
<1>8. ChannelsAgree
    BY <1>4 DEF ChannelsAgree, Responses
<1>9. ResultTaken
    BY <1>2 DEF ResultTaken
<1> QED
    BY <1>3, <1>5, <1>6, <1>7, <1>8, <1>9 DEF IInv

\* Steps that change no response, no answer and no reply: an arrival, a call or
\* a task that begins to wait, a function that starts or ends.
Quiet ==
    /\ refs' \in Dictionary /\ SameExcept(refs, refs', {})
    /\ answer' = answer
    /\ \A h \in HttpCalls :
        /\ call'[h] \in Responses <=> call[h] \in Responses
        /\ call'[h] \in Responses => call'[h] = call[h]
        /\ header'[h] = header[h] \/ call[h] = "absent"
    /\ \A i \in Invocations :
        /\ answer[i] # Nil => task'[i] = task[i] /\ outcome'[i] = outcome[i]
        /\ task'[i] = "returned" => outcome'[i] \in Outcomes

LEMMA QuietStep ==
    ASSUME IInv, TypeOK', Quiet,
           \A h \in HttpCalls :
               /\ call'[h] = "absent" => header'[h] = NoHeader
               /\ call'[h] = "await_response" => header'[h] \in Invocations
               /\ call'[h] = "woken" => call[h] = "woken"
    PROVE  IInv'
<1>1. \A i \in Invocations : Response(refs', i) = Response(refs, i) /\ Event(refs', i) = Event(refs, i)
    BY DEF Quiet, SameExcept
<1>2. \A h \in HttpCalls : call[h] \in {"woken"} \cup Responses => header'[h] = header[h]
    BY DEF Quiet, Responses
<1>3. \A i \in Invocations : ServedCalls(i)' = ServedCalls(i)
    BY <1>2, DistinctNames DEF ServedCalls, CallsOf, Quiet
<1>4. PublishedIsDone'
    BY <1>1 DEF IInv, Quiet, PublishedIsDone
<1>5. StoredResponse'
    BY <1>1, <1>3 DEF IInv, Quiet, StoredResponse
<1>6. CallHeaders'
    BY <1>1, <1>2, <1>3 DEF IInv, Quiet, CallHeaders
<1>7. ChannelsAgree'
    BY <1>2 DEF IInv, Quiet, ChannelsAgree, Responses
<1>8. ResultTaken'
    BY <1>1, <1>3 DEF IInv, Quiet, PublishedIsDone, ResultTaken
<1> QED
    BY <1>4, <1>5, <1>6, <1>7, <1>8 DEF IInv

\* The end of an invocation task.
LEMMA PublishedStep ==
    ASSUME IInv, TypeOK', NEW i \in Invocations, ~Event(refs, i), task[i] # "done",
           NEW r \in Responses \cup {Nil}, NEW s \in {"Success", "Failure"},
           Published(i, r, s), header' = header,
           r = Nil => outcome'[i] = "returns_none",
           \A j \in Invocations \ {i} : outcome'[j] = outcome[j]
    PROVE  IInv'
<1>1. /\ Response(refs', i) = r /\ Event(refs', i) = TRUE
      /\ \A j \in Invocations \ {i} :
            Response(refs', j) = Response(refs, j) /\ Event(refs', j) = Event(refs, j)
    BY DEF Published, SameExcept
<1>2. /\ task'[i] = "done" /\ answer'[i] = s
      /\ \A j \in Invocations \ {i} : task'[j] = task[j] /\ answer'[j] = answer[j]
    BY DEF Published, IInv, TypeOK
<1>3. \A h \in HttpCalls :
        call'[h] = IF call[h] = "await_response" /\ header[h] = i THEN "woken" ELSE call[h]
    BY DEF Published
<1>4. \A h \in HttpCalls : call'[h] \in Responses <=> call[h] \in Responses
    BY <1>3 DEF Responses
<1>5. \A j \in Invocations : ServedCalls(j)' = ServedCalls(j)
    BY <1>4 DEF ServedCalls, CallsOf
<1>6. ServedCalls(i) = {}
    BY DEF IInv, CallHeaders, ServedCalls, CallsOf
<1>7. s # Nil /\ (r = "value" => s = "Success") /\ (r = "error" => s = "Failure")
    BY DistinctNames DEF Published, Responses, Replies
<1>8. PublishedIsDone'
    BY <1>1, <1>2, <1>7 DEF IInv, PublishedIsDone
<1>9. StoredResponse'
    BY <1>1, <1>2, <1>5, <1>6, <1>7 DEF IInv, StoredResponse
<1>10. CallHeaders'
    BY <1>1, <1>3, <1>4, <1>5 DEF IInv, CallHeaders
<1>11. ChannelsAgree'
    <2>1. \A h \in HttpCalls : call[h] \in Responses => header[h] # i
        BY DEF IInv, CallHeaders
    <2> QED
        BY <1>2, <1>3, <2>1 DEF IInv, CallHeaders, ChannelsAgree, Responses
<1>12. ResultTaken'
    BY <1>1, <1>5 DEF IInv, ResultTaken
<1> QED
    BY <1>8, <1>9, <1>10, <1>11, <1>12 DEF IInv

\* A call takes what its invocation's reference holds.
Took(h, i) ==
    /\ header[h] = i
    /\ Event(refs, i) /\ Event(refs', i)
    /\ Response(refs', i) = Nil
    /\ SameExcept(refs, refs', {i})
    /\ call[h] \notin Replies
    /\ call' = [call EXCEPT ![h] = IF Response(refs, i) = Nil THEN "ValueError"
                                   ELSE Response(refs, i)]
    /\ header' = header /\ answer' = answer /\ outcome' = outcome
    /\ \A j \in Invocations : answer[j] # Nil => task'[j] = task[j]
    /\ \A j \in Invocations : task'[j] = "returned" => task[j] = "returned"

LEMMA TookStep ==
    ASSUME IInv, TypeOK', NEW h \in HttpCalls, NEW i \in Invocations, Took(h, i)
    PROVE  IInv'
<1>1. /\ Response(refs', i) = Nil /\ Event(refs, i) /\ Event(refs', i)
      /\ \A j \in Invocations \ {i} :
            Response(refs', j) = Response(refs, j) /\ Event(refs', j) = Event(refs, j)
    BY DEF Took, SameExcept
<1>2. Response(refs, i) \in Responses \cup {Nil}
    BY ReferenceOfType DEF IInv, TypeOK, Dictionary, Response, ContextReference
<1>3. /\ call'[h] = IF Response(refs, i) = Nil THEN "ValueError" ELSE Response(refs, i)
      /\ call[h] \notin Responses /\ header[h] = i
      /\ \A g \in HttpCalls \ {h} : call'[g] = call[g]
    BY DEF Took, IInv, TypeOK, Replies
<1>4. "ValueError" \notin Responses /\ "value" # Nil /\ "error" # Nil
    BY DistinctNames DEF Responses, Replies
<1>5. \A j \in Invocations \ {i} : ServedCalls(j)' = ServedCalls(j)
    BY <1>3 DEF ServedCalls, CallsOf, Took
<1>6. CASE Response(refs, i) = Nil
    <2>1. ServedCalls(i)' = ServedCalls(i)
        BY <1>3, <1>4, <1>6 DEF ServedCalls, CallsOf, Took
    <2>2. PublishedIsDone'
        BY <1>1 DEF IInv, Took, PublishedIsDone
    <2>3. StoredResponse'
        BY <1>1, <1>4, <1>5, <2>1 DEF IInv, Took, StoredResponse
    <2>4. CallHeaders'
        BY <1>1, <1>3, <1>4, <1>5, <1>6, <2>1 DEF IInv, Took, CallHeaders
    <2>5. ChannelsAgree'
        BY <1>3, <1>4, <1>6 DEF IInv, Took, ChannelsAgree
    <2>6. ResultTaken'
        BY <1>1, <1>5, <1>6, <2>1 DEF IInv, Took, ResultTaken
    <2> QED
        BY <2>2, <2>3, <2>4, <2>5, <2>6 DEF IInv
<1>7. CASE Response(refs, i) # Nil
    <2>1. ServedCalls(i) = {} /\ Response(refs, i) \in Responses
        BY <1>2, <1>7 DEF IInv, StoredResponse
    <2>2. ServedCalls(i)' = {h}
        BY <1>3, <1>7, <2>1 DEF ServedCalls, CallsOf, Took
    <2>3. PublishedIsDone'
        BY <1>1 DEF IInv, Took, PublishedIsDone
    <2>4. StoredResponse'
        BY <1>1, <1>4, <1>5 DEF IInv, Took, StoredResponse
    <2>5. CallHeaders'
        BY <1>1, <1>3, <1>5, <1>7, <2>1, <2>2 DEF IInv, Took, CallHeaders, Responses
    <2>6. ChannelsAgree'
        BY <1>3, <1>7 DEF IInv, Took, ChannelsAgree, StoredResponse
    <2>7. ResultTaken'
        BY <1>1, <1>5, <2>2 DEF IInv, Took, ResultTaken
    <2> QED
        BY <2>3, <2>4, <2>5, <2>6, <2>7 DEF IInv
<1> QED
    BY <1>6, <1>7

-----------------------------------------------------------------------------
(* Each action is one of these steps.                                      *)

LEMMA ArrivalStep ==
    ASSUME IInv
    PROVE  /\ \A i \in Invocations : ReceiveInvocation(i) => IInv'
           /\ \A h \in HttpCalls, id \in Invocations \cup {NoHeader} :
                ReceiveHttpCall(h, id) => IInv'
<1>1. ASSUME NEW i \in Invocations, ReceiveInvocation(i) PROVE IInv'
    <2>1. TypeOK'
        BY <1>1 DEF ReceiveInvocation, IInv, TypeOK, TaskStates
    <2>2. Quiet
        BY <1>1 DEF ReceiveInvocation, Quiet, SameExcept, IInv, TypeOK, Dictionary, PublishedIsDone
    <2> QED
        BY <1>1, <2>1, <2>2, QuietStep DEF ReceiveInvocation, IInv, CallHeaders
<1>2. ASSUME NEW h \in HttpCalls, NEW id \in Invocations \cup {NoHeader}, ReceiveHttpCall(h, id)
      PROVE  IInv'
    <2>1. TypeOK'
        BY <1>2 DEF ReceiveHttpCall, IInv, TypeOK, CallStates
    <2>2. Quiet
        BY <1>2 DEF ReceiveHttpCall, Quiet, SameExcept, IInv, TypeOK, Dictionary, PublishedIsDone,
                    Responses
    <2> QED
        BY <1>2, <2>1, <2>2, QuietStep DEF ReceiveHttpCall, IInv, TypeOK, CallHeaders
<1> QED
    BY <1>1, <1>2

LEMMA FunctionEndsStep ==
    ASSUME IInv, NEW i \in Invocations, NEW o \in Outcomes, FunctionEnds(i, o)
    PROVE  IInv'
<1>1. TypeOK'
    BY DEF FunctionEnds, IInv, TypeOK, TaskStates
<1>2. Quiet
    BY DEF FunctionEnds, Quiet, SameExcept, IInv, TypeOK, Dictionary, PublishedIsDone
<1> QED
    BY <1>1, <1>2, QuietStep DEF FunctionEnds, IInv, CallHeaders

LEMMA WakeInvocationType ==
    ASSUME TypeOK, NEW h \in HttpCalls, Runs(h), NEW i \in Invocations, WakeInvocation(i)
    PROVE  /\ task' \in [Invocations -> TaskStates]
           /\ ready' \in Seq(Invocations \cup HttpCalls)
           /\ \A j \in Invocations : task[j] # "await_request" => task'[j] = task[j]
           /\ \A j \in Invocations : task'[j] = task[j] \/ task'[j] = "woken"
<1>1. Tail(ready) \in Seq(Invocations \cup HttpCalls)
    BY TailType DEF TypeOK, Runs
<1>2. CASE task[i] = "await_request"
    <2>1. ready' = Append(Tail(ready), i) /\ task' = [task EXCEPT ![i] = "woken"]
        BY <1>2 DEF WakeInvocation
    <2>2. ready' \in Seq(Invocations \cup HttpCalls)
        BY <1>1, <2>1
    <2> QED
        BY <1>2, <2>1, <2>2 DEF TypeOK, TaskStates
<1>3. CASE task[i] # "await_request"
    BY <1>1, <1>3 DEF WakeInvocation, TypeOK
<1> QED
    BY <1>2, <1>3

LEMMA LateCallTakes ==
    ASSUME IInv, NEW h \in HttpCalls, CatchAllLate(h)
    PROVE  header[h] \in Invocations /\ TypeOK' /\ Took(h, header[h])
<1>0. refs \in Dictionary
    BY DEF IInv, TypeOK, Dictionary
<1> DEFINE i == header[h]
           c == set_http_request(refs, i, h)
<1>1. i \in Invocations
    BY DEF CatchAllLate, IInv, TypeOK
<1>2. c \in Dictionary /\ SameExcept(refs, c, {})
    BY <1>0, <1>1, SetRequestView
<1>3. /\ refs' \in Dictionary /\ Response(refs', i) = Nil
      /\ Event(refs', i) = Event(c, i) /\ SameExcept(c, refs', {i})
    BY <1>1, <1>2, PopResponseView DEF CatchAllLate
<1>4. Event(refs, i) /\ Event(refs', i) /\ SameExcept(refs, refs', {i})
    BY <1>1, <1>2, <1>3 DEF CatchAllLate, ResponseIsSet, SameExcept, Event
<1>5. /\ task' \in [Invocations -> TaskStates]
      /\ ready' \in Seq(Invocations \cup HttpCalls)
      /\ \A j \in Invocations : task[j] # "await_request" => task'[j] = task[j]
      /\ \A j \in Invocations : task'[j] = task[j] \/ task'[j] = "woken"
    BY <1>1, WakeInvocationType DEF CatchAllLate, IInv
<1>6. refs[i].response = Response(refs, i) /\ Response(refs, i) \in Responses \cup {Nil}
    <2>1. i \in DOMAIN refs
        BY <1>4, <1>0, <1>1 DEF Event, ReferenceOf, NewReference
    <2> QED
        BY <1>0, <1>1, <2>1, ReferenceOfType DEF Response, ReferenceOf, ContextReference
<1>7. TypeOK'
    BY <1>3, <1>5, <1>6
    DEF CatchAllLate, ReplyWith, IInv, TypeOK, Dictionary, CallStates, Replies
<1>8. Took(h, i)
    BY <1>1, <1>3, <1>4, <1>5, <1>6
    DEF CatchAllLate, ReplyWith, Took, IInv, PublishedIsDone, Replies, Responses
<1> QED
    BY <1>1, <1>7, <1>8

LEMMA WokenCallTakes ==
    ASSUME IInv, NEW h \in HttpCalls, CatchAllResumes(h)
    PROVE  header[h] \in Invocations /\ TypeOK' /\ Took(h, header[h])
<1>0. refs \in Dictionary /\ Tail(ready) \in Seq(Invocations \cup HttpCalls)
    BY TailType DEF CatchAllResumes, IInv, TypeOK, Dictionary, Runs
<1> DEFINE i == header[h]
<1>1. i \in Invocations /\ Event(refs, i)
    BY DEF CatchAllResumes, IInv, CallHeaders
<1>2. /\ refs' \in Dictionary /\ Response(refs', i) = Nil
      /\ Event(refs', i) /\ SameExcept(refs, refs', {i})
    BY <1>0, <1>1, PopResponseView DEF CatchAllResumes
<1>3. refs[i].response = Response(refs, i) /\ Response(refs, i) \in Responses \cup {Nil}
    <2>1. i \in DOMAIN refs
        BY <1>1, <1>0 DEF Event, ReferenceOf, NewReference
    <2> QED
        BY <1>0, <1>1, <2>1, ReferenceOfType DEF Response, ReferenceOf, ContextReference
<1>4. TypeOK'
    BY <1>0, <1>2, <1>3
    DEF CatchAllResumes, ReplyWith, IInv, TypeOK, Dictionary, CallStates, Replies
<1>5. Took(h, i)
    BY <1>1, <1>2, <1>3
    DEF CatchAllResumes, ReplyWith, Took, Replies, Responses
<1> QED
    BY <1>1, <1>4, <1>5

LEMMA CallSteps ==
    ASSUME IInv, NEW h \in HttpCalls, CallStep(h)
    PROVE  IInv'
<1>0. /\ Runs(h) => Tail(ready) \in Seq(Invocations \cup HttpCalls)
      /\ refs \in Dictionary
    BY TailType DEF IInv, TypeOK, Runs, Dictionary
<1>1. CASE CatchAllRejects(h)
    <2>1. TypeOK'
        BY <1>0, <1>1 DEF CatchAllRejects, IInv, TypeOK, CallStates, Replies
    <2>2. Quiet
        BY <1>0, <1>1 DEF CatchAllRejects, Quiet, SameExcept, IInv, TypeOK, PublishedIsDone, Responses
    <2> QED
        BY <1>1, <2>1, <2>2, QuietStep DEF CatchAllRejects, IInv, TypeOK, CallHeaders
<1>2. CASE CatchAllWaits(h)
    <2> DEFINE i == header[h]
    <2>1. i \in Invocations
        BY <1>2 DEF CatchAllWaits, IInv, TypeOK
    <2>2. refs' \in Dictionary /\ SameExcept(refs, refs', {})
        BY <1>0, <1>2, <2>1, SetRequestView DEF CatchAllWaits
    <2>3. /\ task' \in [Invocations -> TaskStates]
          /\ ready' \in Seq(Invocations \cup HttpCalls)
          /\ \A j \in Invocations : task[j] # "await_request" => task'[j] = task[j]
          /\ \A j \in Invocations : task'[j] = task[j] \/ task'[j] = "woken"
        BY <1>2, <2>1, WakeInvocationType DEF CatchAllWaits, IInv
    <2>4. TypeOK'
        <3>1. waiters' \in [Invocations -> Seq(HttpCalls)]
            BY <1>2, <2>1 DEF CatchAllWaits, IInv, TypeOK
        <3>2. call' \in [HttpCalls -> CallStates]
            BY <1>2 DEF CatchAllWaits, IInv, TypeOK, CallStates
        <3> QED
            BY <1>2, <2>2, <2>3, <3>1, <3>2 DEF CatchAllWaits, IInv, TypeOK, Dictionary
    <2>5. Quiet
        BY <1>2, <2>2, <2>3 DEF CatchAllWaits, Quiet, IInv, TypeOK, PublishedIsDone, Responses
    <2> QED
        BY <1>2, <2>1, <2>4, <2>5, QuietStep DEF CatchAllWaits, IInv, TypeOK, CallHeaders
<1>3. CASE CatchAllLate(h)
    BY <1>3, LateCallTakes, TookStep
<1>4. CASE CatchAllResumes(h)
    BY <1>4, WokenCallTakes, TookStep
<1> QED
    BY <1>1, <1>2, <1>3, <1>4 DEF CallStep

\* A finished task's end: FinishEffect and the step lemmas.
LEMMA FinishStep ==
    ASSUME IInv, NEW i \in Invocations, Runs(i), task[i] \notin {"done", "died"},
           NEW c \in Dictionary, SameExcept(refs, c, {}),
           NEW o \in Outcomes, FinishInvocation(c, i, o),
           header' = header, argument' \in [Invocations -> HttpCalls \cup {Nil}],
           outcome' \in [Invocations -> Outcomes \cup {Nil}], outcome'[i] = o,
           \A j \in Invocations \ {i} : outcome'[j] = outcome[j]
    PROVE  IInv'
<1>0. TypeOK /\ ~Event(refs, i) /\ answer[i] = Nil
    BY DEF IInv, PublishedIsDone
<1>1. CASE Died(i)
    <2>1. TypeOK'
        BY <1>0, <1>1 DEF Died, TypeOK, Dictionary, TaskStates
    <2>2. Quiet
        BY <1>0, <1>1 DEF Died, Quiet, TypeOK, IInv, PublishedIsDone
    <2> QED
        BY <1>1, <2>1, <2>2, QuietStep DEF Died, IInv, CallHeaders
<1>2. CASE \E r \in Responses \cup {Nil}, s \in {"Success", "Failure"} :
                Published(i, r, s) /\ (r = Nil => o = "returns_none")
    <2>1. PICK r \in Responses \cup {Nil}, s \in {"Success", "Failure"} :
                Published(i, r, s) /\ (r = Nil => o = "returns_none")
        BY <1>2
    <2>2. TypeOK'
        BY <1>0, <2>1 DEF Published, TypeOK, Dictionary, TaskStates, CallStates
    <2> QED
        BY <1>0, <2>1, <2>2, PublishedStep
<1> QED
    BY <1>0, <1>1, <1>2, FinishEffect

LEMMA InvocationSteps ==
    ASSUME IInv, NEW i \in Invocations, InvocationStep(i)
    PROVE  IInv'
<1>0. /\ Runs(i) => Tail(ready) \in Seq(Invocations \cup HttpCalls)
      /\ refs \in Dictionary /\ SameExcept(refs, refs, {})
      /\ TypeOK
    BY TailType DEF IInv, TypeOK, Runs, Dictionary, SameExcept
<1>1. CASE InvocationUnknown(i)
    <2>1. TypeOK'
        BY <1>0, <1>1 DEF InvocationUnknown, Answer, TypeOK, TaskStates
    <2>2. ~Event(refs, i) /\ answer[i] = Nil
        BY <1>1 DEF InvocationUnknown, IInv, PublishedIsDone
    <2>3. PublishedIsDone'
        BY <1>0, <1>1 DEF InvocationUnknown, Answer, IInv, PublishedIsDone, TypeOK
    <2>4. StoredResponse'
        BY <1>0, <1>1, <2>2, DistinctNames
        DEF InvocationUnknown, Answer, IInv, StoredResponse, PublishedIsDone, TypeOK, Responses,
            Replies, ServedCalls, CallsOf
    <2>5. CallHeaders' /\ ResultTaken'
        BY <1>1 DEF InvocationUnknown, IInv, CallHeaders, ResultTaken, ServedCalls, CallsOf
    <2>6. ChannelsAgree'
        BY <1>0, <1>1, <2>2
        DEF InvocationUnknown, Answer, IInv, ChannelsAgree, CallHeaders, Responses, TypeOK
    <2> QED
        BY <2>1, <2>3, <2>4, <2>5, <2>6 DEF IInv
<1>2. CASE InvocationDecodeError(i)
    <2>0. ~Event(refs, i) /\ answer[i] = Nil
        BY <1>2 DEF InvocationDecodeError, IInv, PublishedIsDone
    <2>1. Published(i, "error", "Failure") \/ Died(i)
        <3>1. SameExcept(refs, refs, {i})
            BY DEF SameExcept
        <3> QED
            BY <1>0, <1>2, <3>1, FailEffect DEF InvocationDecodeError
    <2>2. TypeOK'
        <3>1. UNCHANGED <<outcome, argument, header>>
            BY <1>2 DEF InvocationDecodeError
        <3>2. CASE Died(i)
            BY <1>0, <3>1, <3>2 DEF Died, TypeOK, Dictionary, TaskStates
        <3>3. CASE Published(i, "error", "Failure")
            <4>1. task' \in [Invocations -> TaskStates] /\ answer' \in [Invocations -> {Nil, "Success", "Failure"}]
                BY <1>0, <3>3 DEF Published, TypeOK, TaskStates
            <4>2. call' \in [HttpCalls -> CallStates]
                BY <1>0, <3>3 DEF Published, TypeOK, CallStates
            <4> QED
                BY <1>0, <3>1, <3>3, <4>1, <4>2 DEF Published, TypeOK, Dictionary
        <3> QED
            BY <2>1, <3>2, <3>3
    <2>3. CASE Died(i)
        <3>1. Quiet
            BY <1>0, <1>2, <2>0, <2>3
            DEF InvocationDecodeError, Died, Quiet, TypeOK, IInv, PublishedIsDone
        <3> QED
            BY <1>2, <2>2, <2>3, <3>1, QuietStep DEF InvocationDecodeError, Died, IInv, CallHeaders
    <2>4. CASE Published(i, "error", "Failure")
        BY <1>2, <2>0, <2>2, <2>4, PublishedStep, DistinctNames
        DEF InvocationDecodeError, Responses, Replies
    <2> QED
        BY <2>1, <2>3, <2>4
<1>3. CASE InvocationAwaitsRequest(i)
    <2>1. refs' \in Dictionary /\ SameExcept(refs, refs', {})
        BY <1>0, <1>3, CreateReferenceView DEF InvocationAwaitsRequest
    <2>2. TypeOK'
        BY <1>0, <1>3, <2>1 DEF InvocationAwaitsRequest, TypeOK, Dictionary, TaskStates
    <2>3. Quiet
        BY <1>0, <1>3, <2>1 DEF InvocationAwaitsRequest, Quiet, TypeOK, IInv, PublishedIsDone
    <2> QED
        BY <1>3, <2>2, <2>3, QuietStep DEF InvocationAwaitsRequest, IInv, CallHeaders
<1>4. CASE InvocationSuspends(i)
    <2>1. refs' \in Dictionary /\ SameExcept(refs, refs', {})
        BY <1>0, <1>4, PopRequestView DEF InvocationSuspends
    <2>2. RequestOf(i) \in HttpCalls \cup {Nil}
        BY <1>0, ReferenceOfType DEF RequestOf, ContextReference
    <2>3. TypeOK'
        <3>1. argument' \in [Invocations -> HttpCalls \cup {Nil}]
            BY <1>0, <1>4, <2>2 DEF InvocationSuspends, TypeOK
        <3>2. task' \in [Invocations -> TaskStates]
            BY <1>0, <1>4 DEF InvocationSuspends, TypeOK, TaskStates
        <3>3. /\ ready' \in Seq(Invocations \cup HttpCalls)
              /\ UNCHANGED <<waiters, outcome, answer, call, header>>
            BY <1>0, <1>4 DEF InvocationSuspends, HasRequest
        <3> QED
            BY <1>0, <2>1, <3>1, <3>2, <3>3 DEF TypeOK, Dictionary
    <2>4. Quiet
        BY <1>0, <1>4, <2>1
        DEF InvocationSuspends, HasRequest, Quiet, TypeOK, IInv, PublishedIsDone
    <2> QED
        BY <1>4, <2>3, <2>4, QuietStep DEF InvocationSuspends, IInv, CallHeaders
<1>5. ASSUME NEW o \in Outcomes, InvocationRunsThrough(i, o) PROVE IInv'
    <2> DEFINE c == pop_http_request(refs, i)
    <2>1. c \in Dictionary /\ SameExcept(refs, c, {})
        BY <1>0, PopRequestView
    <2>2. /\ argument' \in [Invocations -> HttpCalls \cup {Nil}]
          /\ outcome' \in [Invocations -> Outcomes \cup {Nil}] /\ outcome'[i] = o
          /\ \A j \in Invocations \ {i} : outcome'[j] = outcome[j]
        <3>1. RequestOf(i) \in HttpCalls \cup {Nil}
            BY <1>0, ReferenceOfType DEF RequestOf, ContextReference
        <3> QED
            BY <1>0, <1>5, <3>1 DEF InvocationRunsThrough, TypeOK
    <2>3. /\ Runs(i) /\ task[i] \notin {"done", "died"}
          /\ FinishInvocation(c, i, o) /\ header' = header
        BY <1>5 DEF InvocationRunsThrough, HasRequest
    <2> HIDE DEF c
    <2> QED
        BY <2>1, <2>2, <2>3, FinishStep
<1>6. CASE InvocationResumes(i)
    <2>1. outcome[i] \in Outcomes
        BY <1>6 DEF InvocationResumes, IInv, PublishedIsDone
    <2>2. /\ argument' \in [Invocations -> HttpCalls \cup {Nil}]
          /\ outcome' \in [Invocations -> Outcomes \cup {Nil}] /\ outcome' = outcome
          /\ header' = header
        BY <1>0, <1>6 DEF InvocationResumes, TypeOK
    <2>3. /\ Runs(i) /\ task[i] \notin {"done", "died"}
          /\ FinishInvocation(refs, i, outcome[i])
        BY <1>6 DEF InvocationResumes
    <2> QED
        BY <1>0, <2>1, <2>2, <2>3, FinishStep
<1> QED
    BY <1>1, <1>2, <1>3, <1>4, <1>5, <1>6 DEF InvocationStep

LEMMA NextIInv == IInv /\ [Next]_vars => IInv'
<1> SUFFICES ASSUME IInv, [Next]_vars PROVE IInv'
    OBVIOUS
<1>1. CASE UNCHANGED vars
    BY <1>1 DEF vars, IInv, TypeOK, PublishedIsDone, StoredResponse, CallHeaders, ChannelsAgree,
                ResultTaken, ServedCalls, CallsOf
<1>2. CASE EventLoop
    BY <1>2, CallSteps, InvocationSteps DEF EventLoop
<1>3. ASSUME NEW i \in Invocations, ReceiveInvocation(i) PROVE IInv'
    BY <1>3, ArrivalStep
<1>4. ASSUME NEW h \in HttpCalls, NEW id \in Invocations \cup {NoHeader}, ReceiveHttpCall(h, id)
      PROVE  IInv'
    BY <1>4, ArrivalStep
<1>5. ASSUME NEW i \in Invocations, NEW o \in Outcomes, FunctionEnds(i, o) PROVE IInv'
    BY <1>5, FunctionEndsStep
<1> QED
    BY <1>1, <1>2, <1>3, <1>4, <1>5 DEF Next

-----------------------------------------------------------------------------
(* The request side: _pop_http_request finds what set_http_request put.     *)

Request(c, i) == ReferenceOf(c, i).request
RequestEvent(c, i) == ReferenceOf(c, i).request_event

SameRequests(c, d, I) ==
    \A j \in Invocations \ I :
        Request(d, j) = Request(c, j) /\ RequestEvent(d, j) = RequestEvent(c, j)

\* The task has not come to _pop_http_request yet.
BeforePop == {"absent", "created", "await_request", "woken"}

\* Until its task takes it, an invocation whose request event is set has its
\* request, and only a set event wakes the task.
RequestKept ==
    \A i \in Invocations :
        /\ RequestEvent(refs, i) /\ task[i] \in BeforePop => Request(refs, i) # Nil
        /\ task[i] = "woken" => RequestEvent(refs, i)

\* What each operation of the coordinator does to the requests.
LEMMA StoredRequests ==
    ASSUME NEW c \in Dictionary, NEW i \in Invocations, NEW r \in ContextReference
    PROVE  LET d == StoreReference(c, i, r) IN
           /\ SameRequests(c, d, {i})
           /\ Request(d, i) = r.request
           /\ RequestEvent(d, i) = r.request_event
           /\ r.request = Request(c, i) /\ r.request_event = RequestEvent(c, i) =>
                SameRequests(c, d, {})
<1> DEFINE d == StoreReference(c, i, r)
<1>1. /\ ReferenceOf(d, i) = r
      /\ \A j \in Invocations \ {i} : ReferenceOf(d, j) = ReferenceOf(c, j)
    BY ZenonT(30), StoreReferenceType
<1> HIDE DEF d
<1>2. /\ SameRequests(c, d, {i})
      /\ Request(d, i) = r.request
      /\ RequestEvent(d, i) = r.request_event
      /\ r.request = Request(c, i) /\ r.request_event = RequestEvent(c, i) =>
            SameRequests(c, d, {})
    BY <1>1 DEF SameRequests, Request, RequestEvent
<1> QED
    BY <1>2 DEF d

LEMMA RequestViews ==
    ASSUME NEW c \in Dictionary, NEW i \in Invocations
    PROVE  /\ \A h \in HttpCalls : LET d == set_http_request(c, i, h) IN
                /\ SameRequests(c, d, {i})
                /\ Request(d, i) = h
                /\ RequestEvent(d, i)
           /\ SameRequests(c, pop_http_request(c, i), {i})
           /\ SameRequests(c, StoreReference(c, i, ReferenceOf(c, i)), {})
           /\ \A v \in Responses \cup {Nil} : SameRequests(c, set_http_response(c, i, v), {})
           /\ SameRequests(c, pop_http_response(c, i), {})
<1>1. ReferenceOf(c, i) \in ContextReference
    BY ReferenceOfType
<1>2. ASSUME NEW h \in HttpCalls
      PROVE  LET d == set_http_request(c, i, h) IN
                /\ SameRequests(c, d, {i})
                /\ Request(d, i) = h
                /\ RequestEvent(d, i)
    <2> DEFINE r == [ReferenceOf(c, i) EXCEPT !.request = h, !.request_event = TRUE]
    <2>1. r \in ContextReference /\ r.request = h /\ r.request_event = TRUE
        BY <1>1 DEF ContextReference
    <2>2. set_http_request(c, i, h) = StoreReference(c, i, r)
        BY DEF set_http_request
    <2> HIDE DEF r
    <2> QED
        BY <2>1, <2>2, StoredRequests
<1>3. SameRequests(c, pop_http_request(c, i), {i})
    <2> DEFINE r == [ReferenceOf(c, i) EXCEPT !.request = Nil]
    <2>1. r \in ContextReference
        BY <1>1 DEF ContextReference
    <2>2. pop_http_request(c, i) = StoreReference(c, i, r)
        BY DEF pop_http_request
    <2> HIDE DEF r
    <2> QED
        BY <2>1, <2>2, StoredRequests
<1>4. SameRequests(c, StoreReference(c, i, ReferenceOf(c, i)), {})
    BY <1>1, StoredRequests DEF Request, RequestEvent
<1>5. ASSUME NEW v \in Responses \cup {Nil}
      PROVE  SameRequests(c, set_http_response(c, i, v), {})
    <2> DEFINE r == [ReferenceOf(c, i) EXCEPT !.response = v, !.response_event = TRUE]
    <2>1. /\ r \in ContextReference
          /\ r.request = Request(c, i) /\ r.request_event = RequestEvent(c, i)
        BY <1>1 DEF ContextReference, Request, RequestEvent
    <2>2. set_http_response(c, i, v) = StoreReference(c, i, r)
        BY DEF set_http_response
    <2> HIDE DEF r
    <2> QED
        BY <2>1, <2>2, StoredRequests
<1>6. SameRequests(c, pop_http_response(c, i), {})
    <2> DEFINE r == [ReferenceOf(c, i) EXCEPT !.response = Nil]
    <2>1. /\ r \in ContextReference
          /\ r.request = Request(c, i) /\ r.request_event = RequestEvent(c, i)
        BY <1>1 DEF ContextReference, Request, RequestEvent
    <2>2. pop_http_response(c, i) = StoreReference(c, i, r)
        BY DEF pop_http_response
    <2> HIDE DEF r
    <2> QED
        BY <2>1, <2>2, StoredRequests
<1> QED
    BY <1>2, <1>3, <1>4, <1>5, <1>6

\* A step that leaves the requests alone and brings no task back before its
\* pop keeps the invariant; so does one whose task is past its pop.
LEMMA RequestsLeftAlone ==
    ASSUME RequestKept, SameRequests(refs, refs', {}),
           \A j \in Invocations :
                /\ task'[j] \in BeforePop => task[j] \in BeforePop
                /\ task'[j] = "woken" => task[j] = "woken"
    PROVE  RequestKept'
BY DEF RequestKept, SameRequests

LEMMA RequestTaken ==
    ASSUME RequestKept, NEW i \in Invocations, SameRequests(refs, refs', {i}),
           task'[i] \notin BeforePop,
           \A j \in Invocations \ {i} : task'[j] = task[j]
    PROVE  RequestKept'
BY DEF RequestKept, SameRequests, BeforePop

\* However its handler ends, a task leaves the requests as they were.
LEMMA FinishRequests ==
    ASSUME TypeOK, NEW i \in Invocations, NEW c \in Dictionary, NEW o \in Outcomes,
           FinishInvocation(c, i, o) \/ FailInvocation(c, i)
    PROVE  /\ SameRequests(c, refs', {})
           /\ task'[i] \in {"done", "died"}
           /\ \A j \in Invocations \ {i} : task'[j] = task[j]
<1>1. ASSUME NEW d \in Dictionary, NEW s, NEW v \in Responses \cup {Nil},
             PublishResponse(d, i, v), Answer(i, s)
      PROVE  /\ SameRequests(d, refs', {})
             /\ task'[i] = "done"
             /\ \A j \in Invocations \ {i} : task'[j] = task[j]
    BY <1>1, RequestViews DEF PublishResponse, Answer, TypeOK
<1>2. ASSUME NEW d \in Dictionary, Die(d, i)
      PROVE  /\ SameRequests(d, refs', {})
             /\ task'[i] = "died"
             /\ \A j \in Invocations \ {i} : task'[j] = task[j]
    BY <1>2 DEF Die, TypeOK, SameRequests
<1>3. ASSUME NEW d \in Dictionary, FailInvocation(d, i)
      PROVE  /\ SameRequests(d, refs', {})
             /\ task'[i] \in {"done", "died"}
             /\ \A j \in Invocations \ {i} : task'[j] = task[j]
    BY <1>1, <1>2, <1>3 DEF FailInvocation, Responses
<1>4. CASE FinishInvocation(c, i, o)
    <2>1. CASE o \in {"returns", "returns_none"}
        BY <1>1, <1>4, <2>1 DEF FinishInvocation, Responses
    <2>2. CASE o = "raises"
        BY <1>3, <1>4, <2>2 DEF FinishInvocation
    <2>3. CASE o = "returns_unencodable"
        <3> DEFINE d == set_http_response(c, i, "value")
        <3>1. d \in Dictionary /\ SameRequests(c, d, {})
            BY SetResponseView, RequestViews DEF Responses
        <3>2. FailInvocation(d, i)
            BY <1>4, <2>3 DEF FinishInvocation
        <3> HIDE DEF d
        <3> QED
            BY <1>3, <3>1, <3>2 DEF SameRequests
    <2>4. CASE o = "cancelled"
        BY <1>2, <1>4, <2>4 DEF FinishInvocation
    <2> QED
        BY <2>1, <2>2, <2>3, <2>4 DEF Outcomes
<1> QED
    BY <1>3, <1>4

LEMMA InitRequestKept == Init => RequestKept
<1> SUFFICES ASSUME Init, NEW i \in Invocations
             PROVE  ~RequestEvent(refs, i) /\ task[i] # "woken"
    BY DEF RequestKept
<1>1. DOMAIN refs = {}
    BY DEF Init
<1> QED
    BY <1>1 DEF Init, RequestEvent, ReferenceOf, NewReference

LEMMA CallRequests ==
    ASSUME IInv, RequestKept, NEW h \in HttpCalls, CallStep(h)
    PROVE  RequestKept'
<1>0. refs \in Dictionary /\ SameRequests(refs, refs, {})
    BY DEF IInv, TypeOK, Dictionary, SameRequests
<1>1. CASE CatchAllRejects(h)
    BY <1>0, <1>1, RequestsLeftAlone DEF CatchAllRejects
<1>2. CASE CatchAllWaits(h) \/ CatchAllLate(h)
    <2> DEFINE i == header[h]
               c == set_http_request(refs, i, h)
    <2>1. i \in Invocations
        BY <1>2 DEF CatchAllWaits, CatchAllLate, IInv, TypeOK
    <2>2. c \in Dictionary /\ SameRequests(refs, c, {i}) /\ Request(c, i) = h /\ RequestEvent(c, i)
        BY <1>0, <2>1, SetRequestView, RequestViews
    <2>3. refs' = c \/ refs' = pop_http_response(c, i)
        BY <1>2 DEF CatchAllWaits, CatchAllLate
    <2>4. \A j \in Invocations :
            task'[j] = task[j] \/ (j = i /\ task[j] = "await_request" /\ task'[j] = "woken")
        BY <1>2, <2>1 DEF CatchAllWaits, CatchAllLate, WakeInvocation, IInv, TypeOK
    <2>5. SameRequests(c, pop_http_response(c, i), {}) /\ SameRequests(c, c, {})
        BY <2>1, <2>2, RequestViews DEF SameRequests
    <2>6. h # Nil
        BY DistinctNames
    <2> HIDE DEF c, i
    <2>7. Request(refs', i) = h /\ RequestEvent(refs', i) /\ SameRequests(refs, refs', {i})
        BY <2>1, <2>2, <2>3, <2>5 DEF SameRequests
    <2> QED
        BY <2>4, <2>6, <2>7 DEF RequestKept, SameRequests, BeforePop
<1>3. CASE CatchAllResumes(h)
    <2>1. header[h] \in Invocations
        BY <1>3, WokenCallTakes
    <2>2. SameRequests(refs, refs', {}) /\ task' = task
        BY <1>0, <1>3, <2>1, RequestViews DEF CatchAllResumes
    <2> QED
        BY <2>2, RequestsLeftAlone
<1> QED
    BY <1>1, <1>2, <1>3 DEF CallStep

LEMMA InvocationRequests ==
    ASSUME IInv, RequestKept, NEW i \in Invocations, InvocationStep(i)
    PROVE  RequestKept'
<1>0. refs \in Dictionary /\ SameRequests(refs, refs, {}) /\ TypeOK
    BY DEF IInv, TypeOK, Dictionary, SameRequests
<1>1. CASE InvocationUnknown(i)
    BY <1>0, <1>1, RequestsLeftAlone
    DEF InvocationUnknown, Answer, TypeOK, BeforePop
<1>2. CASE InvocationDecodeError(i)
    <2>1. "raises" \in Outcomes
        BY DEF Outcomes
    <2>2. /\ SameRequests(refs, refs', {})
          /\ task'[i] \in {"done", "died"}
          /\ \A j \in Invocations \ {i} : task'[j] = task[j]
        BY <1>0, <1>2, <2>1, FinishRequests DEF InvocationDecodeError
    <2> QED
        BY <2>2, RequestTaken DEF SameRequests, BeforePop
<1>3. CASE InvocationAwaitsRequest(i)
    <2>1. SameRequests(refs, refs', {})
        BY <1>0, <1>3, RequestViews DEF InvocationAwaitsRequest
    <2> QED
        BY <1>0, <1>3, <2>1, RequestsLeftAlone DEF InvocationAwaitsRequest, TypeOK, BeforePop
<1>4. CASE InvocationSuspends(i)
    <2>1. SameRequests(refs, refs', {i})
        BY <1>0, <1>4, RequestViews DEF InvocationSuspends
    <2> QED
        BY <1>0, <1>4, <2>1, RequestTaken DEF InvocationSuspends, TypeOK, BeforePop
<1>5. ASSUME NEW o \in Outcomes, InvocationRunsThrough(i, o) PROVE RequestKept'
    <2> DEFINE c == pop_http_request(refs, i)
    <2>1. c \in Dictionary /\ SameRequests(refs, c, {i})
        BY <1>0, PopRequestView, RequestViews
    <2>2. FinishInvocation(c, i, o)
        BY <1>5 DEF InvocationRunsThrough
    <2> HIDE DEF c
    <2>3. /\ SameRequests(c, refs', {})
          /\ task'[i] \in {"done", "died"}
          /\ \A j \in Invocations \ {i} : task'[j] = task[j]
        BY <1>0, <2>1, <2>2, FinishRequests
    <2>4. SameRequests(refs, refs', {i})
        BY <2>1, <2>3 DEF SameRequests
    <2> QED
        BY <2>3, <2>4, RequestTaken DEF BeforePop
<1>6. CASE InvocationResumes(i)
    <2>1. outcome[i] \in Outcomes
        BY <1>6 DEF InvocationResumes, IInv, PublishedIsDone
    <2>2. /\ SameRequests(refs, refs', {})
          /\ task'[i] \in {"done", "died"}
          /\ \A j \in Invocations \ {i} : task'[j] = task[j]
        BY <1>0, <1>6, <2>1, FinishRequests DEF InvocationResumes
    <2> QED
        BY <2>2, RequestTaken DEF SameRequests, BeforePop
<1> QED
    BY <1>1, <1>2, <1>3, <1>4, <1>5, <1>6 DEF InvocationStep

LEMMA NextRequestKept == IInv /\ RequestKept /\ [Next]_vars => RequestKept'
<1> SUFFICES ASSUME IInv, RequestKept, [Next]_vars PROVE RequestKept'
    OBVIOUS
<1>0. TypeOK /\ SameRequests(refs, refs, {})
    BY DEF IInv, SameRequests
<1>1. CASE UNCHANGED vars
    BY <1>1 DEF vars, RequestKept
<1>2. CASE EventLoop
    BY <1>2, CallRequests, InvocationRequests DEF EventLoop
<1>3. ASSUME NEW i \in Invocations, ReceiveInvocation(i) PROVE RequestKept'
    BY <1>0, <1>3, RequestsLeftAlone DEF ReceiveInvocation, TypeOK, BeforePop
<1>4. ASSUME NEW h \in HttpCalls, NEW id \in Invocations \cup {NoHeader}, ReceiveHttpCall(h, id)
      PROVE  RequestKept'
    BY <1>0, <1>4, RequestsLeftAlone DEF ReceiveHttpCall
<1>5. ASSUME NEW i \in Invocations, NEW o \in Outcomes, FunctionEnds(i, o) PROVE RequestKept'
    BY <1>0, <1>5, RequestsLeftAlone DEF FunctionEnds, TypeOK, BeforePop
<1> QED
    BY <1>1, <1>2, <1>3, <1>4, <1>5 DEF Next

-----------------------------------------------------------------------------
(* The theorems.                                                           *)

\* The strengthening of the safety properties below is inductive.
THEOREM Invariance == Spec => []IInv
BY InitIInv, NextIInv, PTL DEF Spec

\* Types: among them that a context reference holds a request, a result, an
\* exception or nothing, and a task or a call is in one of its states.
THEOREM TypeCorrect == Spec => []TypeOK
<1>1. IInv => TypeOK
    BY DEF IInv
<1> QED
    BY <1>1, Invariance, PTL

LEMMA ConservedByIInv == IInv => ResultConserved
<1> SUFFICES ASSUME IInv, NEW i \in Invocations, ResponseIsSet(i), outcome[i] # "returns_none"
             PROVE  \/ refs[i].response # Nil /\ ServedCalls(i) = {}
                    \/ refs[i].response = Nil /\ Cardinality(ServedCalls(i)) = 1
    BY DEF ResultConserved
<1>1. Event(refs, i) /\ Response(refs, i) = refs[i].response
    BY DEF ResponseIsSet, Event, Response, ReferenceOf, NewReference
<1>2. CASE Response(refs, i) = Nil
    <2>1. ServedCalls(i) # {} /\ \A g, h \in ServedCalls(i) : g = h
        BY <1>1, <1>2 DEF IInv, ResultTaken, CallHeaders
    <2>2. PICK h : ServedCalls(i) = {h}
        BY <2>1
    <2> QED
        BY <1>1, <1>2, <2>2, FS_Singleton
<1>3. CASE Response(refs, i) # Nil
    BY <1>1, <1>3 DEF IInv, StoredResponse
<1> QED
    BY <1>2, <1>3

\* However many HTTP calls carry the id of an invocation, and whenever they
\* come, exactly one of them gets its result.
THEOREM ResultConservedAlways == Spec => []ResultConserved
BY ConservedByIInv, Invariance, PTL

\* A call is never told a result that its InvocationResponse contradicts.
THEOREM ChannelsAgreeAlways == Spec => []ChannelsAgree
<1>1. IInv => ChannelsAgree
    BY DEF IInv
<1> QED
    BY <1>1, Invariance, PTL

\* An invocation that goes on because its request event is set finds the
\* request, however many calls carry its id: _pop_http_request never raises.
THEOREM RequestThereAlways == Spec => []RequestThere
<1>1. IInv /\ RequestKept => RequestThere
    BY DEF RequestThere, RequestKept, HasRequest, RequestIsSet, RequestOf, Request, RequestEvent,
           BeforePop
<1> QED
    BY <1>1, Invariance, InitRequestKept, NextRequestKept, PTL DEF Spec

=============================================================================
