---------------------- MODULE HttpCoordinatorRefinement ----------------------
(***************************************************************************)
(* The coordinator and its tasks implement the exchange of HttpExchange:   *)
(* under the mapping of HttpCoordinator, every step is a step of the       *)
(* exchange or changes nothing that the exchange speaks of.                *)
(***************************************************************************)
EXTENDS HttpCoordinatorProofs

\* The mapped variables, as the invariant's lemmas name their parts.
Filled == {i \in Invocations : ResponseIsSet(i)}
Mailbox == [i \in Invocations |-> ReferenceOf(refs, i).response]
Reply == [h \in HttpCalls |-> IF call[h] \in Replies THEN call[h] ELSE Nil]

Stutter == UNCHANGED <<answer, Filled, Mailbox, header, Reply>>

LEMMA StutterMaps ==
    ASSUME Stutter
    PROVE  UNCHANGED Exchange!vars
BY DEF Stutter, Exchange!vars, Filled, Mailbox, Reply

\* References whose responses stay map to the same mailboxes.
LEMMA SameMailboxes ==
    ASSUME SameExcept(refs, refs', {})
    PROVE  Filled' = Filled /\ Mailbox' = Mailbox
<1>1. \A i \in Invocations : (ResponseIsSet(i))' = ResponseIsSet(i)
    BY DEF SameExcept, Event, ResponseIsSet
<1>2. \A i \in Invocations : ReferenceOf(refs', i).response = ReferenceOf(refs, i).response
    BY DEF SameExcept, Response
<1> QED
    BY <1>1, <1>2 DEF Filled, Mailbox

LEMMA SameReplies ==
    ASSUME \A h \in HttpCalls :
                call'[h] = call[h] \/ (call[h] \notin Replies /\ call'[h] \notin Replies)
    PROVE  Reply' = Reply
BY DEF Reply

LEMMA InitMaps == Init => Exchange!Init
<1> SUFFICES ASSUME Init PROVE Exchange!Init
    OBVIOUS
<1>1. \A i \in Invocations : ReferenceOf(refs, i) = NewReference
    BY DEF Init, ReferenceOf
<1>2. Filled = {}
    BY <1>1 DEF Filled, ResponseIsSet, NewReference
<1>3. Mailbox = [i \in Invocations |-> Nil]
    BY <1>1 DEF Mailbox, NewReference
<1>4. Reply = [h \in HttpCalls |-> Nil]
    BY DEF Init, Reply, Replies, Responses
<1> QED
    BY <1>2, <1>3, <1>4 DEF Init, Exchange!Init, Filled, Mailbox, Reply

\* A published response fills the mailbox, in the step that queues the
\* InvocationResponse.
LEMMA PublishMaps ==
    ASSUME IInv, NEW i \in Invocations, ~Event(refs, i), answer[i] = Nil,
           NEW r \in Responses \cup {Nil}, NEW s \in {"Success", "Failure"},
           Published(i, r, s), header' = header
    PROVE  Exchange!Next
<1>1. /\ Response(refs', i) = r /\ Event(refs', i) = TRUE
      /\ \A j \in Invocations \ {i} :
            Response(refs', j) = Response(refs, j) /\ Event(refs', j) = Event(refs, j)
    BY DEF Published, SameExcept
<1>2. Filled' = Filled \cup {i} /\ i \notin Filled
    BY <1>1 DEF Filled, ResponseIsSet, Event
<1>3. Mailbox' = [Mailbox EXCEPT ![i] = r]
    BY <1>1 DEF Mailbox, Response
<1>4. Reply' = Reply
    <2>1. \A h \in HttpCalls :
            call'[h] = IF call[h] = "await_response" /\ header[h] = i THEN "woken" ELSE call[h]
        BY DEF Published
    <2> QED
        BY <2>1, SameReplies DEF Replies, Responses
<1>5. Exchange!Publish(i, s, r)
    BY <1>2, <1>3, <1>4 DEF Published, Exchange!Publish, Filled, Mailbox, Reply
<1>6. r \in {"value", "error", Nil}
    BY DEF Responses
<1> QED
    BY <1>5, <1>6 DEF Exchange!Next

LEMMA DiedMaps ==
    ASSUME NEW i \in Invocations, Died(i), header' = header
    PROVE  Stutter
BY SameMailboxes, SameReplies DEF Died, Stutter

\* A call that takes the response of its invocation empties its mailbox.
LEMMA TookMaps ==
    ASSUME IInv, NEW h \in HttpCalls, NEW i \in Invocations, Took(h, i)
    PROVE  Exchange!Next
<1>1. /\ Response(refs', i) = Nil
      /\ \A j \in Invocations \ {i} : Response(refs', j) = Response(refs, j)
      /\ \A j \in Invocations : Event(refs', j) <=> Event(refs, j)
    BY DEF Took, SameExcept
<1>2. Filled' = Filled /\ i \in Filled
    BY <1>1 DEF Filled, ResponseIsSet, Event, Took
<1>3. Mailbox' = [Mailbox EXCEPT ![i] = Nil] /\ Mailbox[i] = Response(refs, i)
    BY <1>1 DEF Mailbox, Response
<1>4. Response(refs, i) \in Responses \cup {Nil}
    BY ReferenceOfType DEF IInv, TypeOK, Dictionary, Response, ContextReference
<1>5. /\ Reply[h] = Nil
      /\ Reply' = [Reply EXCEPT ![h] = IF Mailbox[i] = Nil THEN "ValueError" ELSE Mailbox[i]]
    BY <1>3, <1>4 DEF Took, Reply, Replies, IInv, TypeOK
<1>6. Exchange!Take(h, i)
    BY <1>2, <1>3, <1>5 DEF Took, Exchange!Take, Filled, Mailbox, Reply
<1> QED
    BY <1>6 DEF Exchange!Next

LEMMA CallStepMaps ==
    ASSUME IInv, NEW h \in HttpCalls, CallStep(h)
    PROVE  Exchange!Next \/ Stutter
<1>0. refs \in Dictionary /\ SameExcept(refs, refs, {})
    BY DEF IInv, TypeOK, Dictionary, SameExcept
<1>1. CASE CatchAllRejects(h)
    <2>1. Filled' = Filled /\ Mailbox' = Mailbox
        BY <1>0, <1>1, SameMailboxes DEF CatchAllRejects
    <2>2. Reply[h] = Nil /\ Reply' = [Reply EXCEPT ![h] = "MissingHeaderError"]
        BY <1>1 DEF CatchAllRejects, Reply, Replies, Responses, IInv, TypeOK
    <2>3. Exchange!Reject(h)
        BY <1>1, <2>1, <2>2 DEF CatchAllRejects, Exchange!Reject, Filled, Mailbox, Reply
    <2> QED
        BY <2>3 DEF Exchange!Next
<1>2. CASE CatchAllWaits(h)
    <2>1. header[h] \in Invocations
        BY <1>2 DEF CatchAllWaits, IInv, TypeOK
    <2>2. SameExcept(refs, refs', {})
        BY <1>0, <1>2, <2>1, SetRequestView DEF CatchAllWaits
    <2>3. Reply' = Reply
        BY <1>2, SameReplies DEF CatchAllWaits, Replies, Responses, IInv, TypeOK
    <2> QED
        BY <1>2, <2>2, <2>3, SameMailboxes DEF CatchAllWaits, Stutter
<1>3. CASE CatchAllLate(h)
    BY <1>3, LateCallTakes, TookMaps
<1>4. CASE CatchAllResumes(h)
    BY <1>4, WokenCallTakes, TookMaps
<1> QED
    BY <1>1, <1>2, <1>3, <1>4 DEF CallStep

\* The end of a task, with the request taken or not.
LEMMA FinishMaps ==
    ASSUME IInv, NEW i \in Invocations, Runs(i), task[i] # "done",
           NEW c \in Dictionary, SameExcept(refs, c, {}), header' = header,
           NEW o \in Outcomes, FinishInvocation(c, i, o) \/ FailInvocation(c, i)
    PROVE  Exchange!Next \/ Stutter
<1>1. ~Event(refs, i) /\ answer[i] = Nil /\ TypeOK
    BY DEF IInv, PublishedIsDone
<1>2. \/ Died(i)
      \/ \E r \in Responses \cup {Nil}, s \in {"Success", "Failure"} : Published(i, r, s)
    <2>1. CASE FinishInvocation(c, i, o)
        BY <1>1, <2>1, FinishEffect
    <2>2. CASE FailInvocation(c, i)
        <3>1. SameExcept(refs, c, {i})
            BY DEF SameExcept
        <3> QED
            BY <1>1, <2>2, <3>1, FailEffect DEF Responses
    <2> QED
        BY <2>1, <2>2
<1> QED
    BY <1>1, <1>2, PublishMaps, DiedMaps

LEMMA InvocationStepMaps ==
    ASSUME IInv, NEW i \in Invocations, InvocationStep(i)
    PROVE  Exchange!Next \/ Stutter
<1>0. refs \in Dictionary /\ SameExcept(refs, refs, {})
    BY DEF IInv, TypeOK, Dictionary, SameExcept
<1>1. CASE InvocationUnknown(i)
    <2>1. answer[i] = Nil
        BY <1>1 DEF InvocationUnknown, IInv, PublishedIsDone
    <2>2. Filled' = Filled /\ Mailbox' = Mailbox /\ Reply' = Reply
        BY <1>0, <1>1, SameMailboxes, SameReplies DEF InvocationUnknown
    <2>3. Exchange!Refuse(i)
        BY <1>1, <2>1, <2>2
        DEF InvocationUnknown, Answer, Exchange!Refuse, Filled, Mailbox, Reply
    <2> QED
        BY <2>3 DEF Exchange!Next
<1>2. CASE InvocationDecodeError(i)
    <2>1. "raises" \in Outcomes
        BY DEF Outcomes
    <2>2. Runs(i) /\ task[i] # "done" /\ header' = header /\ FailInvocation(refs, i)
        BY <1>2 DEF InvocationDecodeError
    <2> QED
        BY <1>0, <2>1, <2>2, FinishMaps
<1>3. CASE InvocationAwaitsRequest(i)
    <2>1. SameExcept(refs, refs', {})
        BY <1>0, <1>3, CreateReferenceView DEF InvocationAwaitsRequest
    <2> QED
        BY <1>3, <2>1, SameMailboxes, SameReplies DEF InvocationAwaitsRequest, Stutter
<1>4. CASE InvocationSuspends(i)
    <2>1. SameExcept(refs, refs', {})
        BY <1>0, <1>4, PopRequestView DEF InvocationSuspends
    <2> QED
        BY <1>4, <2>1, SameMailboxes, SameReplies DEF InvocationSuspends, Stutter
<1>5. ASSUME NEW o \in Outcomes, InvocationRunsThrough(i, o) PROVE Exchange!Next \/ Stutter
    <2> DEFINE c == pop_http_request(refs, i)
    <2>1. c \in Dictionary /\ SameExcept(refs, c, {})
        BY <1>0, PopRequestView
    <2>2. Runs(i) /\ task[i] # "done" /\ header' = header /\ FinishInvocation(c, i, o)
        BY <1>5 DEF InvocationRunsThrough, HasRequest
    <2> HIDE DEF c
    <2> QED
        BY <2>1, <2>2, FinishMaps
<1>6. CASE InvocationResumes(i)
    <2>1. outcome[i] \in Outcomes
        BY <1>6 DEF InvocationResumes, IInv, PublishedIsDone
    <2>2. Runs(i) /\ task[i] # "done" /\ header' = header /\ FinishInvocation(refs, i, outcome[i])
        BY <1>6 DEF InvocationResumes
    <2> QED
        BY <1>0, <2>1, <2>2, FinishMaps
<1> QED
    BY <1>1, <1>2, <1>3, <1>4, <1>5, <1>6 DEF InvocationStep

\* A call that names an invocation arrives; one that names none is no step of
\* the exchange until it is rejected.
LEMMA ReceiveMaps ==
    ASSUME IInv, NEW h \in HttpCalls, NEW id \in Invocations \cup {NoHeader},
           ReceiveHttpCall(h, id)
    PROVE  Exchange!Next \/ Stutter
<1>1. header[h] = NoHeader /\ Reply[h] = Nil
    BY DEF ReceiveHttpCall, IInv, CallHeaders, Reply, Replies, Responses
<1>2. Filled' = Filled /\ Mailbox' = Mailbox
    BY SameMailboxes DEF ReceiveHttpCall, SameExcept
<1>3. Reply' = Reply
    BY SameReplies DEF ReceiveHttpCall, Replies, Responses, IInv, TypeOK
<1>4. CASE id \in Invocations
    <2>1. Exchange!Arrive(h, id)
        BY <1>1, <1>2, <1>3 DEF ReceiveHttpCall, Exchange!Arrive, Filled, Mailbox, Reply
    <2> QED
        BY <1>4, <2>1 DEF Exchange!Next
<1>5. CASE id = NoHeader
    <2>1. header' = header
        BY <1>1, <1>5 DEF ReceiveHttpCall, IInv, TypeOK
    <2> QED
        BY <1>2, <1>3, <2>1 DEF ReceiveHttpCall, Stutter
<1> QED
    BY <1>4, <1>5

LEMMA NextMaps == IInv /\ [Next]_vars => [Exchange!Next]_Exchange!vars
<1> SUFFICES ASSUME IInv, [Next]_vars PROVE Exchange!Next \/ Stutter
    BY StutterMaps
<1>0. SameExcept(refs, refs, {})
    BY DEF SameExcept
<1>1. CASE UNCHANGED vars
    BY <1>0, <1>1, SameMailboxes, SameReplies DEF vars, Stutter
<1>2. CASE EventLoop
    BY <1>2, CallStepMaps, InvocationStepMaps DEF EventLoop
<1>3. ASSUME NEW i \in Invocations, ReceiveInvocation(i) PROVE Stutter
    BY <1>0, <1>3, SameMailboxes, SameReplies DEF ReceiveInvocation, Stutter
<1>4. ASSUME NEW h \in HttpCalls, NEW id \in Invocations \cup {NoHeader}, ReceiveHttpCall(h, id)
      PROVE  Exchange!Next \/ Stutter
    BY <1>4, ReceiveMaps
<1>5. ASSUME NEW i \in Invocations, NEW o \in Outcomes, FunctionEnds(i, o) PROVE Stutter
    BY <1>0, <1>5, SameMailboxes, SameReplies DEF FunctionEnds, Stutter
<1> QED
    BY <1>1, <1>2, <1>3, <1>4, <1>5 DEF Next

\* http_v2.py and the handler together keep the promise of HttpExchange: each
\* invocation's mailbox is filled at most once, in the step that fixes its
\* InvocationResponse, and the first call to look into it empties it.
THEOREM ImplementsExchange == Spec => ExchangeSpec
BY InitMaps, NextMaps, Invariance, PTL DEF Spec, ExchangeSpec, Exchange!Spec

=============================================================================
