----------------------------- MODULE HttpExchange -----------------------------
(***************************************************************************)
(* What the coordinator promises, without tasks, queues or events: every   *)
(* invocation has a mailbox that is filled at most once, in the step that  *)
(* fixes its InvocationResponse, and the first HTTP call to look into it   *)
(* takes what is there.                                                    *)
(***************************************************************************)
CONSTANTS Invocations, HttpCalls, Nil, NoHeader

VARIABLES
    answer,     \* status of the InvocationResponse, Nil before
    published,  \* the invocations whose mailbox was filled
    mailbox,    \* what the mailbox holds, Nil when it holds nothing
    header,     \* the invocation a call names
    reply       \* what a call was answered, Nil before

vars == <<answer, published, mailbox, header, reply>>

Init ==
    /\ answer = [i \in Invocations |-> Nil]
    /\ published = {}
    /\ mailbox = [i \in Invocations |-> Nil]
    /\ header = [h \in HttpCalls |-> NoHeader]
    /\ reply = [h \in HttpCalls |-> Nil]

\* A call that names invocation i arrives.
Arrive(h, i) ==
    /\ header[h] = NoHeader /\ reply[h] = Nil
    /\ header' = [header EXCEPT ![h] = i]
    /\ UNCHANGED <<answer, published, mailbox, reply>>

\* A call without an invocation id is turned away.
Reject(h) ==
    /\ header[h] = NoHeader /\ reply[h] = Nil
    /\ reply' = [reply EXCEPT ![h] = "MissingHeaderError"]
    /\ UNCHANGED <<answer, published, mailbox, header>>

\* The invocation ends: its status and its mailbox agree.
Publish(i, status, r) ==
    /\ answer[i] = Nil /\ i \notin published
    /\ (status = "Success" /\ r \in {"value", Nil}) \/ (status = "Failure" /\ r = "error")
    /\ answer' = [answer EXCEPT ![i] = status]
    /\ mailbox' = [mailbox EXCEPT ![i] = r]
    /\ published' = published \cup {i}
    /\ UNCHANGED <<header, reply>>

\* The invocation fails before it is known to be an HTTP one.
Refuse(i) ==
    /\ answer[i] = Nil
    /\ answer' = [answer EXCEPT ![i] = "Failure"]
    /\ UNCHANGED <<published, mailbox, header, reply>>

\* A call is answered from the mailbox of its invocation and empties it.
Take(h, i) ==
    /\ header[h] = i /\ reply[h] = Nil
    /\ i \in published
    /\ reply' = [reply EXCEPT ![h] = IF mailbox[i] = Nil THEN "ValueError" ELSE mailbox[i]]
    /\ mailbox' = [mailbox EXCEPT ![i] = Nil]
    /\ UNCHANGED <<answer, published, header>>

Next ==
    \/ \E h \in HttpCalls : Reject(h)
    \/ \E h \in HttpCalls, i \in Invocations : Arrive(h, i) \/ Take(h, i)
    \/ \E i \in Invocations, s \in {"Success", "Failure"}, r \in {"value", "error", Nil} :
            Publish(i, s, r)
    \/ \E i \in Invocations : Refuse(i)

Spec == Init /\ [][Next]_vars

===============================================================================
