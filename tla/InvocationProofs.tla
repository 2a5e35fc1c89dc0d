-------------------------- MODULE InvocationProofs --------------------------
(***************************************************************************)
(* Proofs about Invocation: for any set of invocations, any functions with *)
(* any bindings and any extensions, every reachable state satisfies TypeOK,*)
(* ResponseOfItsFunction, HooksOfOneSdk, HooksComplete and ClientsAsKeyed. *)
(*                                                                         *)
(* The inductive invariant IInv types the tasks as records (Types), bounds *)
(* the clients by the invocations (Bounded), says what the cache of        *)
(* deferred bindings holds (Clients), where the hooks in a trace come from *)
(* (Sources), what a response was made from (Responses), and which calls   *)
(* an invocation that no reload overlaps has made at each of its phases    *)
(* (Settled, Progress).                                                    *)
(***************************************************************************)
EXTENDS Invocation, FiniteSetTheorems, TLAPS

(* The state **************************************************************)

\* The calls a trace consists of, and how a function may have ended.
CallSet == [call : Hooks \cup {"function"}, number : Nat, source : Versions]

Ends == {Nil} \cup UNION {EndsOf([function |-> f, info |-> v]) : f \in Functions, v \in Versions}

ResponseSet ==
    {Failure} \cup {Encoded(Info(f, v), end) : f \in Functions, v \in Versions, end \in Ends}

Started == Phases \ {"absent"}

TaskSet ==
    [phase : Started, function : Functions, info : Versions, input : Inputs,
     client : Nat \cup {Nil}, trace : Seq(CallSet), undisturbed : BOOLEAN,
     flag : BOOLEAN, end : Ends, response : ResponseSet]

KeyOf(t) == Key(t.function, t.info, t.input)

Begun == {i \in Invocations : task[i].phase # "absent"}

\* The types of the variables, the cache and the tasks as functions and records.
Types ==
    /\ version \in Versions /\ sdk \in Versions
    /\ registry \in [Functions -> Versions]
    /\ flag \in {"true", "false", "unset"}
    /\ detected \in Versions \cup {Nil}
    /\ cache \in [Keys -> Nat]
    /\ ready \subseteq Functions
    /\ reload \in {"no", "cleared", "set"}
    /\ task \in [Invocations -> TaskSet \cup {NoTask}]

\* A reload is begun only while the bound allows it.
Bounded == reload # "no" => version <= MaxReloads

\* Every client in the cache was made for an invocation, clients are numbered in
\* the order they are made, no two resources share one, and an invocation has
\* the client of its key.
Clients ==
    /\ \A k \in Keys : \E i \in Begun : k = KeyOf(task[i])
    /\ \A k \in Keys : cache[k] \in 1..Cardinality(Keys)
    /\ \A k, l \in Keys : cache[k] = cache[l] => k = l
    /\ \A i \in Begun : task[i].client # Nil =>
            /\ KeyOf(task[i]) \in Keys
            /\ task[i].client = cache[KeyOf(task[i])]

\* Hooks are those of the loading of the SDK that was detected.
FromDetected(s, d) ==
    \A k \in DOMAIN s : s[k].call # "function" => d # Nil /\ s[k].source = d

Sources == \A i \in Begun : FromDetected(task[i].trace, detected)

\* A response that was made is that of the end the function had.
HasCall(s, v) == \E k \in DOMAIN s : s[k].call = "function" /\ s[k].source = v

Called(t) == HasCall(t.trace, t.info)

Answer(t) ==
    /\ t.phase \in {"ended", "suspended", "post_done", "returned"} => Called(t)
    /\ t.phase \in {"ended", "post_done", "returned"} =>
            t.end \in EndsOf(t) /\ ~t.end.raises
    /\ t.phase = "answered" /\ t.response # Failure =>
            /\ Called(t)
            /\ t.end \in EndsOf(t) /\ ~t.end.raises
            /\ t.response = Encoded(InfoOf(t), t.end)

Responses == \A i \in Begun : Answer(task[i])

\* An invocation in flight that no reload has overlapped runs with the setting
\* it began with.
Settled ==
    \A i \in Begun : task[i].undisturbed /\ InFlight(task[i]) =>
        reload = "no" /\ task[i].flag = Enabled

\* The calls of a hook in an app with the SDK d, extensions enabled or not.
Chain(on, d, hook) ==
    IF on /\ d \in ExtensibleSdks
    THEN [k \in DOMAIN Extensions(hook) |-> [call |-> hook, number |-> k, source |-> d]]
    ELSE <<>>

AppPre(t, d) == Chain(t.flag, d, "pre_invocation_app_level")
Pre(t, d) == AppPre(t, d) \o Chain(t.flag, d, "pre_invocation")
Around(t, d) == Pre(t, d) \o CallOf(t)
Post(t, d) == Around(t, d) \o Chain(t.flag, d, "post_invocation")
Full(t, d) == Post(t, d) \o Chain(t.flag, d, "post_invocation_app_level")

\* What such an invocation has called at each of its phases.
Trace(t, d) ==
    \/ t.phase \in {"pooled", "answered"} /\ t.trace = <<>>
    \/ /\ t.flag => d # Nil
       /\ \/ t.phase = "app_pre_done" /\ t.trace = AppPre(t, d)
          \/ t.phase = "pre_done" /\ t.trace = Pre(t, d)
          \/ t.phase \in {"suspended", "ended"} /\ t.trace = Around(t, d)
          \/ t.phase = "post_done" /\ t.trace = Post(t, d)
          \/ t.phase = "returned" /\ ~t.end.raises /\ t.trace = Full(t, d)
          \/ t.phase \in {"raised", "answered"} /\ t.end.raises /\ t.trace = Around(t, d)
          \/ t.phase = "answered" /\ ~t.end.raises /\ t.trace = Full(t, d)

Progress == \A i \in Begun : task[i].undisturbed => Trace(task[i], detected)

IInv == Types /\ Bounded /\ Clients /\ Sources /\ Responses /\ Settled /\ Progress

(* The operators **********************************************************)

LEMMA Detection ==
    ASSUME Types
    PROVE  /\ Detected \in Versions \cup {Nil}
           /\ detected # Nil => Detected = detected
           /\ Enabled \in BOOLEAN
           /\ Enabled => Detected \in Versions /\ Detected # Nil
           /\ ~Enabled => Detected = detected
  BY NilAssumption, SettingsAssumption, BoundsAssumption DEF Types, Detected, Enabled, Versions

\* The calls of a hook are calls, all of the SDK that was detected.
LEMMA Chains ==
    ASSUME NEW on \in BOOLEAN, NEW d \in Versions \cup {Nil}, on => d # Nil, NEW hook \in Hooks
    PROVE  /\ Chain(on, d, hook) \in Seq(CallSet)
           /\ FromDetected(Chain(on, d, hook), d)
           /\ \A k \in DOMAIN Chain(on, d, hook) : Chain(on, d, hook)[k].call = hook
  <1>1. CASE on /\ d \in ExtensibleSdks
    <2> DEFINE n == Len(Extensions(hook))
    <2>1. n \in Nat /\ DOMAIN Extensions(hook) = 1..n
      BY ExtensionsAssumption
    <2>2. \A k \in 1..n : [call |-> hook, number |-> k, source |-> d] \in CallSet
      BY <1>1 DEF CallSet
    <2>3. Chain(on, d, hook) = [k \in 1..n |-> [call |-> hook, number |-> k, source |-> d]]
      BY <1>1, <2>1 DEF Chain
    <2> HIDE DEF n
    <2> DEFINE c == Chain(on, d, hook)
    <2>4. c \in [1..n -> CallSet]
      BY <2>2, <2>3
    <2>5. c \in Seq(CallSet) /\ DOMAIN c = 1..n
      BY <2>1, <2>4
    <2>6. \A k \in 1..n : c[k].call = hook /\ c[k].source = d
      BY <2>3
    <2> QED
      BY <1>1, <2>5, <2>6 DEF FromDetected
  <1>2. CASE ~(on /\ d \in ExtensibleSdks)
    BY <1>2 DEF Chain, FromDetected
  <1> QED
    BY <1>1, <1>2

LEMMA CallsAreChains ==
    ASSUME Types, NEW hook \in Hooks
    PROVE  /\ Calls(hook) = Chain(Enabled, Detected, hook)
           /\ Calls(hook) \in Seq(CallSet)
           /\ FromDetected(Calls(hook), Detected)
  <1>1. Calls(hook) = Chain(Enabled, Detected, hook)
    BY DEF Calls, Chain
  <1> QED
    BY <1>1, Detection, Chains

LEMMA OneCall ==
    ASSUME NEW t, t.info \in Versions
    PROVE  CallOf(t) \in Seq(CallSet)
  BY DEF CallOf, CallSet

\* What is appended to a trace leaves the calls in it where they are.
LEMMA Appended ==
    ASSUME NEW s \in Seq(CallSet), NEW r \in Seq(CallSet)
    PROVE  /\ s \o r \in Seq(CallSet)
           /\ Len(s \o r) = Len(s) + Len(r)
           /\ \A k \in DOMAIN (s \o r) :
                \/ k \in DOMAIN s /\ (s \o r)[k] = s[k]
                \/ k - Len(s) \in DOMAIN r /\ (s \o r)[k] = r[k - Len(s)]
           /\ \A k \in DOMAIN s : k \in DOMAIN (s \o r) /\ (s \o r)[k] = s[k]
           /\ \A k \in DOMAIN r : k + Len(s) \in DOMAIN (s \o r) /\ (s \o r)[k + Len(s)] = r[k]
  OBVIOUS

LEMMA AppendedFrom ==
    ASSUME NEW s \in Seq(CallSet), NEW r \in Seq(CallSet), NEW d,
           FromDetected(s, d), FromDetected(r, d)
    PROVE  FromDetected(s \o r, d)
  BY Appended DEF FromDetected

\* A task as a step of its own leaves it.
With(t, p, s, e, r) == [t EXCEPT !.phase = p, !.trace = s, !.end = e, !.response = r]

LEMMA TaskUpdated ==
    ASSUME NEW t \in TaskSet, NEW p \in Started, NEW s \in Seq(CallSet),
           NEW e \in Ends, NEW r \in ResponseSet
    PROVE  /\ With(t, p, s, e, r) \in TaskSet
           /\ With(t, p, s, e, r).phase = p
           /\ With(t, p, s, e, r).trace = s
           /\ With(t, p, s, e, r).end = e
           /\ With(t, p, s, e, r).response = r
           /\ With(t, p, s, e, r).function = t.function
           /\ With(t, p, s, e, r).info = t.info
           /\ With(t, p, s, e, r).input = t.input
           /\ With(t, p, s, e, r).client = t.client
           /\ With(t, p, s, e, r).undisturbed = t.undisturbed
           /\ With(t, p, s, e, r).flag = t.flag
  BY DEF With, TaskSet

LEMMA TaskFields ==
    ASSUME NEW t \in TaskSet
    PROVE  /\ t.phase \in Started /\ t.phase # "absent"
           /\ t.function \in Functions /\ t.info \in Versions
           /\ t.input \in Inputs /\ t.client \in Nat \cup {Nil}
           /\ t.trace \in Seq(CallSet)
           /\ t.undisturbed \in BOOLEAN /\ t.flag \in BOOLEAN
           /\ t.end \in Ends /\ t.response \in ResponseSet
           /\ t # NoTask
  <1>1. t.phase # "absent"
    BY DEF TaskSet, Started
  <1>2. NoTask.phase = "absent"
    BY DEF NoTask
  <1> QED
    BY <1>1, <1>2 DEF TaskSet

LEMMA ATask ==
    ASSUME Types, NEW i \in Invocations, task[i].phase # "absent"
    PROVE  task[i] \in TaskSet
  BY DEF Types, NoTask

LEMMA EndsAreEnds ==
    ASSUME NEW t \in TaskSet, NEW end \in EndsOf(t)
    PROVE  end \in Ends
  <1> DEFINE r == [function |-> t.function, info |-> t.info]
  <1>1. EndsOf(t) = EndsOf(r)
    BY DEF EndsOf, InfoOf
  <1>2. t.function \in Functions /\ t.info \in Versions
    BY TaskFields
  <1>3. end \in UNION {EndsOf([function |-> f, info |-> v]) : f \in Functions, v \in Versions}
    <2> HIDE DEF EndsOf
    <2> QED BY <1>1, <1>2
  <1> QED
    BY <1>3 DEF Ends

LEMMA EncodedTyped ==
    ASSUME NEW t \in TaskSet, NEW end \in Ends
    PROVE  Encoded(InfoOf(t), end) \in ResponseSet
  <1>1. t.function \in Functions /\ t.info \in Versions
    BY TaskFields
  <1> QED
    BY <1>1 DEF ResponseSet, InfoOf

(* Steps ******************************************************************)

\* What a step of invocation i leaves alone, of the state and of its task.
OwnStep(i, u) ==
    /\ task' = [task EXCEPT ![i] = u]
    /\ UNCHANGED <<version, sdk, registry, flag, ready, reload>>
    /\ detected' \in {detected, Detected}

SameStart(t, u) ==
    /\ u.function = t.function /\ u.info = t.info /\ u.input = t.input
    /\ u.client = t.client /\ u.undisturbed = t.undisturbed /\ u.flag = t.flag

\* A step in the pool that calls a hook.
Hooked(t, u, before, hook, after) ==
    /\ t.phase = before /\ u.phase = after
    /\ u.trace = t.trace \o Calls(hook) /\ detected' = Detected
    /\ u.end = t.end /\ u.response = t.response

Ended(t, u) ==
    /\ t.phase = "pre_done" /\ u.phase \in {"raised", "ended"}
    /\ u.end \in EndsOf(t) /\ (u.phase = "raised" <=> u.end.raises)
    /\ u.trace = t.trace \o CallOf(t) /\ detected' = detected
    /\ u.response = t.response

Responded(t, u) ==
    /\ t.phase \in {"returned", "raised"} /\ u.phase = "answered"
    /\ u.end = t.end /\ u.trace = t.trace /\ u.response = Response(t)
    /\ detected' = detected

AsyncEnded(t, u) ==
    /\ t.phase = "suspended" /\ u.phase = "answered"
    /\ u.end \in EndsOf(t)
    /\ \/ /\ u.end.raises
          /\ u.trace = t.trace /\ u.response = Failure /\ detected' = detected
       \/ /\ ~u.end.raises
          /\ u.trace = (t.trace \o Calls("post_invocation"))
                            \o Calls("post_invocation_app_level")
          /\ u.response = Encoded(InfoOf(t), u.end) /\ detected' = Detected

Moved(t, u) ==
    \/ Hooked(t, u, "pooled", "pre_invocation_app_level", "app_pre_done")
    \/ Hooked(t, u, "app_pre_done", "pre_invocation", "pre_done")
    \/ Ended(t, u)
    \/ Hooked(t, u, "ended", "post_invocation", "post_done")
    \/ Hooked(t, u, "post_done", "post_invocation_app_level", "returned")
    \/ Responded(t, u)
    \/ AsyncEnded(t, u)

Move(i, u) ==
    /\ task[i] \in TaskSet /\ u \in TaskSet
    /\ OwnStep(i, u) /\ cache' = cache
    /\ SameStart(task[i], u)
    /\ Moved(task[i], u)

LEMMA HookMoves ==
    ASSUME Types, NEW i \in Invocations, NEW before \in Started, NEW hook \in Hooks,
           NEW after \in Started, ThreadHook(i, before, hook, after)
    PROVE  \E u \in TaskSet :
                /\ task[i] \in TaskSet /\ OwnStep(i, u) /\ cache' = cache
                /\ SameStart(task[i], u) /\ Hooked(task[i], u, before, hook, after)
  <1> DEFINE t == task[i]
             s == t.trace \o Calls(hook)
             u == With(t, after, s, t.end, t.response)
  <1>1. t \in TaskSet
    BY ATask DEF ThreadHook, Started
  <1>2. s \in Seq(CallSet)
    BY <1>1, CallsAreChains, TaskFields, Appended
  <1>3. [t EXCEPT !.phase = after, !.trace = @ \o Calls(hook)] = u
    BY <1>1 DEF With, TaskSet
  <1>5. OwnStep(i, u) /\ cache' = cache
    BY <1>3 DEF ThreadHook, Become, OwnStep
  <1>6. s = t.trace \o Calls(hook)
    OBVIOUS
  <1> HIDE DEF s
  <1>8. t.end \in Ends /\ t.response \in ResponseSet
    BY <1>1, TaskFields
  <1>4. u \in TaskSet /\ SameStart(t, u) /\ u.phase = after /\ u.trace = s
            /\ u.end = t.end /\ u.response = t.response
    BY <1>1, <1>2, <1>8, TaskUpdated DEF SameStart
  <1> HIDE DEF u
  <1>7. Hooked(t, u, before, hook, after)
    BY <1>4, <1>6 DEF Hooked, ThreadHook
  <1> QED
    BY <1>1, <1>4, <1>5, <1>7

LEMMA ThreadCallMoves ==
    ASSUME Types, NEW i \in Invocations, ThreadCalls(i)
    PROVE  \E u \in TaskSet : Move(i, u)
  <1> DEFINE t == task[i]
             s == t.trace \o CallOf(t)
  <1>1. t \in TaskSet
    BY ATask DEF ThreadCalls
  <1>2. PICK end \in EndsOf(t) :
            Become(i, [t EXCEPT !.phase = IF end.raises THEN "raised" ELSE "ended",
                                !.end = end, !.trace = @ \o CallOf(t)])
    BY DEF ThreadCalls
  <1> DEFINE p == IF end.raises THEN "raised" ELSE "ended"
             u == With(t, p, s, end, t.response)
  <1>3. s \in Seq(CallSet) /\ end \in Ends /\ p \in Started
    BY <1>1, OneCall, TaskFields, Appended, EndsAreEnds DEF Started, Phases, InThread
  <1>4. [t EXCEPT !.phase = p, !.end = end, !.trace = @ \o CallOf(t)] = u
    BY <1>1 DEF With, TaskSet
  <1>7. OwnStep(i, u) /\ cache' = cache /\ detected' = detected /\ t.phase = "pre_done"
    BY <1>2, <1>4 DEF ThreadCalls, Become, OwnStep
  <1>8. p \in {"raised", "ended"} /\ (p = "raised" <=> end.raises)
    OBVIOUS
  <1>9. s = t.trace \o CallOf(t)
    OBVIOUS
  <1> HIDE DEF p, s
  <1>5. u \in TaskSet /\ SameStart(t, u)
    BY <1>1, <1>3, TaskFields, TaskUpdated DEF SameStart
  <1>10. u.phase = p /\ u.end = end /\ u.trace = s /\ u.response = t.response
    BY <1>1, <1>3, TaskFields, TaskUpdated
  <1> HIDE DEF u
  <1>6. Ended(t, u)
    BY <1>7, <1>8, <1>9, <1>10 DEF Ended
  <1> QED
    BY <1>1, <1>5, <1>6, <1>7 DEF Move, Moved

LEMMA RespondMoves ==
    ASSUME Types, NEW i \in Invocations, Respond(i)
    PROVE  \E u \in TaskSet : Move(i, u)
  <1> DEFINE t == task[i]
             u == With(t, "answered", t.trace, t.end, Response(t))
  <1>1. t \in TaskSet
    BY ATask DEF Respond
  <1>2. Response(t) \in ResponseSet
    BY <1>1, TaskFields, EncodedTyped DEF Response, ResponseSet
  <1>3. Answered(t) = u
    BY <1>1 DEF With, TaskSet, Answered
  <1>4. "answered" \in Started
    BY DEF Started, Phases
  <1>5. u \in TaskSet /\ SameStart(t, u) /\ Responded(t, u)
    BY <1>1, <1>2, <1>4, TaskFields, TaskUpdated DEF SameStart, Responded, Respond
  <1>6. OwnStep(i, u) /\ cache' = cache
    BY <1>3 DEF Respond, Become, OwnStep
  <1> HIDE DEF u
  <1> QED
    BY <1>1, <1>5, <1>6 DEF Move, Moved

LEMMA AsyncMoves ==
    ASSUME Types, NEW i \in Invocations, AsyncFunctionEnds(i)
    PROVE  \E u \in TaskSet : Move(i, u)
  <1> DEFINE t == task[i]
             hooks == t.trace \o Calls("post_invocation") \o Calls("post_invocation_app_level")
  <1>1. t \in TaskSet /\ t.phase = "suspended"
    BY ATask DEF AsyncFunctionEnds
  <1>2. PICK end \in EndsOf(t) :
            IF end.raises
            THEN /\ Become(i, Answered([t EXCEPT !.phase = "raised", !.end = end]))
                 /\ UNCHANGED detected
            ELSE /\ Become(i, Answered([t EXCEPT !.end = end,
                        !.trace = @ \o Calls("post_invocation")
                                    \o Calls("post_invocation_app_level")]))
                 /\ detected' = Detected
    BY DEF AsyncFunctionEnds
  <1>3. end \in Ends /\ {"answered", "raised", "suspended"} \subseteq Started
    BY <1>1, EndsAreEnds DEF Started, Phases
  <1>4. CASE end.raises
    <2> DEFINE v == With(t, "raised", t.trace, end, t.response)
               u == With(v, "answered", t.trace, end, Failure)
    <2>1. [t EXCEPT !.phase = "raised", !.end = end] = v
      BY <1>1 DEF With, TaskSet
    <2>2. v \in TaskSet /\ SameStart(t, v) /\ v.phase = "raised" /\ v.trace = t.trace /\ v.end = end
      BY <1>1, <1>3, TaskFields, TaskUpdated DEF SameStart
    <2> HIDE DEF v
    <2>3. Answered(v) = u
      BY <2>2 DEF With, TaskSet, Answered, Response
    <2>4. Failure \in ResponseSet
      BY DEF ResponseSet
    <2>5. u \in TaskSet /\ SameStart(v, u) /\ u.phase = "answered" /\ u.trace = t.trace
            /\ u.end = end /\ u.response = Failure
      BY SMTT(60), <1>1, <1>3, <2>2, <2>4, TaskFields, TaskUpdated DEF SameStart
    <2>6. OwnStep(i, u) /\ cache' = cache /\ detected' = detected
      BY <1>2, <1>4, <2>1, <2>3 DEF AsyncFunctionEnds, Become, OwnStep
    <2> HIDE DEF u
    <2>7. SameStart(t, u)
      BY <2>2, <2>5 DEF SameStart
    <2>8. AsyncEnded(t, u)
      BY <1>1, <1>4, <2>5, <2>6 DEF AsyncEnded
    <2> QED
      BY <1>1, <2>5, <2>6, <2>7, <2>8 DEF Move, Moved
  <1>5. CASE ~end.raises
    <2> DEFINE v == With(t, "suspended", hooks, end, t.response)
               u == With(v, "answered", hooks, end, Encoded(InfoOf(t), end))
    <2>1. [t EXCEPT !.end = end, !.trace = @ \o Calls("post_invocation")
                                    \o Calls("post_invocation_app_level")] = v
      BY <1>1 DEF With, TaskSet
    <2>2. hooks \in Seq(CallSet)
      <3>1. t.trace \o Calls("post_invocation") \in Seq(CallSet)
        BY <1>1, CallsAreChains, TaskFields, Appended DEF Hooks
      <3> QED
        BY <3>1, CallsAreChains, Appended DEF Hooks
    <2> HIDE DEF hooks
    <2>3. v \in TaskSet /\ SameStart(t, v) /\ v.phase = "suspended" /\ v.trace = hooks /\ v.end = end
      BY <1>1, <1>3, <2>2, TaskFields, TaskUpdated DEF SameStart
    <2> HIDE DEF v
    <2>4. InfoOf(v) = InfoOf(t)
      BY <2>3 DEF InfoOf, SameStart
    <2>5. Response(v) = Encoded(InfoOf(t), end)
      BY <2>3, <2>4 DEF Response
    <2>6. Answered(v) = u
      BY <2>3, <2>5 DEF With, TaskSet, Answered
    <2>7. Encoded(InfoOf(t), end) \in ResponseSet
      BY <1>1, <1>3, EncodedTyped
    <2>8. u \in TaskSet /\ SameStart(v, u) /\ u.phase = "answered" /\ u.trace = hooks
            /\ u.end = end /\ u.response = Encoded(InfoOf(t), end)
      BY <1>1, <1>3, <2>2, <2>3, <2>7, TaskFields, TaskUpdated DEF SameStart
    <2>9. OwnStep(i, u) /\ cache' = cache /\ detected' = Detected
      BY <1>2, <1>5, <2>1, <2>6 DEF AsyncFunctionEnds, Become, OwnStep
    <2> HIDE DEF u
    <2>10. SameStart(t, u)
      BY <2>3, <2>8 DEF SameStart
    <2>11. AsyncEnded(t, u)
      BY <1>1, <1>5, <2>8, <2>9 DEF AsyncEnded, hooks
    <2> QED
      BY <1>1, <2>8, <2>9, <2>10, <2>11 DEF Move, Moved
  <1> QED
    BY <1>4, <1>5

LEMMA Moves ==
    ASSUME Types, NEW i \in Invocations, SyncStep(i) \/ Respond(i) \/ AsyncFunctionEnds(i)
    PROVE  \E u \in TaskSet : Move(i, u)
  <1>1. {"pooled", "app_pre_done", "pre_done", "ended", "post_done", "returned"} \subseteq Started
    BY DEF Started, Phases, InThread
  <1>2. CASE ThreadHook(i, "pooled", "pre_invocation_app_level", "app_pre_done")
    BY <1>1, <1>2, HookMoves DEF Hooks, Move, Moved
  <1>3. CASE ThreadHook(i, "app_pre_done", "pre_invocation", "pre_done")
    BY <1>1, <1>3, HookMoves DEF Hooks, Move, Moved
  <1>4. CASE ThreadHook(i, "ended", "post_invocation", "post_done")
    BY <1>1, <1>4, HookMoves DEF Hooks, Move, Moved
  <1>5. CASE ThreadHook(i, "post_done", "post_invocation_app_level", "returned")
    BY <1>1, <1>5, HookMoves DEF Hooks, Move, Moved
  <1> QED
    BY <1>2, <1>3, <1>4, <1>5, ThreadCallMoves, RespondMoves, AsyncMoves DEF SyncStep

(* How an invocation begins ***********************************************)

\* There are at most as many clients as invocations that have begun.
LEMMA FiniteKeys ==
    ASSUME Types, Clients
    PROVE  /\ IsFiniteSet(Keys) /\ IsFiniteSet(Begun)
           /\ Cardinality(Keys) \in Nat
           /\ Cardinality(Keys) <= Cardinality(Begun)
           /\ Cardinality(Begun) <= Cardinality(Invocations)
  <1>1. IsFiniteSet(Begun) /\ Cardinality(Begun) <= Cardinality(Invocations)
    BY BoundsAssumption, FS_Subset DEF Begun
  <1> DEFINE ks == {KeyOf(task[i]) : i \in Begun}
  <1>2. IsFiniteSet(ks) /\ Cardinality(ks) <= Cardinality(Begun)
    <2> DEFINE g == [i \in Begun |-> KeyOf(task[i])]
    <2>1. g \in Surjection(Begun, ks)
      BY DEF Surjection
    <2> QED
      BY <1>1, <2>1, FS_Surjection
  <1>3. Keys \subseteq ks
    BY DEF Clients
  <1>4. IsFiniteSet(Keys) /\ Cardinality(Keys) <= Cardinality(ks)
    BY <1>2, <1>3, FS_Subset
  <1> QED
    BY <1>1, <1>2, <1>4, FS_CardinalityType

\* What an invocation starts with.
Starts(i, f, input, u) ==
    /\ task[i] = NoTask /\ reload = "no"
    /\ OwnStep(i, u)
    /\ u.function = f /\ u.info = registry[f] /\ u.input = input
    /\ u.undisturbed = TRUE /\ u.flag = Enabled
    /\ u.end = Nil /\ u.response = Failure

Rejected(u) ==
    /\ u.phase = "answered" /\ u.trace = <<>> /\ u.client = Nil
    /\ UNCHANGED <<cache, detected>>

Accepted(f, input, u) ==
    /\ u.client = Client(f, registry[f], input)
    /\ cache' = Cached(f, registry[f], input)
    /\ \/ /\ u.phase = "pooled" /\ u.trace = <<>>
          /\ UNCHANGED detected
       \/ /\ u.phase = "suspended"
          /\ u.trace = (Calls("pre_invocation_app_level") \o Calls("pre_invocation"))
                            \o CallOf(u)
          /\ detected' = Detected

LEMMA NewTaskTyped ==
    ASSUME Types, NEW i \in Invocations, NEW f \in Functions, NEW input \in Inputs
    PROVE  LET n == NewTask(i, f, input)
           IN /\ n \in TaskSet
              /\ n.function = f /\ n.info = registry[f] /\ n.input = input
              /\ n.client = Nil /\ n.trace = <<>> /\ n.undisturbed = TRUE
              /\ n.flag = Enabled /\ n.end = Nil /\ n.response = Failure
  <1>1. Enabled \in BOOLEAN /\ registry[f] \in Versions
    BY Detection DEF Types
  <1>2. Nil \in Ends /\ Failure \in ResponseSet /\ "pooled" \in Started
    BY DEF Ends, ResponseSet, Started, Phases, InThread
  <1>3. <<>> \in Seq(CallSet)
    OBVIOUS
  <1> QED
    BY <1>1, <1>2, <1>3 DEF NewTask, TaskSet

LEMMA BeginFailsStarts ==
    ASSUME Types, NEW i \in Invocations, NEW f \in Functions, NEW input \in Inputs,
           BeginFails(i, f, input)
    PROVE  \E u \in TaskSet : Starts(i, f, input, u) /\ Rejected(u)
  <1> DEFINE n == NewTask(i, f, input)
             s == n.trace
             u == With(n, "answered", s, Nil, Failure)
  <1>1. /\ n \in TaskSet
        /\ n.function = f /\ n.info = registry[f] /\ n.input = input
        /\ n.client = Nil /\ n.trace = <<>> /\ n.undisturbed = TRUE
        /\ n.flag = Enabled /\ n.end = Nil /\ n.response = Failure
    BY NewTaskTyped DEF NewTask
  <1> HIDE DEF n
  <1>2. [n EXCEPT !.phase = "answered"] = u
    BY <1>1 DEF With, TaskSet
  <1>3. OwnStep(i, u) /\ task[i] = NoTask /\ reload = "no" /\ UNCHANGED <<cache, detected>>
    BY <1>2 DEF BeginFails, Become, OwnStep, LoopRuns, n
  <1>4. "answered" \in Started /\ Nil \in Ends /\ Failure \in ResponseSet
    BY DEF Started, Phases, Ends, ResponseSet
  <1>5. /\ u \in TaskSet /\ u.phase = "answered" /\ u.trace = s /\ u.client = Nil
        /\ u.function = f /\ u.info = registry[f] /\ u.input = input
        /\ u.undisturbed = TRUE /\ u.flag = Enabled
        /\ u.end = Nil /\ u.response = Failure
    BY <1>1, <1>4, TaskFields, TaskUpdated
  <1> HIDE DEF u
  <1> QED
    BY <1>1, <1>3, <1>5 DEF Starts, Rejected

LEMMA BeginStarts ==
    ASSUME Types, Clients, NEW i \in Invocations, NEW f \in Functions, NEW input \in Inputs,
           Begin(i, f, input)
    PROVE  \E u \in TaskSet : Starts(i, f, input, u) /\ Accepted(f, input, u)
  <1> DEFINE n == NewTask(i, f, input)
             c == Client(f, registry[f], input)
             t == [n EXCEPT !.client = c]
  <1>1. /\ n \in TaskSet
        /\ n.function = f /\ n.info = registry[f] /\ n.input = input
        /\ n.client = Nil /\ n.trace = <<>> /\ n.undisturbed = TRUE
        /\ n.flag = Enabled /\ n.end = Nil /\ n.response = Failure /\ n.phase = "pooled"
    BY NewTaskTyped DEF NewTask
  <1>2. c \in Nat \cup {Nil}
    BY FiniteKeys DEF Client, Types
  <1>3. /\ task[i] = NoTask /\ reload = "no"
        /\ UNCHANGED <<version, sdk, registry, flag, ready, reload>>
        /\ cache' = Cached(f, registry[f], input)
        /\ IF InfoOf(t).is_async
           THEN /\ Become(i, [t EXCEPT !.phase = "suspended",
                                !.trace = Calls("pre_invocation_app_level")
                                            \o Calls("pre_invocation") \o CallOf(t)])
                /\ detected' = Detected
           ELSE /\ Become(i, t)
                /\ UNCHANGED detected
    BY DEF Begin, LoopRuns
  <1>4. c = Client(f, registry[f], input)
    OBVIOUS
  <1> HIDE DEF n, c
  <1>5. /\ t \in TaskSet /\ t.client = c
        /\ t.function = f /\ t.info = registry[f] /\ t.input = input
        /\ t.trace = <<>> /\ t.undisturbed = TRUE
        /\ t.flag = Enabled /\ t.end = Nil /\ t.response = Failure /\ t.phase = "pooled"
    BY <1>1, <1>2 DEF TaskSet
  <1> HIDE DEF t
  <1>6. CASE ~InfoOf(t).is_async
    <2>1. OwnStep(i, t) /\ detected' = detected
      BY <1>3, <1>6 DEF OwnStep, Become
    <2> QED
      BY <1>3, <1>4, <1>5, <2>1 DEF Starts, Accepted
  <1>7. CASE InfoOf(t).is_async
    <2> DEFINE s == (Calls("pre_invocation_app_level") \o Calls("pre_invocation")) \o CallOf(t)
               u == With(t, "suspended", s, Nil, Failure)
    <2>1. s \in Seq(CallSet)
      <3>1. Calls("pre_invocation_app_level") \o Calls("pre_invocation") \in Seq(CallSet)
        BY CallsAreChains, Appended DEF Hooks
      <3>2. CallOf(t) \in Seq(CallSet)
        BY <1>5, TaskFields, OneCall
      <3> QED
        BY <3>1, <3>2, Appended
    <2>2. [t EXCEPT !.phase = "suspended",
                    !.trace = Calls("pre_invocation_app_level")
                                 \o Calls("pre_invocation") \o CallOf(t)] = u
      BY <1>5 DEF With, TaskSet
    <2>3. OwnStep(i, u) /\ detected' = Detected
      BY <1>3, <1>7, <2>2 DEF OwnStep, Become
    <2>4. s = (Calls("pre_invocation_app_level") \o Calls("pre_invocation")) \o CallOf(t)
      OBVIOUS
    <2>5. "suspended" \in Started /\ Nil \in Ends /\ Failure \in ResponseSet
      BY DEF Started, Phases, Ends, ResponseSet
    <2> HIDE DEF s
    <2>6. /\ u \in TaskSet /\ u.phase = "suspended" /\ u.trace = s /\ u.client = c
          /\ u.function = f /\ u.info = registry[f] /\ u.input = input
          /\ u.undisturbed = TRUE /\ u.flag = Enabled
          /\ u.end = Nil /\ u.response = Failure
      BY <1>5, <2>1, <2>5, TaskUpdated
    <2> HIDE DEF u
    <2>7. CallOf(u) = CallOf(t)
      BY <1>5, <2>6 DEF CallOf
    <2> QED
      BY <1>3, <1>4, <2>3, <2>4, <2>6, <2>7 DEF Starts, Accepted
  <1> QED
    BY <1>6, <1>7

(* The steps, by what they do to the tasks ********************************)

\* A reload marks the tasks in flight, and changes nothing else of them.
Marked(t, w) ==
    /\ w \in TaskSet
    /\ w.function = t.function /\ w.info = t.info /\ w.input = t.input
    /\ w.client = t.client /\ w.flag = t.flag
    /\ w.phase = t.phase /\ w.trace = t.trace
    /\ w.end = t.end /\ w.response = t.response
    /\ w.undisturbed => w = t /\ ~InFlight(t)

LEMMA ReloadMarks ==
    ASSUME Types, ReloadClears
    PROVE  /\ task' \in [Invocations -> TaskSet \cup {NoTask}]
           /\ Begun' = Begun
           /\ \A i \in Begun : Marked(task[i], task'[i])
  <1>1. \A i \in Invocations :
            task'[i] = IF InFlight(task[i]) THEN [task[i] EXCEPT !.undisturbed = FALSE]
                                            ELSE task[i]
    BY DEF ReloadClears
  <1>2. ASSUME NEW i \in Begun
        PROVE  Marked(task[i], task'[i])
    <2>1. task[i] \in TaskSet /\ i \in Invocations
      BY ATask DEF Begun
    <2> DEFINE t == task[i]
               w == [t EXCEPT !.undisturbed = FALSE]
    <2>2. /\ w \in TaskSet /\ w.undisturbed = FALSE
          /\ w.function = t.function /\ w.info = t.info /\ w.input = t.input
          /\ w.client = t.client /\ w.flag = t.flag
          /\ w.phase = t.phase /\ w.trace = t.trace
          /\ w.end = t.end /\ w.response = t.response
      BY <2>1 DEF TaskSet
    <2>5. CASE InFlight(t)
      <3>1. task'[i] = w
        BY <1>1, <2>1, <2>5
      <3> HIDE DEF w
      <3> QED
        BY <2>2, <3>1 DEF Marked
    <2>6. CASE ~InFlight(t)
      <3>1. task'[i] = t
        BY <1>1, <2>1, <2>6
      <3> QED
        BY <2>1, <2>6, <3>1 DEF Marked
    <2> QED
      BY <2>5, <2>6
  <1>3. \A i \in Invocations \ Begun : task'[i] = NoTask /\ task[i] = NoTask
    BY <1>1 DEF Types, Begun, InFlight, TaskSet, Started
  <1>4. \A i \in Invocations : task'[i] \in TaskSet \cup {NoTask}
    BY <1>2, <1>3 DEF Marked, Begun
  <1>5. task' \in [Invocations -> TaskSet \cup {NoTask}]
    BY <1>4 DEF ReloadClears
  <1>6. Begun' = Begun
    <2>1. \A i \in Invocations : task'[i].phase = task[i].phase
      BY <1>2, <1>3 DEF Marked
    <2> QED
      BY <2>1 DEF Begun
  <1> QED
    BY <1>2, <1>5, <1>6

Begins(i, f, input, u) ==
    Starts(i, f, input, u) /\ (Rejected(u) \/ Accepted(f, input, u))

LEMMA StepKinds ==
    ASSUME Types, Clients, [Next]_vars
    PROVE  \/ \E i \in Invocations, f \in Functions, input \in Inputs, u \in TaskSet :
                    Begins(i, f, input, u)
           \/ \E i \in Invocations, u \in TaskSet : Move(i, u)
           \/ \E f \in Functions : FunctionLoad(f)
           \/ ReloadClears \/ ReloadSets \/ ReloadEnds
           \/ IndexFunctions
           \/ UNCHANGED vars
  <1>1. ASSUME NEW i \in Invocations, NEW f \in Functions, NEW input \in Inputs,
               Begin(i, f, input) \/ BeginFails(i, f, input)
        PROVE  \E u \in TaskSet : Begins(i, f, input, u)
    BY <1>1, BeginStarts, BeginFailsStarts DEF Begins
  <1>2. ASSUME NEW i \in Invocations, SyncStep(i) \/ Respond(i) \/ AsyncFunctionEnds(i)
        PROVE  \E u \in TaskSet : Move(i, u)
    BY <1>2, Moves
  <1> QED
    BY <1>1, <1>2 DEF Next

\* The tasks after an invocation has begun, and after a move of one.
LEMMA AfterBegins ==
    ASSUME Types, NEW i \in Invocations, NEW f, NEW input, NEW u \in TaskSet,
           Starts(i, f, input, u)
    PROVE  /\ i \notin Begun /\ Begun' = Begun \cup {i}
           /\ task'[i] = u
           /\ \A j \in Begun : task'[j] = task[j]
           /\ task' \in [Invocations -> TaskSet \cup {NoTask}]
           /\ Enabled' = Enabled
  <1>1. task[i].phase = "absent" /\ u.phase # "absent"
    BY TaskFields DEF Starts, NoTask
  <1> QED
    BY <1>1 DEF Starts, OwnStep, Types, Begun, Enabled

LEMMA AfterMove ==
    ASSUME Types, NEW i \in Invocations, NEW u \in TaskSet, Move(i, u)
    PROVE  /\ i \in Begun /\ Begun' = Begun
           /\ task'[i] = u
           /\ \A j \in Begun : j # i => task'[j] = task[j]
           /\ task' \in [Invocations -> TaskSet \cup {NoTask}]
           /\ Enabled' = Enabled
  <1>1. task[i].phase # "absent" /\ u.phase # "absent"
    BY TaskFields DEF Move
  <1> QED
    BY <1>1 DEF Move, OwnStep, Types, Begun, Enabled

LEMMA InBegun ==
    ASSUME Types, NEW i \in Begun
    PROVE  task[i] \in TaskSet /\ i \in Invocations
  BY ATask DEF Begun

(* Types ******************************************************************)

LEMMA NextTypes ==
    ASSUME Types, Bounded, Clients, [Next]_vars
    PROVE  Types' /\ Bounded'
  <1>1. ASSUME NEW i \in Invocations, NEW f \in Functions, NEW input \in Inputs,
               NEW u \in TaskSet, Begins(i, f, input, u)
        PROVE  Types' /\ Bounded'
    <2>1. task' \in [Invocations -> TaskSet \cup {NoTask}]
      BY <1>1, AfterBegins DEF Begins
    <2>2. Bounded'
      BY <1>1 DEF Bounded, Begins, Starts, OwnStep
    <2>3. detected' \in Versions \cup {Nil}
      BY <1>1, Detection DEF Begins, Starts, OwnStep, Types
    <2>4. cache' \in [DOMAIN cache' -> Nat]
      <3>1. CASE Rejected(u)
        BY <3>1 DEF Rejected, Types, Keys
      <3>2. CASE Accepted(f, input, u)
        <4> DEFINE v == registry[f]
                   key == Key(f, v, input)
        <4>1. CASE ~Info(f, v).deferred
          BY <3>2, <4>1 DEF Accepted, Cached, Types, Keys
        <4>2. CASE Info(f, v).deferred
          <5>1. Client(f, v, input) \in Nat
            BY <4>2, FiniteKeys DEF Client, Types
          <5>2. cache' = [k \in Keys \cup {key} |->
                            IF k \in Keys THEN cache[k] ELSE Client(f, v, input)]
            BY <3>2, <4>2 DEF Accepted, Cached
          <5>3. \A k \in Keys : cache[k] \in Nat
            BY DEF Types
          <5> QED
            BY <5>1, <5>2, <5>3
        <4> QED
          BY <4>1, <4>2
      <3> QED
        BY <1>1, <3>1, <3>2 DEF Begins
    <2> QED
      BY <1>1, <2>1, <2>2, <2>3, <2>4 DEF Begins, Starts, OwnStep, Types, Keys
  <1>2. ASSUME NEW i \in Invocations, NEW u \in TaskSet, Move(i, u)
        PROVE  Types' /\ Bounded'
    <2>1. task' \in [Invocations -> TaskSet \cup {NoTask}]
      BY <1>2, AfterMove
    <2>2. detected' \in Versions \cup {Nil}
      BY <1>2, Detection DEF Move, OwnStep, Types
    <2> QED
      BY <1>2, <2>1, <2>2 DEF Move, OwnStep, Types, Keys, Bounded
  <1>3. ASSUME NEW f \in Functions, FunctionLoad(f)
        PROVE  Types' /\ Bounded'
    BY <1>3, Detection DEF FunctionLoad, Types, Keys, Bounded
  <1>4. CASE ReloadClears
    <2>1. task' \in [Invocations -> TaskSet \cup {NoTask}]
      BY <1>4, ReloadMarks
    <2> QED
      BY <1>4, <2>1 DEF ReloadClears, Types, Keys, Bounded
  <1>5. CASE ReloadSets
    BY <1>5, SettingsAssumption DEF ReloadSets, Types, Keys, Bounded
  <1>6. CASE ReloadEnds
    <2>1. version \in Nat /\ version <= MaxReloads /\ version' = version + 1
      BY <1>6, BoundsAssumption DEF ReloadEnds, Types, Bounded, Versions
    <2>2. version' \in Versions
      BY <1>6, <2>1, BoundsAssumption DEF Versions, Types
    <2> QED
      BY <1>6, <2>2 DEF ReloadEnds, Types, Keys, Bounded
  <1>7. CASE IndexFunctions
    BY <1>7 DEF IndexFunctions, Types, Keys, Bounded
  <1>8. CASE UNCHANGED vars
    BY <1>8 DEF vars, Types, Keys, Bounded
  <1> QED
    BY <1>1, <1>2, <1>3, <1>4, <1>5, <1>6, <1>7, <1>8, StepKinds

(* The clients of deferred bindings ***************************************)

LEMMA SameClients ==
    ASSUME Clients, Begun' = Begun, cache' = cache,
           \A i \in Begun : /\ KeyOf(task'[i]) = KeyOf(task[i])
                            /\ task'[i].client = task[i].client
    PROVE  Clients'
  BY DEF Clients, Keys

LEMMA NextClients ==
    ASSUME Types, Clients, [Next]_vars
    PROVE  Clients'
  <1>1. ASSUME NEW i \in Invocations, NEW f \in Functions, NEW input \in Inputs,
               NEW u \in TaskSet, Begins(i, f, input, u)
        PROVE  Clients'
    <2> DEFINE v == registry[f]
               key == Key(f, v, input)
    <2>1. /\ i \notin Begun /\ Begun' = Begun \cup {i} /\ task'[i] = u
          /\ \A j \in Begun : task'[j] = task[j]
      BY <1>1, AfterBegins DEF Begins
    <2>2. KeyOf(u) = key
      BY <1>1 DEF Begins, Starts, KeyOf
    <2> HIDE DEF key
    <2>3. \A j \in Begun : KeyOf(task'[j]) = KeyOf(task[j])
      BY <2>1
    <2>4. CASE cache' = cache /\ (u.client # Nil => key \in Keys /\ u.client = cache[key])
      <3>1. Keys' = Keys
        BY <2>4 DEF Keys
      <3>2. \A k \in Keys' : \E j \in Begun' : k = KeyOf(task'[j])
        BY <2>1, <2>3, <3>1 DEF Clients
      <3>3. \A j \in Begun' : task'[j].client # Nil =>
                /\ KeyOf(task'[j]) \in Keys'
                /\ task'[j].client = cache'[KeyOf(task'[j])]
        BY <2>1, <2>2, <2>3, <2>4, <3>1 DEF Clients
      <3> QED
        BY <2>4, <3>1, <3>2, <3>3 DEF Clients
    <2>5. CASE /\ key \notin Keys
               /\ u.client = Cardinality(Keys) + 1
               /\ cache' = [k \in Keys \cup {key} |->
                                IF k \in Keys THEN cache[k] ELSE Cardinality(Keys) + 1]
      <3> DEFINE n == Cardinality(Keys)
      <3>1. IsFiniteSet(Keys) /\ n \in Nat
        BY FiniteKeys
      <3>2. Keys' = Keys \cup {key}
        BY <2>5 DEF Keys
      <3>3. Cardinality(Keys') = n + 1
        BY <2>5, <3>1, <3>2, FS_AddElement
      <3>4. /\ \A k \in Keys : cache'[k] = cache[k]
            /\ cache'[key] = n + 1
        BY <2>5
      <3>5. \A k \in Keys : cache[k] \in 1..n
        BY DEF Clients
      <3> HIDE DEF n
      <3>6. \A k \in Keys' : \E j \in Begun' : k = KeyOf(task'[j])
        BY <2>1, <2>2, <2>3, <3>2 DEF Clients
      <3>7. \A k \in Keys' : cache'[k] \in 1..(n + 1)
        BY <3>1, <3>2, <3>4, <3>5
      <3>8. ASSUME NEW k \in Keys', NEW l \in Keys', cache'[k] = cache'[l]
            PROVE  k = l
        <4>1. CASE k \in Keys /\ l \in Keys
          BY <3>4, <3>8, <4>1 DEF Clients
        <4>2. CASE k \notin Keys \/ l \notin Keys
          BY <3>1, <3>2, <3>4, <3>5, <3>8, <4>2
        <4> QED
          BY <4>1, <4>2
      <3>9. \A j \in Begun' : task'[j].client # Nil =>
                /\ KeyOf(task'[j]) \in Keys'
                /\ task'[j].client = cache'[KeyOf(task'[j])]
        <4>1. u.client = cache'[key]
          BY <2>5, <3>4 DEF n
        <4> QED
          BY <2>1, <2>2, <2>3, <3>2, <3>4, <4>1 DEF Clients
      <3> QED
        BY <3>3, <3>6, <3>7, <3>8, <3>9 DEF Clients
    <2>6. CASE Rejected(u)
      BY <2>4, <2>6 DEF Rejected
    <2>7. CASE Accepted(f, input, u) /\ ~Info(f, v).deferred
      BY <2>4, <2>7 DEF Accepted, Client, Cached
    <2>8. CASE Accepted(f, input, u) /\ Info(f, v).deferred /\ key \in Keys
      <3>1. u.client = cache[key]
        BY <2>8 DEF Accepted, Client, key
      <3>2. cache' = [k \in Keys \cup {key} |->
                            IF k \in Keys THEN cache[k] ELSE Client(f, v, input)]
        BY <2>8 DEF Accepted, Cached, key
      <3>3. cache' = [k \in Keys |-> cache[k]]
        BY <2>8, <3>2
      <3>4. cache' = cache
        BY <3>3 DEF Types
      <3> QED
        BY <2>4, <2>8, <3>1, <3>4
    <2>9. CASE Accepted(f, input, u) /\ Info(f, v).deferred /\ key \notin Keys
      <3>1. u.client = Cardinality(Keys) + 1 /\ Client(f, v, input) = Cardinality(Keys) + 1
        BY <2>9 DEF Accepted, Client, key
      <3>2. cache' = [k \in Keys \cup {key} |->
                            IF k \in Keys THEN cache[k] ELSE Client(f, v, input)]
        BY <2>9 DEF Accepted, Cached, key
      <3> QED
        BY <2>5, <2>9, <3>1, <3>2
    <2> QED
      BY <1>1, <2>6, <2>7, <2>8, <2>9 DEF Begins
  <1>2. ASSUME NEW i \in Invocations, NEW u \in TaskSet, Move(i, u)
        PROVE  Clients'
    <2>1. KeyOf(u) = KeyOf(task[i]) /\ u.client = task[i].client /\ cache' = cache
      BY <1>2 DEF Move, SameStart, KeyOf
    <2> QED
      BY <1>2, <2>1, AfterMove, SameClients
  <1>3. ASSUME NEW f \in Functions, FunctionLoad(f)
        PROVE  Clients'
    BY <1>3, SameClients DEF FunctionLoad, Begun
  <1>4. CASE ReloadClears
    BY <1>4, ReloadMarks, SameClients DEF ReloadClears, Marked, KeyOf
  <1>5. CASE ReloadSets \/ ReloadEnds \/ IndexFunctions \/ UNCHANGED vars
    BY <1>5, SameClients DEF ReloadSets, ReloadEnds, IndexFunctions, vars, Begun
  <1> QED
    BY <1>1, <1>2, <1>3, <1>4, <1>5, StepKinds

(* The hooks of one SDK ***************************************************)

LEMMA StillDetected ==
    ASSUME NEW s, NEW d, NEW e, d # Nil => e = d, FromDetected(s, d)
    PROVE  FromDetected(s, e)
  BY DEF FromDetected

LEMMA CallOfDetected ==
    ASSUME NEW t, NEW d
    PROVE  FromDetected(CallOf(t), d)
  BY DEF CallOf, FromDetected

LEMMA NextSources ==
    ASSUME Types, Clients, Sources, [Next]_vars
    PROVE  Sources'
  <1>1. ASSUME NEW s, FromDetected(s, detected), detected' \in {detected, Detected}
        PROVE  FromDetected(s, detected')
    BY <1>1, Detection, StillDetected
  <1>2. ASSUME NEW i \in Invocations, NEW f \in Functions, NEW input \in Inputs,
               NEW u \in TaskSet, Begins(i, f, input, u)
        PROVE  Sources'
    <2>1. FromDetected(u.trace, detected')
      <3>1. CASE u.trace = <<>>
        BY <3>1 DEF FromDetected
      <3>2. CASE /\ u.trace = (Calls("pre_invocation_app_level") \o Calls("pre_invocation"))
                                \o CallOf(u)
                 /\ detected' = Detected
        <4> DEFINE c == Calls("pre_invocation_app_level")
                   d == Calls("pre_invocation")
        <4>1. c \in Seq(CallSet) /\ d \in Seq(CallSet) /\ CallOf(u) \in Seq(CallSet)
          BY CallsAreChains, TaskFields, OneCall DEF Hooks
        <4>2. FromDetected(c, Detected) /\ FromDetected(d, Detected)
          BY CallsAreChains DEF Hooks
        <4> HIDE DEF c, d
        <4>3. c \o d \in Seq(CallSet) /\ FromDetected(c \o d, Detected)
          BY <4>1, <4>2, Appended, AppendedFrom
        <4>4. FromDetected(CallOf(u), Detected)
          BY CallOfDetected
        <4>5. FromDetected((c \o d) \o CallOf(u), Detected)
          BY <4>1, <4>3, <4>4, AppendedFrom
        <4> QED
          BY <3>2, <4>5 DEF c, d
      <3> QED
        BY SMTT(60), <1>2, <3>1, <3>2 DEF Begins, Rejected, Accepted
    <2> QED
      BY ZenonT(60), <1>1, <1>2, <2>1, AfterBegins DEF Sources, Begins, Starts, OwnStep
  <1>3. ASSUME NEW i \in Invocations, NEW u \in TaskSet, Move(i, u)
        PROVE  Sources'
    <2> DEFINE t == task[i]
    <2>1. t \in TaskSet /\ i \in Begun /\ t.trace \in Seq(CallSet)
      BY <1>3, AfterMove, TaskFields DEF Move
    <2>2. FromDetected(t.trace, detected') /\ detected' \in {detected, Detected}
      BY <1>1, <1>3, <2>1 DEF Sources, Move, OwnStep
    <2>3. ASSUME NEW hook \in Hooks, detected' = Detected
          PROVE  /\ t.trace \o Calls(hook) \in Seq(CallSet)
                 /\ FromDetected(t.trace \o Calls(hook), detected')
      BY <2>1, <2>2, <2>3, CallsAreChains, Appended, AppendedFrom
    <2>4. FromDetected(u.trace, detected')
      <3>1. CASE u.trace = t.trace
        BY <2>2, <3>1
      <3>2. CASE \E hook \in Hooks : u.trace = t.trace \o Calls(hook) /\ detected' = Detected
        BY <2>3, <3>2
      <3>3. CASE u.trace = t.trace \o CallOf(t)
        BY <2>1, <2>2, <3>3, TaskFields, OneCall, CallOfDetected, AppendedFrom
      <3>4. CASE /\ detected' = Detected
                 /\ u.trace = (t.trace \o Calls("post_invocation"))
                                    \o Calls("post_invocation_app_level")
        <4> DEFINE c == t.trace \o Calls("post_invocation")
                   d == Calls("post_invocation_app_level")
        <4>1. c \in Seq(CallSet) /\ FromDetected(c, detected')
          BY <2>3, <3>4 DEF Hooks
        <4>2. d \in Seq(CallSet) /\ FromDetected(d, detected')
          BY <3>4, CallsAreChains DEF Hooks
        <4> HIDE DEF c, d
        <4>3. FromDetected(c \o d, detected')
          BY <4>1, <4>2, AppendedFrom
        <4> QED
          BY <3>4, <4>3 DEF c, d
      <3> QED
        BY <1>3, <3>1, <3>2, <3>3, <3>4
           DEF Move, Moved, Hooked, Ended, Responded, AsyncEnded, Hooks
    <2> QED
      BY SMTT(60), <1>1, <1>3, <2>2, <2>4, AfterMove DEF Sources
  <1>4. ASSUME NEW f \in Functions, FunctionLoad(f)
        PROVE  Sources'
    BY <1>1, <1>4 DEF FunctionLoad, Sources, Begun
  <1>5. CASE ReloadClears
    BY ZenonT(60), <1>5, ReloadMarks DEF ReloadClears, Marked, Sources
  <1>6. CASE ReloadSets \/ ReloadEnds \/ IndexFunctions \/ UNCHANGED vars
    BY <1>6 DEF ReloadSets, ReloadEnds, IndexFunctions, vars, Sources, Begun
  <1> QED
    BY <1>2, <1>3, <1>4, <1>5, <1>6, StepKinds

(* What responses are made from *******************************************)

LEMMA StillCalled ==
    ASSUME NEW s \in Seq(CallSet), NEW r \in Seq(CallSet), NEW v, HasCall(s, v)
    PROVE  HasCall(s \o r, v)
  BY Appended DEF HasCall

LEMMA CalledNow ==
    ASSUME NEW t, t.info \in Versions, NEW s \in Seq(CallSet)
    PROVE  HasCall(s \o CallOf(t), t.info)
  <1> DEFINE c == CallOf(t)
  <1>1. c \in Seq(CallSet) /\ 1 \in DOMAIN c
            /\ c[1].call = "function" /\ c[1].source = t.info
    BY OneCall DEF CallOf
  <1> HIDE DEF c
  <1>2. 1 + Len(s) \in DOMAIN (s \o c) /\ (s \o c)[1 + Len(s)] = c[1]
    BY <1>1, Appended
  <1>3. HasCall(s \o c, t.info)
    BY <1>1, <1>2 DEF HasCall
  <1> QED
    BY <1>3 DEF c

LEMMA MovedAnswer ==
    ASSUME Types, NEW t \in TaskSet, NEW u \in TaskSet, Answer(t), SameStart(t, u), Moved(t, u)
    PROVE  Answer(u)
  <1>1. InfoOf(u) = InfoOf(t) /\ EndsOf(u) = EndsOf(t) /\ u.info = t.info
    BY DEF SameStart, InfoOf, EndsOf
  <1>2. t.trace \in Seq(CallSet) /\ t.info \in Versions
    BY TaskFields
  <1>3. CASE \/ Hooked(t, u, "pooled", "pre_invocation_app_level", "app_pre_done")
             \/ Hooked(t, u, "app_pre_done", "pre_invocation", "pre_done")
    BY <1>3 DEF Answer, Hooked
  <1>4. CASE \/ Hooked(t, u, "ended", "post_invocation", "post_done")
             \/ Hooked(t, u, "post_done", "post_invocation_app_level", "returned")
    <2>1. Called(u)
      BY <1>1, <1>2, <1>4, StillCalled, CallsAreChains DEF Answer, Hooked, Hooks, Called
    <2> QED
      BY <1>1, <1>4, <2>1 DEF Answer, Hooked
  <1>5. CASE Ended(t, u)
    <2>1. Called(u)
      BY <1>1, <1>2, <1>5, CalledNow DEF Ended, Called
    <2> QED
      BY <1>1, <1>5, <2>1 DEF Answer, Ended
  <1>6. CASE Responded(t, u)
    <2>1. CASE t.phase = "raised"
      BY <1>6, <2>1 DEF Answer, Responded, Response
    <2>2. CASE t.phase = "returned"
      <3>1. Called(u)
        BY <1>1, <1>6, <2>2 DEF Answer, Responded, Called
      <3>2. u.response = Encoded(InfoOf(t), t.end)
        BY <1>6, <2>2 DEF Responded, Response
      <3> QED
        BY <1>1, <1>6, <2>2, <3>1, <3>2 DEF Answer, Responded
    <2> QED
      BY <1>6, <2>1, <2>2 DEF Responded
  <1>7. CASE AsyncEnded(t, u) /\ u.end.raises
    BY <1>7 DEF Answer, AsyncEnded
  <1>8. CASE AsyncEnded(t, u) /\ ~u.end.raises
    <2> DEFINE c == Calls("post_invocation")
               d == Calls("post_invocation_app_level")
    <2>1. c \in Seq(CallSet) /\ d \in Seq(CallSet)
      BY CallsAreChains DEF Hooks
    <2>2. u.trace = (t.trace \o c) \o d /\ Called(t)
      BY <1>8 DEF AsyncEnded, Answer
    <2> HIDE DEF c, d
    <2>3. t.trace \o c \in Seq(CallSet) /\ HasCall(t.trace \o c, t.info)
      BY <1>2, <2>1, <2>2, Appended, StillCalled DEF Called
    <2>4. Called(u)
      BY <1>1, <2>1, <2>2, <2>3, StillCalled DEF Called
    <2> QED
      BY <1>1, <1>8, <2>4 DEF Answer, AsyncEnded
  <1> QED
    BY <1>3, <1>4, <1>5, <1>6, <1>7, <1>8 DEF Moved

LEMMA NextResponses ==
    ASSUME Types, Clients, Responses, [Next]_vars
    PROVE  Responses'
  <1>1. ASSUME NEW i \in Invocations, NEW f \in Functions, NEW input \in Inputs,
               NEW u \in TaskSet, Begins(i, f, input, u)
        PROVE  Responses'
    <2>1. Answer(u)
      <3>1. CASE u.phase \in {"pooled", "answered"} /\ u.response = Failure
        BY <3>1 DEF Answer
      <3>2. CASE /\ u.phase = "suspended"
                 /\ u.trace = (Calls("pre_invocation_app_level") \o Calls("pre_invocation"))
                                \o CallOf(u)
        <4>1. Calls("pre_invocation_app_level") \o Calls("pre_invocation") \in Seq(CallSet)
          BY CallsAreChains, Appended DEF Hooks
        <4>2. Called(u)
          BY <3>2, <4>1, TaskFields, CalledNow DEF Called
        <4> QED
          BY <3>2, <4>2 DEF Answer
      <3> QED
        BY <1>1, <3>1, <3>2 DEF Begins, Starts, Rejected, Accepted
    <2> QED
      BY <1>1, <2>1, AfterBegins DEF Responses, Begins
  <1>2. ASSUME NEW i \in Invocations, NEW u \in TaskSet, Move(i, u)
        PROVE  Responses'
    <2>1. Answer(u)
      BY <1>2, AfterMove, MovedAnswer DEF Responses, Move
    <2> QED
      BY <1>2, <2>1, AfterMove DEF Responses
  <1>3. CASE ReloadClears
    <2>1. ASSUME NEW i \in Begun, Marked(task[i], task'[i])
          PROVE  Answer(task'[i])
      <3>1. InfoOf(task'[i]) = InfoOf(task[i]) /\ EndsOf(task'[i]) = EndsOf(task[i])
        BY <2>1 DEF Marked, InfoOf, EndsOf
      <3>2. Called(task'[i]) <=> Called(task[i])
        BY <2>1 DEF Marked, Called
      <3> QED
        BY <2>1, <3>1, <3>2 DEF Responses, Answer, Marked
    <2> QED
      BY <1>3, <2>1, ReloadMarks DEF Responses
  <1>4. CASE \/ \E f \in Functions : FunctionLoad(f)
             \/ ReloadSets \/ ReloadEnds \/ IndexFunctions \/ UNCHANGED vars
    BY <1>4 DEF FunctionLoad, ReloadSets, ReloadEnds, IndexFunctions, vars, Responses, Begun
  <1> QED
    BY <1>1, <1>2, <1>3, <1>4, StepKinds

(* The setting an invocation runs with ************************************)

LEMMA NextSettled ==
    ASSUME Types, Clients, Settled, [Next]_vars
    PROVE  Settled'
  <1>1. ASSUME NEW i \in Invocations, NEW f \in Functions, NEW input \in Inputs,
               NEW u \in TaskSet, Begins(i, f, input, u)
        PROVE  Settled'
    <2>1. Enabled' = Enabled /\ reload' = reload /\ reload = "no" /\ u.flag = Enabled
      BY <1>1, AfterBegins DEF Begins, Starts, OwnStep
    <2>2. ASSUME NEW j \in Begun', task'[j].undisturbed, InFlight(task'[j])
          PROVE  reload' = "no" /\ task'[j].flag = Enabled
      BY <1>1, <2>1, <2>2, AfterBegins DEF Settled, Begins
    <2> QED
      BY <2>1, <2>2 DEF Settled
  <1>2. ASSUME NEW i \in Invocations, NEW u \in TaskSet, Move(i, u)
        PROVE  Settled'
    <2>1. InFlight(task[i]) /\ u.flag = task[i].flag /\ u.undisturbed = task[i].undisturbed
      BY <1>2 DEF Move, Moved, Hooked, Ended, Responded, AsyncEnded, SameStart, InFlight
    <2>2. Enabled' = Enabled /\ reload' = reload
      BY <1>2, AfterMove DEF Move, OwnStep
    <2>3. ASSUME NEW j \in Begun', task'[j].undisturbed, InFlight(task'[j])
          PROVE  reload' = "no" /\ task'[j].flag = Enabled
      BY <1>2, <2>1, <2>2, <2>3, AfterMove DEF Settled
    <2> QED
      BY <2>2, <2>3 DEF Settled
  <1>3. CASE ReloadClears
    BY <1>3, ReloadMarks DEF Settled, Marked
  <1>4. CASE ReloadSets \/ ReloadEnds
    BY <1>4 DEF ReloadSets, ReloadEnds, Settled, Begun
  <1>5. CASE (\E f \in Functions : FunctionLoad(f)) \/ IndexFunctions \/ UNCHANGED vars
    BY <1>5 DEF FunctionLoad, IndexFunctions, vars, Settled, Begun, Enabled
  <1> QED
    BY <1>1, <1>2, <1>3, <1>4, <1>5, StepKinds

(* The calls an invocation has made ***************************************)

\* The calls of a hook that runs with the setting its invocation began with.
LEMMA CallsInProgress ==
    ASSUME Types, NEW t \in TaskSet, t.flag = Enabled, detected' = Detected, NEW hook \in Hooks
    PROVE  /\ Calls(hook) = Chain(t.flag, detected', hook)
           /\ t.flag => detected' # Nil
  BY CallsAreChains, Detection

\* The SDK is detected once: chains in a trace do not change with it.
LEMMA ChainKept ==
    ASSUME NEW on \in BOOLEAN, NEW d, NEW e, on => d # Nil, d # Nil => e = d, NEW hook
    PROVE  Chain(on, e, hook) = Chain(on, d, hook)
  BY DEF Chain

LEMMA TraceKept ==
    ASSUME NEW t \in TaskSet, NEW d, NEW e, d # Nil => e = d, Trace(t, d)
    PROVE  Trace(t, e)
  <1>1. t.flag \in BOOLEAN
    BY TaskFields
  <1>2. CASE t.phase \in {"pooled", "answered"} /\ t.trace = <<>>
    BY <1>2 DEF Trace
  <1>3. CASE t.flag => d # Nil
    <2>1. \A hook : Chain(t.flag, e, hook) = Chain(t.flag, d, hook)
      BY <1>1, <1>3, ChainKept
    <2>2. AppPre(t, e) = AppPre(t, d)
      BY <2>1 DEF AppPre
    <2>3. Pre(t, e) = Pre(t, d)
      BY <2>1, <2>2 DEF Pre
    <2>4. Around(t, e) = Around(t, d)
      BY <2>3 DEF Around
    <2>5. Post(t, e) = Post(t, d)
      BY <2>1, <2>4 DEF Post
    <2>6. Full(t, e) = Full(t, d)
      BY <2>1, <2>5 DEF Full
    <2>7. t.flag => e # Nil
      BY <1>3
    <2> QED
      BY <2>2, <2>3, <2>4, <2>5, <2>6, <2>7 DEF Trace
  <1> QED
    BY <1>2, <1>3 DEF Trace

LEMMA MovedTrace ==
    ASSUME Types, NEW t \in TaskSet, NEW u \in TaskSet, SameStart(t, u), Moved(t, u),
           detected' \in {detected, Detected}, t.flag = Enabled, Trace(t, detected), Answer(t)
    PROVE  Trace(u, detected')
  <1> DEFINE d == detected'
  <1>1. Trace(t, d)
    BY Detection, TraceKept
  <1>2. /\ AppPre(u, d) = AppPre(t, d) /\ Pre(u, d) = Pre(t, d)
        /\ Around(u, d) = Around(t, d) /\ Post(u, d) = Post(t, d)
        /\ Full(u, d) = Full(t, d)
        /\ u.flag = t.flag
    BY DEF SameStart, AppPre, Pre, Around, Post, Full, CallOf
  <1>3. ASSUME NEW hook \in Hooks, d = Detected
        PROVE  Calls(hook) = Chain(t.flag, d, hook) /\ (t.flag => d # Nil)
    BY <1>3, CallsInProgress
  <1> HIDE DEF d
  <1>4. CASE Hooked(t, u, "pooled", "pre_invocation_app_level", "app_pre_done")
    <2>1. Calls("pre_invocation_app_level") = AppPre(t, d) /\ (t.flag => d # Nil)
      BY <1>3, <1>4 DEF Hooked, Hooks, AppPre, d
    <2>2. t.trace = <<>>
      BY <1>1, <1>4 DEF Trace, Hooked
    <2>3. Calls("pre_invocation_app_level") \in Seq(CallSet)
      BY CallsAreChains DEF Hooks
    <2>4. u.trace = AppPre(t, d) /\ u.phase = "app_pre_done"
      BY <1>4, <2>1, <2>2, <2>3 DEF Hooked
    <2> QED
      BY <1>2, <2>1, <2>4 DEF Trace, d
  <1>5. CASE Hooked(t, u, "app_pre_done", "pre_invocation", "pre_done")
    <2>1. Calls("pre_invocation") = Chain(t.flag, d, "pre_invocation") /\ (t.flag => d # Nil)
      BY <1>3, <1>5 DEF Hooked, Hooks, d
    <2>2. t.trace = AppPre(t, d)
      BY <1>1, <1>5 DEF Trace, Hooked
    <2>3. u.trace = Pre(t, d) /\ u.phase = "pre_done"
      BY <1>5, <2>1, <2>2 DEF Hooked, Pre
    <2> QED
      BY <1>2, <2>1, <2>3 DEF Trace, d
  <1>6. CASE Ended(t, u)
    <2>1. t.trace = Pre(t, d) /\ (t.flag => d # Nil)
      BY <1>1, <1>6 DEF Trace, Ended
    <2>2. u.trace = Around(t, d)
      BY <1>6, <2>1 DEF Ended, Around
    <2>3. u.phase = "ended" \/ (u.phase = "raised" /\ u.end.raises)
      BY <1>6 DEF Ended
    <2> QED
      BY <1>2, <2>1, <2>2, <2>3 DEF Trace, d
  <1>7. CASE Hooked(t, u, "ended", "post_invocation", "post_done")
    <2>1. Calls("post_invocation") = Chain(t.flag, d, "post_invocation") /\ (t.flag => d # Nil)
      BY <1>3, <1>7 DEF Hooked, Hooks, d
    <2>2. t.trace = Around(t, d)
      BY <1>1, <1>7 DEF Trace, Hooked
    <2>3. u.trace = Post(t, d) /\ u.phase = "post_done"
      BY <1>7, <2>1, <2>2 DEF Hooked, Post
    <2> QED
      BY <1>2, <2>1, <2>3 DEF Trace, d
  <1>8. CASE Hooked(t, u, "post_done", "post_invocation_app_level", "returned") /\ ~t.end.raises
    <2>1. /\ Calls("post_invocation_app_level") = Chain(t.flag, d, "post_invocation_app_level")
          /\ t.flag => d # Nil
      BY <1>3, <1>8 DEF Hooked, Hooks, d
    <2>2. t.trace = Post(t, d)
      BY <1>1, <1>8 DEF Trace, Hooked
    <2>3. u.trace = Full(t, d) /\ u.phase = "returned" /\ ~u.end.raises
      BY <1>8, <2>1, <2>2 DEF Hooked, Full
    <2> QED
      BY <1>2, <2>1, <2>3 DEF Trace, d
  <1>9. CASE Responded(t, u)
    <2>1. t.phase \in {"raised", "returned"} /\ u.phase = "answered"
            /\ u.trace = t.trace /\ u.end = t.end
      BY <1>9 DEF Responded
    <2>2. t.flag => d # Nil
      BY <1>1, <2>1 DEF Trace
    <2>3. \/ u.end.raises /\ u.trace = Around(t, d)
          \/ ~u.end.raises /\ u.trace = Full(t, d)
      BY <1>1, <2>1 DEF Trace
    <2> QED
      BY <1>2, <2>1, <2>2, <2>3 DEF Trace, d
  <1>10. CASE AsyncEnded(t, u)
    <2>1. t.trace = Around(t, d) /\ (t.flag => d # Nil) /\ u.phase = "answered"
      BY <1>1, <1>10 DEF Trace, AsyncEnded
    <2>2. CASE u.end.raises
      <3>1. u.trace = Around(t, d)
        BY <1>10, <2>1, <2>2 DEF AsyncEnded
      <3> QED
        BY <1>2, <2>1, <2>2, <3>1 DEF Trace, d
    <2>3. CASE ~u.end.raises
      <3>1. /\ Calls("post_invocation") = Chain(t.flag, d, "post_invocation")
            /\ Calls("post_invocation_app_level") = Chain(t.flag, d, "post_invocation_app_level")
        BY <1>3, <1>10, <2>3 DEF AsyncEnded, Hooks, d
      <3>2. u.trace = Full(t, d)
        BY <1>10, <2>1, <2>3, <3>1 DEF AsyncEnded, Post, Full
      <3> QED
        BY <1>2, <2>1, <2>3, <3>2 DEF Trace, d
    <2> QED
      BY <2>2, <2>3
  <1>11. t.phase = "post_done" => ~t.end.raises
    BY DEF Answer
  <1> QED
    BY <1>4, <1>5, <1>6, <1>7, <1>8, <1>9, <1>10, <1>11 DEF Moved, Hooked

LEMMA NextProgress ==
    ASSUME Types, Clients, Settled, Responses, Progress, [Next]_vars
    PROVE  Progress'
  <1>1. ASSUME NEW i \in Begun, task[i].undisturbed, detected' \in {detected, Detected}
        PROVE  Trace(task[i], detected')
    BY <1>1, InBegun, Detection, TraceKept DEF Progress
  <1>2. ASSUME NEW i \in Invocations, NEW f \in Functions, NEW input \in Inputs,
               NEW u \in TaskSet, Begins(i, f, input, u)
        PROVE  Progress'
    <2>1. Trace(u, detected')
      <3>1. CASE u.phase \in {"pooled", "answered"} /\ u.trace = <<>>
        BY <3>1 DEF Trace
      <3>2. CASE /\ u.phase = "suspended" /\ detected' = Detected
                 /\ u.trace = (Calls("pre_invocation_app_level") \o Calls("pre_invocation"))
                                \o CallOf(u)
        <4>1. u.flag = Enabled
          BY <1>2 DEF Begins, Starts
        <4>2. /\ Calls("pre_invocation_app_level") = AppPre(u, detected')
              /\ Calls("pre_invocation") = Chain(u.flag, detected', "pre_invocation")
              /\ u.flag => detected' # Nil
          BY <3>2, <4>1, CallsInProgress DEF AppPre, Hooks
        <4>3. u.trace = Around(u, detected')
          BY <3>2, <4>2 DEF Around, Pre
        <4> QED
          BY <3>2, <4>2, <4>3 DEF Trace
      <3> QED
        BY <1>2, <3>1, <3>2 DEF Begins, Rejected, Accepted
    <2>2. detected' \in {detected, Detected}
      BY <1>2 DEF Begins, Starts, OwnStep
    <2> QED
      BY <1>1, <1>2, <2>1, <2>2, AfterBegins DEF Progress, Begins
  <1>3. ASSUME NEW i \in Invocations, NEW u \in TaskSet, Move(i, u)
        PROVE  Progress'
    <2>1. detected' \in {detected, Detected}
      BY <1>3 DEF Move, OwnStep
    <2>2. ASSUME u.undisturbed
          PROVE  Trace(u, detected')
      <3> DEFINE t == task[i]
      <3>1. /\ t \in TaskSet /\ i \in Begun /\ t.undisturbed
            /\ SameStart(t, u) /\ Moved(t, u)
        BY <1>3, <2>2, AfterMove DEF Move, SameStart
      <3>2. InFlight(t)
        BY <3>1 DEF Moved, Hooked, Ended, Responded, AsyncEnded, InFlight
      <3>3. t.flag = Enabled /\ Trace(t, detected) /\ Answer(t)
        BY <3>1, <3>2 DEF Settled, Progress, Responses
      <3> HIDE DEF t
      <3> QED
        BY <2>1, <3>1, <3>3, MovedTrace
    <2> QED
      BY <1>1, <1>3, <2>1, <2>2, AfterMove DEF Progress
  <1>4. ASSUME NEW f \in Functions, FunctionLoad(f)
        PROVE  Progress'
    BY <1>1, <1>4 DEF FunctionLoad, Progress, Begun
  <1>5. CASE ReloadClears
    BY <1>5, ReloadMarks DEF ReloadClears, Marked, Progress
  <1>6. CASE ReloadSets \/ ReloadEnds \/ IndexFunctions \/ UNCHANGED vars
    BY <1>6 DEF ReloadSets, ReloadEnds, IndexFunctions, vars, Progress, Begun
  <1> QED
    BY <1>2, <1>3, <1>4, <1>5, <1>6, StepKinds

(* The order and the number of the calls **********************************)

Sorted(s, p) ==
    /\ \A k, m \in DOMAIN s : k < m => Precedes(s[k], s[m])
    /\ \A k \in DOMAIN s : Place[s[k].call] < p

Positions(s, h) == {k \in DOMAIN s : s[k].call = h}

Numbered(c, hook) == \A k \in DOMAIN c : c[k].call = hook /\ c[k].number = k

\* The trace s goes on with the calls c of the hook in place p.
Continued(r, s, c, hook, p) ==
    /\ r \in Seq(CallSet)
    /\ Sorted(r, p + 1)
    /\ \A h : h # hook => Positions(r, h) = Positions(s, h)
    /\ Cardinality(Positions(r, hook)) = Len(c)

\* The calls of one hook follow those of the hooks before it.
LEMMA ChainAppended ==
    ASSUME NEW s \in Seq(CallSet), NEW hook \in Hooks \cup {"function"},
           NEW p, p = Place[hook], Sorted(s, p),
           NEW c \in Seq(CallSet),
           Numbered(c, hook), NEW r, r = s \o c
    PROVE  Continued(r, s, c, hook, p)
  <1> DEFINE n == Len(s)
  <1>1. /\ r \in Seq(CallSet) /\ n \in Nat /\ Len(c) \in Nat
        /\ DOMAIN s = 1..n /\ DOMAIN c = 1..Len(c) /\ DOMAIN r = 1..(n + Len(c))
        /\ \A k \in 1..n : r[k] = s[k]
        /\ \A k \in (n + 1)..(n + Len(c)) : r[k] = c[k - n] /\ k - n \in DOMAIN c
    OBVIOUS
  <1>2. \A h \in Hooks \cup {"function"} : Place[h] \in 1..5
    BY DEF Place, Hooks
  <1>3. p \in 1..5
    BY <1>2
  <1>4. \A k \in DOMAIN s : s[k].call \in Hooks \cup {"function"} /\ Place[s[k].call] < p
    <2>1. \A k \in DOMAIN s : s[k] \in CallSet
      OBVIOUS
    <2>2. \A k \in DOMAIN s : s[k].call \in Hooks \cup {"function"}
      BY <2>1 DEF CallSet
    <2> QED
      BY <2>2 DEF Sorted
  <1>5. \A k \in DOMAIN s : s[k].call # hook
    BY <1>3, <1>4
  <1> HIDE DEF n
  <1>6. ASSUME NEW k \in (n + 1)..(n + Len(c))
        PROVE  r[k].call = hook /\ r[k].number = k - n
    <2> DEFINE m == k - n
    <2>1. m \in DOMAIN c /\ r[k] = c[m]
      BY <1>1
    <2> HIDE DEF m
    <2>2. r[k].call = hook /\ r[k].number = m
      BY <2>1 DEF Numbered
    <2> QED
      BY <2>2 DEF m
  <1>7. ASSUME NEW k \in DOMAIN r, NEW m \in DOMAIN r, k < m
        PROVE  Precedes(r[k], r[m])
    <2>1. CASE k \in 1..n /\ m \in 1..n
      BY SMTT(60), <1>1, <1>7, <2>1 DEF Sorted
    <2>2. CASE k \in 1..n /\ m \in (n + 1)..(n + Len(c))
      <3>1. Place[r[k].call] < Place[r[m].call]
        BY <1>1, <1>4, <1>6, <2>2
      <3> QED
        BY <3>1 DEF Precedes
    <2>3. CASE k \in (n + 1)..(n + Len(c)) /\ m \in (n + 1)..(n + Len(c))
      <3>1. r[k].call = hook /\ r[k].number = k - n
        BY <1>6, <2>3
      <3>2. r[m].call = hook /\ r[m].number = m - n
        BY <1>6, <2>3
      <3>3. k - n < m - n
        BY <1>1, <1>7, <2>3
      <3> QED
        BY <3>1, <3>2, <3>3 DEF Precedes
    <2> QED
      BY SMTT(60), <1>1, <1>7, <2>1, <2>2, <2>3
  <1>8. ASSUME NEW k \in DOMAIN r
        PROVE  Place[r[k].call] < p + 1
    <2>1. CASE k \in 1..n
      <3>1. r[k].call \in Hooks \cup {"function"} /\ Place[r[k].call] < p
        BY <1>1, <1>4, <2>1
      <3> DEFINE q == Place[r[k].call]
      <3>2. q \in 1..5 /\ q < p
        BY <1>2, <3>1
      <3> HIDE DEF q
      <3>3. q < p + 1
        BY <1>3, <3>2
      <3> QED
        BY <3>3 DEF q
    <2>2. CASE k \in (n + 1)..(n + Len(c))
      BY <1>3, <1>6, <2>2
    <2> QED
      BY <1>1, <2>1, <2>2
  <1>9. ASSUME NEW h, h # hook
        PROVE  Positions(r, h) = Positions(s, h)
    BY <1>1, <1>6, <1>9 DEF Positions
  <1>10. Positions(r, hook) = (n + 1)..(n + Len(c))
    BY <1>1, <1>5, <1>6 DEF Positions
  <1>11. Cardinality(Positions(r, hook)) = Len(c)
    <2>1. n + 1 \in Int /\ n + Len(c) \in Int
      BY <1>1
    <2>2. Cardinality((n + 1)..(n + Len(c)))
            = IF n + 1 > n + Len(c) THEN 0 ELSE (n + Len(c)) - (n + 1) + 1
      BY <2>1, FS_Interval
    <2> QED
      BY <1>1, <1>10, <2>2
  <1>12. Sorted(r, p + 1)
    BY <1>7, <1>8 DEF Sorted
  <1> QED
    BY <1>1, <1>9, <1>11, <1>12 DEF Continued

\* How often a hook is called.
Times(on, d, hook) == IF on /\ d \in ExtensibleSdks THEN Len(Extensions(hook)) ELSE 0

LEMMA ChainCalls ==
    ASSUME NEW on \in BOOLEAN, NEW d \in Versions \cup {Nil}, on => d # Nil, NEW hook \in Hooks
    PROVE  LET c == Chain(on, d, hook)
           IN /\ c \in Seq(CallSet) /\ Len(c) = Times(on, d, hook)
              /\ Numbered(c, hook)
  <1>1. Chain(on, d, hook) \in Seq(CallSet)
    BY Chains
  <1>2. CASE on /\ d \in ExtensibleSdks
    <2> DEFINE n == Len(Extensions(hook))
    <2>1. n \in Nat /\ DOMAIN Extensions(hook) = 1..n
      BY ExtensionsAssumption
    <2>2. Chain(on, d, hook) = [k \in 1..n |-> [call |-> hook, number |-> k, source |-> d]]
      BY <1>2, <2>1 DEF Chain
    <2>3. Times(on, d, hook) = n
      BY <1>2 DEF Times
    <2> HIDE DEF n
    <2>4. DOMAIN Chain(on, d, hook) = 1..n
      BY <2>2
    <2>5. Len(Chain(on, d, hook)) = n
      BY <1>1, <2>1, <2>4
    <2>6. \A k \in 1..n : Chain(on, d, hook)[k].call = hook /\ Chain(on, d, hook)[k].number = k
      BY <2>2
    <2> QED
      BY <1>1, <2>3, <2>4, <2>5, <2>6 DEF Numbered
  <1>3. CASE ~(on /\ d \in ExtensibleSdks)
    BY <1>1, <1>3 DEF Chain, Times, Numbered
  <1> QED
    BY <1>2, <1>3

LEMMA AroundCalls ==
    ASSUME NEW t \in TaskSet, NEW d \in Versions \cup {Nil}, t.flag => d # Nil
    PROVE  LET s == Around(t, d)
           IN /\ s \in Seq(CallSet) /\ Sorted(s, 4)
              /\ \A hook \in {"pre_invocation_app_level", "pre_invocation"} :
                    Cardinality(Positions(s, hook)) = Times(t.flag, d, hook)
              /\ \A hook \in {"post_invocation", "post_invocation_app_level"} :
                    Positions(s, hook) = {}
  <1> DEFINE e == <<>>
             c1 == Chain(t.flag, d, "pre_invocation_app_level")
             c2 == Chain(t.flag, d, "pre_invocation")
             c3 == CallOf(t)
             s1 == AppPre(t, d)
             s2 == Pre(t, d)
             s3 == Around(t, d)
  <1>1. t.flag \in BOOLEAN /\ t.info \in Versions
    BY TaskFields
  <1>2. /\ c1 \in Seq(CallSet) /\ Len(c1) = Times(t.flag, d, "pre_invocation_app_level")
        /\ Numbered(c1, "pre_invocation_app_level")
    BY <1>1, ChainCalls DEF Hooks
  <1>3. /\ c2 \in Seq(CallSet) /\ Len(c2) = Times(t.flag, d, "pre_invocation")
        /\ Numbered(c2, "pre_invocation")
    BY <1>1, ChainCalls DEF Hooks
  <1>4. /\ c3 \in Seq(CallSet)
        /\ Numbered(c3, "function")
    BY <1>1, OneCall DEF CallOf, Numbered
  <1>5. /\ 1 = Place["pre_invocation_app_level"] /\ 2 = Place["pre_invocation"]
        /\ 3 = Place["function"]
    BY DEF Place
  <1>6. e \in Seq(CallSet) /\ Sorted(e, 1) /\ \A h : Positions(e, h) = {}
    BY DEF Sorted, Positions
  <1>7. s1 = e \o c1 /\ s2 = s1 \o c2 /\ s3 = s2 \o c3
    BY <1>2 DEF AppPre, Pre, Around
  <1> HIDE DEF e, c1, c2, c3, s1, s2, s3
  <1>11. /\ "pre_invocation_app_level" \in Hooks \cup {"function"}
         /\ "pre_invocation" \in Hooks \cup {"function"}
         /\ "function" \in Hooks \cup {"function"}
    BY DEF Hooks
  <1>8. /\ s1 \in Seq(CallSet) /\ Sorted(s1, 2)
        /\ \A h : h # "pre_invocation_app_level" => Positions(s1, h) = {}
        /\ Cardinality(Positions(s1, "pre_invocation_app_level"))
                = Times(t.flag, d, "pre_invocation_app_level")
    <2>1. Continued(s1, e, c1, "pre_invocation_app_level", 1)
      BY <1>2, <1>5, <1>6, <1>7, <1>11, ChainAppended
    <2> QED
      BY <1>2, <1>6, <2>1 DEF Continued
  <1>9. /\ s2 \in Seq(CallSet) /\ Sorted(s2, 3)
        /\ \A h : h # "pre_invocation" => Positions(s2, h) = Positions(s1, h)
        /\ Cardinality(Positions(s2, "pre_invocation")) = Times(t.flag, d, "pre_invocation")
    <2>1. Continued(s2, s1, c2, "pre_invocation", 2)
      BY <1>3, <1>5, <1>7, <1>8, <1>11, ChainAppended
    <2> QED
      BY <1>3, <2>1 DEF Continued
  <1>10. /\ s3 \in Seq(CallSet) /\ Sorted(s3, 4)
         /\ \A h : h # "function" => Positions(s3, h) = Positions(s2, h)
    <2>1. Continued(s3, s2, c3, "function", 3)
      BY <1>4, <1>5, <1>7, <1>9, <1>11, ChainAppended
    <2> QED
      BY <2>1 DEF Continued
  <1> QED
    BY <1>8, <1>9, <1>10 DEF s3

LEMMA FullCalls ==
    ASSUME NEW t \in TaskSet, NEW d \in Versions \cup {Nil}, t.flag => d # Nil
    PROVE  LET s == Full(t, d)
           IN /\ s \in Seq(CallSet) /\ Sorted(s, 6)
              /\ \A hook \in Hooks : Cardinality(Positions(s, hook)) = Times(t.flag, d, hook)
  <1> DEFINE c4 == Chain(t.flag, d, "post_invocation")
             c5 == Chain(t.flag, d, "post_invocation_app_level")
             s3 == Around(t, d)
             s4 == Post(t, d)
             s5 == Full(t, d)
  <1>1. t.flag \in BOOLEAN
    BY TaskFields
  <1>2. /\ c4 \in Seq(CallSet) /\ Len(c4) = Times(t.flag, d, "post_invocation")
        /\ Numbered(c4, "post_invocation")
    BY <1>1, ChainCalls DEF Hooks
  <1>3. /\ c5 \in Seq(CallSet) /\ Len(c5) = Times(t.flag, d, "post_invocation_app_level")
        /\ Numbered(c5, "post_invocation_app_level")
    BY <1>1, ChainCalls DEF Hooks
  <1>4. 4 = Place["post_invocation"] /\ 5 = Place["post_invocation_app_level"]
    BY DEF Place
  <1>5. s4 = s3 \o c4 /\ s5 = s4 \o c5
    BY DEF Post, Full
  <1>6. /\ s3 \in Seq(CallSet) /\ Sorted(s3, 4)
        /\ \A hook \in {"pre_invocation_app_level", "pre_invocation"} :
                Cardinality(Positions(s3, hook)) = Times(t.flag, d, hook)
    BY AroundCalls
  <1> HIDE DEF c4, c5, s3, s4, s5
  <1>9. /\ "post_invocation" \in Hooks \cup {"function"}
        /\ "post_invocation_app_level" \in Hooks \cup {"function"}
    BY DEF Hooks
  <1>7. /\ s4 \in Seq(CallSet) /\ Sorted(s4, 5)
        /\ \A h : h # "post_invocation" => Positions(s4, h) = Positions(s3, h)
        /\ Cardinality(Positions(s4, "post_invocation")) = Times(t.flag, d, "post_invocation")
    <2>1. Continued(s4, s3, c4, "post_invocation", 4)
      BY <1>2, <1>4, <1>5, <1>6, <1>9, ChainAppended
    <2> QED
      BY <1>2, <2>1 DEF Continued
  <1>8. /\ s5 \in Seq(CallSet) /\ Sorted(s5, 6)
        /\ \A h : h # "post_invocation_app_level" => Positions(s5, h) = Positions(s4, h)
        /\ Cardinality(Positions(s5, "post_invocation_app_level"))
                = Times(t.flag, d, "post_invocation_app_level")
    <2>1. Continued(s5, s4, c5, "post_invocation_app_level", 5)
      BY <1>3, <1>4, <1>5, <1>7, <1>9, ChainAppended
    <2> QED
      BY <1>3, <2>1 DEF Continued
  <1> QED
    BY <1>6, <1>7, <1>8 DEF s5, Hooks

(* The theorems ***********************************************************)

LEMMA InitIInv ==
    ASSUME Init
    PROVE  IInv
  <1>1. Begun = {}
    BY DEF Init, Begun, NoTask
  <1>2. Keys = {} /\ reload = "no"
    BY DEF Init, Keys
  <1>3. Types /\ Bounded
    BY <1>2, BoundsAssumption, SettingsAssumption DEF Init, Types, Bounded, Versions, Keys
  <1> QED
    BY <1>1, <1>2, <1>3 DEF IInv, Clients, Sources, Responses, Settled, Progress

\* The inductive invariant holds in every reachable state.
THEOREM Invariance == Spec => []IInv
  <1>1. Init => IInv
    BY InitIInv
  <1>2. IInv /\ [Next]_vars => IInv'
    BY NextTypes, NextClients, NextSources, NextResponses, NextSettled, NextProgress DEF IInv
  <1> QED
    BY <1>1, <1>2, PTL DEF Spec

\* The variables have their types; a client is one of those made for the
\* invocations, of which there are no more than invocations.
THEOREM TypeCorrect == Spec => []TypeOK
  <1>1. ASSUME Types, Clients
        PROVE  TypeOK
    <2> DEFINE n == Cardinality(Keys)
               m == Cardinality(Invocations)
    <2>1. n \in Nat /\ m \in Nat /\ n <= m
      <3>1. Cardinality(Begun) \in Nat /\ m \in Nat
        BY <1>1, FiniteKeys, FS_CardinalityType, BoundsAssumption
      <3> QED
        BY <1>1, <3>1, FiniteKeys
    <2>2. \A k \in Keys : cache[k] \in 1..n
      BY <1>1 DEF Clients
    <2> HIDE DEF n, m
    <2>3. \A k \in Keys : cache[k] \in 1..m
      BY <2>1, <2>2
    <2>4. ASSUME NEW i \in Invocations
          PROVE  IsTask(task[i])
      <3>1. CASE task[i].phase = "absent"
        BY <3>1 DEF IsTask, Phases
      <3>2. CASE task[i].phase # "absent"
        <4>1. task[i] \in TaskSet /\ i \in Begun
          BY <1>1, <3>2, ATask DEF Begun
        <4>2. task[i].client \in 1..m \cup {Nil}
          BY <1>1, <2>3, <4>1 DEF Clients
        <4> QED
          BY <4>1, <4>2, TaskFields DEF IsTask, Started, CallSet, m
      <3> QED
        BY <3>1, <3>2
    <2> QED
      BY <1>1, <2>3, <2>4 DEF Types, TypeOK, m
  <1> QED
    BY <1>1, Invariance, PTL DEF IInv

\* A successful response has the outputs that the function the invocation began
\* with set, whatever was registered under its id in the meantime.
THEOREM ResponseOfItsFunctionAlways == Spec => []ResponseOfItsFunction
  <1>1. ASSUME Types, Responses
        PROVE  ResponseOfItsFunction
    <2> SUFFICES ASSUME NEW i \in Done, task[i].response.status = "Success"
                 PROVE  LET t == task[i]
                            info == Info(t.function, t.info)
                        IN /\ ~t.end.raises
                           /\ \E k \in DOMAIN t.trace :
                                t.trace[k].call = "function" /\ t.trace[k].source = t.info
                           /\ DOMAIN t.response.outputs
                                = {o \in info.outputs : t.end.outs[o] # "None"}
                           /\ ~info.has_return => t.end.result = "None"
      BY DEF ResponseOfItsFunction
    <2> DEFINE t == task[i]
               info == Info(t.function, t.info)
    <2>1. i \in Begun /\ t.phase = "answered"
      BY DEF Done, Begun
    <2>2. t.response # Failure
      BY DEF Failure
    <2>3. /\ Called(t) /\ ~t.end.raises
          /\ t.response = Encoded(info, t.end)
      BY <1>1, <2>1, <2>2 DEF Responses, Answer, InfoOf
    <2> HIDE DEF t, info
    <2>4. ~(t.end.result # "None" /\ ~info.has_return)
      BY <2>2, <2>3 DEF Encoded
    <2>5. t.response.outputs
            = [o \in {o \in info.outputs : t.end.outs[o] # "None"} |-> Encoding[t.end.outs[o]]]
      BY <2>2, <2>3 DEF Encoded
    <2>6. DOMAIN t.response.outputs = {o \in info.outputs : t.end.outs[o] # "None"}
      BY <2>5
    <2> QED
      BY <2>3, <2>4, <2>6 DEF Called, HasCall, t, info
  <1> QED
    BY <1>1, Invariance, PTL DEF IInv

\* All the hooks an invocation calls are of one loading of the SDK.
THEOREM HooksOfOneSdkAlways == Spec => []HooksOfOneSdk
  <1>1. ASSUME Sources
        PROVE  HooksOfOneSdk
    <2> SUFFICES ASSUME NEW i \in Invocations, task[i].phase # "absent"
                 PROVE  LET calls == {task[i].trace[k] : k \in DOMAIN task[i].trace}
                            hooks == {c \in calls : c.call # "function"}
                        IN Cardinality({c.source : c \in hooks}) <= 1
      BY DEF HooksOfOneSdk
    <2> DEFINE calls == {task[i].trace[k] : k \in DOMAIN task[i].trace}
               hooks == {c \in calls : c.call # "function"}
               sources == {c.source : c \in hooks}
    <2>1. \A c \in hooks : c.source = detected
      BY <1>1 DEF Sources, Begun, FromDetected
    <2>2. sources \subseteq {detected}
      BY <2>1
    <2>3. sources = {} \/ sources = {detected}
      BY <2>2
    <2> HIDE DEF sources
    <2>5. Cardinality({}) = 0 /\ Cardinality({detected}) = 1
      BY FS_EmptySet, FS_Singleton
    <2>6. Cardinality(sources) = 0 \/ Cardinality(sources) = 1
      BY <2>3, <2>5
    <2>4. Cardinality(sources) <= 1
      BY <2>6
    <2> QED
      BY <2>4 DEF sources
  <1> QED
    BY <1>1, Invariance, PTL DEF IInv

\* Two invocations have the same client exactly if they are of the same function
\* and asked for the same resource with the same type for the same binding.
THEOREM ClientsAsKeyedAlways == Spec => []ClientsAsKeyed
  <1>1. ASSUME Clients
        PROVE  ClientsAsKeyed
    <2> SUFFICES ASSUME NEW i \in Invocations, NEW j \in Invocations,
                        task[i].phase # "absent" /\ task[i].client # Nil,
                        task[j].phase # "absent" /\ task[j].client # Nil
                 PROVE  task[i].client = task[j].client <=>
                          /\ task[i].function = task[j].function
                          /\ task[i].input.content = task[j].input.content
                          /\ InfoOf(task[i]).pytype = InfoOf(task[j]).pytype
                          /\ InfoOf(task[i]).input = InfoOf(task[j]).input
      BY DEF ClientsAsKeyed
    <2>1. \A h \in {i, j} : KeyOf(task[h]) \in Keys /\ task[h].client = cache[KeyOf(task[h])]
      BY <1>1 DEF Clients, Begun
    <2>2. task[i].client = task[j].client <=> KeyOf(task[i]) = KeyOf(task[j])
      BY <1>1, <2>1 DEF Clients
    <2>3. KeyOf(task[i]) = KeyOf(task[j]) <=>
            /\ task[i].function = task[j].function
            /\ task[i].input.content = task[j].input.content
            /\ InfoOf(task[i]).pytype = InfoOf(task[j]).pytype
            /\ InfoOf(task[i]).input = InfoOf(task[j]).input
      BY DEF KeyOf, Key, InfoOf
    <2> QED
      BY <2>2, <2>3
  <1> QED
    BY <1>1, Invariance, PTL DEF IInv

\* Around a function that no reload overlaps every hook is called once and in
\* order, those after it only if it returns.
THEOREM HooksCompleteAlways == Spec => []HooksComplete
  <1>1. ASSUME Types, Progress
        PROVE  HooksComplete
    <2> SUFFICES ASSUME NEW i \in Done, task[i].undisturbed,
                        \E k \in DOMAIN task[i].trace : task[i].trace[k].call = "function"
                 PROVE  /\ \A k, m \in DOMAIN task[i].trace :
                                k < m => Precedes(task[i].trace[k], task[i].trace[m])
                        /\ \A hook \in {"pre_invocation_app_level", "pre_invocation"} :
                                Cardinality(Calling(task[i], hook))
                                    = Times(task[i].flag, detected, hook)
                        /\ \A hook \in {"post_invocation", "post_invocation_app_level"} :
                                Cardinality(Calling(task[i], hook))
                                    = IF task[i].end.raises THEN 0
                                      ELSE Times(task[i].flag, detected, hook)
      BY DEF HooksComplete, Times
    <2> DEFINE t == task[i]
               d == detected
    <2>1. i \in Begun /\ t.phase = "answered" /\ t \in TaskSet
      BY <1>1, ATask DEF Done, Begun
    <2>2. d \in Versions \cup {Nil}
      BY <1>1 DEF Types
    <2>3. t.trace # <<>>
      OBVIOUS
    <2>4. Trace(t, d)
      BY <1>1, <2>1 DEF Progress
    <2>5. \A hook : Calling(t, hook) = Positions(t.trace, hook)
      BY DEF Calling, Positions
    <2> HIDE DEF t, d
    <2>6. CASE t.end.raises /\ t.trace = Around(t, d) /\ (t.flag => d # Nil)
      <3>1. /\ Sorted(t.trace, 4)
            /\ \A hook \in {"pre_invocation_app_level", "pre_invocation"} :
                    Cardinality(Positions(t.trace, hook)) = Times(t.flag, d, hook)
            /\ \A hook \in {"post_invocation", "post_invocation_app_level"} :
                    Positions(t.trace, hook) = {}
        BY <2>1, <2>2, <2>6, AroundCalls
      <3>2. \A hook \in {"post_invocation", "post_invocation_app_level"} :
                    Cardinality(Positions(t.trace, hook)) = 0
        BY <3>1, FS_EmptySet
      <3> QED
        BY <2>5, <2>6, <3>1, <3>2 DEF Sorted, t, d
    <2>7. CASE ~t.end.raises /\ t.trace = Full(t, d) /\ (t.flag => d # Nil)
      <3>1. /\ Sorted(t.trace, 6)
            /\ \A hook \in Hooks : Cardinality(Positions(t.trace, hook)) = Times(t.flag, d, hook)
        BY <2>1, <2>2, <2>7, FullCalls
      <3> QED
        BY <2>5, <2>7, <3>1 DEF Sorted, Hooks, t, d
    <2> QED
      BY <2>1, <2>3, <2>4, <2>6, <2>7 DEF Trace
  <1> QED
    BY <1>1, Invariance, PTL DEF IInv

=============================================================================
