----------------------------- MODULE Invocation -----------------------------
(***************************************************************************)
(* What one invocation goes through between the host's request and the     *)
(* response: its inputs are decoded, the hooks of the app's extensions run *)
(* around the function, its outputs are encoded (the invocation handler of *)
(* dispatcher.py, extension.py, bindings/meta.py, generic.py, datumdef.py).*)
(*                                                                         *)
(* A sync function and its hooks run in a thread of the pool, an async one *)
(* in the event loop, with a suspension in the function only.  Meanwhile   *)
(* the loop may begin other invocations, or a reload that changes the      *)
(* settings and the packages under those that run; the app is indexed again*)
(* after it, and its functions are replaced.  Functions that stream HTTP   *)
(* are left to HttpCoordinator, threads and their ids to Dispatcher, and   *)
(* outputs over shared memory to SharedMemory.                             *)
(***************************************************************************)
EXTENDS Naturals, Sequences, FiniteSets

CONSTANTS
    Invocations,
    Functions,
    Info(_, _),     \* function, version of the app -> what is registered of it
    Inputs,         \* the inputs a request may carry, each a datum
    Results,        \* the kinds of Python values a function may set or return
    Extensions(_),  \* hook -> its implementations in the app, in order
    ExtensibleSdks, \* the loadings of the SDK that support extensions
    Settings,       \* the values PYTHON_ENABLE_WORKER_EXTENSIONS may have
    FlagDefault,    \* whether extensions are enabled without a setting
    MaxReloads,     \* bound: reloads
    Nil

Versions == 1..(MaxReloads + 1)

ASSUME InfoAssumption ==
    \A f \in Functions, v \in Versions :
        /\ Info(f, v).is_async \in BOOLEAN
        /\ Info(f, v).deferred \in BOOLEAN      \* of its one input
        /\ Info(f, v).has_return \in BOOLEAN    \* and a return_type
        /\ IsFiniteSet(Info(f, v).outputs)      \* the names of its Outs
ASSUME BoundsAssumption == IsFiniteSet(Invocations) /\ MaxReloads \in Nat
ASSUME NilAssumption == Nil \notin Nat
ASSUME SettingsAssumption ==
    Settings \subseteq {"true", "false", "unset"} /\ FlagDefault \in BOOLEAN

Hooks == {"pre_invocation_app_level", "pre_invocation",
          "post_invocation", "post_invocation_app_level"}

ASSUME ExtensionsAssumption ==
    \A hook \in Hooks : Extensions(hook) \in Seq({"raises", "returns"})

VARIABLES
    version,        \* how often the app's modules were imported anew
    sdk,            \* which loading of azure.functions the app imports
    registry,       \* function -> the version its entry was made from
    flag,           \* PYTHON_ENABLE_WORKER_EXTENSIONS
    detected,       \* _extension_enabled_sdk, Nil before _is_sdk_detected
    cache,          \* deferred_bindings_cache
    ready,          \* the functions the host has loaded
    reload,         \* how far a reload in progress has got
    task            \* invocation -> its task

vars == <<version, sdk, registry, flag, detected, cache, ready, reload, task>>

InThread == {"pooled", "app_pre_done", "pre_done", "ended", "post_done"}
Phases == {"absent", "suspended", "returned", "raised", "answered"} \cup InThread

NoTask == [phase |-> "absent"]

\* The parts of a task: info is the FunctionInfo it read, called the version of
\* the function it called, trace the calls of hooks and functions it made.
IsTask(t) ==
    /\ t.phase \in Phases
    /\ t.phase # "absent" =>
        /\ t.function \in Functions /\ t.info \in Versions
        /\ t.input \in Inputs
        /\ t.client \in 1..Cardinality(Invocations) \cup {Nil}
        /\ t.trace \in Seq([call : Hooks \cup {"function"}, number : Nat, source : Versions])
        /\ t.undisturbed \in BOOLEAN
        /\ t.flag \in BOOLEAN

Keys == DOMAIN cache

TypeOK ==
    /\ version \in Versions /\ sdk \in Versions
    /\ registry \in [Functions -> Versions]
    /\ flag \in {"true", "false", "unset"}
    /\ detected \in Versions \cup {Nil}
    /\ \A k \in Keys : cache[k] \in 1..Cardinality(Invocations)
    /\ ready \subseteq Functions
    /\ reload \in {"no", "cleared", "set"}
    /\ \A i \in Invocations : IsTask(task[i])

Init ==
    /\ version = 1 /\ sdk = 1
    /\ registry = [f \in Functions |-> 1]
    /\ flag \in Settings
    /\ detected = Nil
    /\ cache = <<>>
    /\ ready = {}
    /\ reload = "no"
    /\ task = [i \in Invocations |-> NoTask]

InfoOf(t) == Info(t.function, t.info)

(* Extensions *************************************************************)

\* enable_feature_by: the setting is read at every call.
Enabled == flag = "true" \/ (FlagDefault /\ flag # "false")

\* Mutant: the SDK is looked for at every call.
DetectedAgain == IF Enabled THEN sdk ELSE detected

\* The first call that is enabled looks for the SDK, and its find is kept.
Detected == IF Enabled /\ detected = Nil THEN sdk ELSE detected

\* Mutant: a hook that raises ends the chain.
CallsUntilFailure(hook) ==
    IF ~Enabled \/ Detected \notin ExtensibleSdks THEN <<>>
    ELSE LET raising == {k \in DOMAIN Extensions(hook) : Extensions(hook)[k] = "raises"}
             last == IF raising = {} THEN Len(Extensions(hook))
                     ELSE CHOOSE k \in raising : \A m \in raising : k <= m
         IN [k \in 1..last |-> [call |-> hook, number |-> k, source |-> Detected]]

\* Every implementation of a hook is called, whether or not those before it
\* raise exceptions.
Calls(hook) ==
    IF ~Enabled \/ Detected \notin ExtensibleSdks THEN <<>>
    ELSE [k \in DOMAIN Extensions(hook) |->
            [call |-> hook, number |-> k, source |-> Detected]]

CallOf(t) == <<[call |-> "function", number |-> 1, source |-> t.info]>>

(* Inputs *****************************************************************)

\* The data a binding without a converter can take, None included.
GenericDecodes == {"string", "bytes", "json", "none"}

\* A deferred binding looks at the content of the model binding data.
Decodes(f, v, input) ==
    IF Info(f, v).deferred THEN input.type = "model_binding_data"
    ELSE input.type \in GenericDecodes

\* Mutant: a client is shared by the functions that use the same resource.
KeyOfResource(f, v, input) ==
    [name |-> Info(f, v).input, pytype |-> Info(f, v).pytype, content |-> input.content]

Key(f, v, input) ==
    [name |-> Info(f, v).input, pytype |-> Info(f, v).pytype,
     content |-> input.content, function |-> f]

\* The client a deferred binding decodes to: a new one has the next number.
Client(f, v, input) ==
    IF ~Info(f, v).deferred THEN Nil
    ELSE IF Key(f, v, input) \in Keys THEN cache[Key(f, v, input)]
    ELSE Cardinality(Keys) + 1

\* Mutant: the cache has an entry before the client is made.
CachedUnset(f, v, input) ==
    IF ~Info(f, v).deferred THEN cache
    ELSE [k \in Keys \cup {Key(f, v, input)} |-> IF k \in Keys THEN cache[k] ELSE Nil]

Cached(f, v, input) ==
    IF ~Info(f, v).deferred THEN cache
    ELSE [k \in Keys \cup {Key(f, v, input)} |->
            IF k \in Keys THEN cache[k] ELSE Client(f, v, input)]

(* Outputs ****************************************************************)

\* How a value is sent, by its Python type.  Others cannot be encoded.
Encoding == [str |-> "string", bytes |-> "bytes", dict |-> "json", list |-> "json",
             int |-> "int", bool |-> "int", float |-> "double", None |-> "none"]

Encodes(value) == value \in DOMAIN Encoding

Failure == [status |-> "Failure"]

\* The response of an invocation whose function returned, by what the handler
\* knows of the function.
Encoded(info, end) ==
    LET set == {o \in info.outputs : end.outs[o] # "None"}
    IN IF \/ end.result # "None" /\ ~info.has_return
          \/ \E o \in set : ~Encodes(end.outs[o])
          \/ info.has_return /\ ~Encodes(end.result)
       THEN Failure
       ELSE [status |-> "Success",
             outputs |-> [o \in set |-> Encoding[end.outs[o]]],
             return_value |-> IF info.has_return THEN Encoding[end.result] ELSE "none"]

\* Mutant: the outputs are those of the function that is registered by now.
ResponseNow(t) ==
    IF t.phase = "raised" THEN Failure
    ELSE LET info == Info(t.function, registry[t.function])
         IN Encoded(info, [t.end EXCEPT !.outs =
                [o \in info.outputs |-> IF o \in DOMAIN @ THEN @[o] ELSE "None"]])

Response(t) == IF t.phase = "raised" THEN Failure ELSE Encoded(InfoOf(t), t.end)

Answered(t) == [t EXCEPT !.phase = "answered", !.response = Response(t)]

(* The handler ************************************************************)

LoopRuns == reload = "no"

Become(i, t) == task' = [task EXCEPT ![i] = t]

NewTask(i, f, input) ==
    [phase |-> "pooled", function |-> f, info |-> registry[f], input |-> input,
     client |-> Nil, trace |-> <<>>, undisturbed |-> TRUE, flag |-> Enabled,
     end |-> Nil, response |-> Failure]

\* An input cannot be decoded, or the client cannot be made: nothing is kept.
BeginFails(i, f, input) ==
    /\ LoopRuns
    /\ task[i] = NoTask /\ f \in ready
    /\ \/ ~Decodes(f, registry[f], input)
       \/ Info(f, registry[f]).deferred /\ Key(f, registry[f], input) \notin Keys
    /\ Become(i, [NewTask(i, f, input) EXCEPT !.phase = "answered"])
    /\ UNCHANGED <<version, sdk, registry, flag, detected, cache, ready, reload>>

\* The inputs are decoded.  A sync function goes to the pool, an async one runs
\* after its hooks until it is suspended.
Begin(i, f, input) ==
    /\ LoopRuns
    /\ task[i] = NoTask /\ f \in ready
    /\ Decodes(f, registry[f], input)
    /\ LET t == [NewTask(i, f, input) EXCEPT !.client = Client(f, registry[f], input)]
       IN IF InfoOf(t).is_async
          THEN /\ Become(i, [t EXCEPT !.phase = "suspended",
                                !.trace = Calls("pre_invocation_app_level")
                                            \o Calls("pre_invocation") \o CallOf(t)])
               /\ detected' = Detected
          ELSE /\ Become(i, t)
               /\ UNCHANGED detected
    /\ cache' = Cached(f, registry[f], input)
    /\ UNCHANGED <<version, sdk, registry, flag, ready, reload>>

\* How a function may end.
EndsOf(t) ==
    {[raises |-> FALSE, outs |-> outs, result |-> result] :
        outs \in [InfoOf(t).outputs -> Results], result \in Results}
    \cup {[raises |-> TRUE]}

\* One call of a hook in a thread of the pool.
ThreadHook(i, before, hook, after) ==
    /\ task[i].phase = before
    /\ Become(i, [task[i] EXCEPT !.phase = after, !.trace = @ \o Calls(hook)])
    /\ detected' = Detected
    /\ UNCHANGED <<version, sdk, registry, flag, cache, ready, reload>>

\* The function ends; if it raises an exception no hook is called after it.
ThreadCalls(i) ==
    /\ task[i].phase = "pre_done"
    /\ \E end \in EndsOf(task[i]) :
        Become(i, [task[i] EXCEPT !.phase = IF end.raises THEN "raised" ELSE "ended",
                                  !.end = end, !.trace = @ \o CallOf(task[i])])
    /\ UNCHANGED <<version, sdk, registry, flag, detected, cache, ready, reload>>

SyncStep(i) ==
    \/ ThreadHook(i, "pooled", "pre_invocation_app_level", "app_pre_done")
    \/ ThreadHook(i, "app_pre_done", "pre_invocation", "pre_done")
    \/ ThreadCalls(i)
    \/ ThreadHook(i, "ended", "post_invocation", "post_done")
    \/ ThreadHook(i, "post_done", "post_invocation_app_level", "returned")

\* The task goes on in the loop when the pool is done with its function.
Respond(i) ==
    /\ LoopRuns
    /\ task[i].phase \in {"returned", "raised"}
    /\ Become(i, Answered(task[i]))
    /\ UNCHANGED <<version, sdk, registry, flag, detected, cache, ready, reload>>

\* An async function ends, and its task goes on to its response.
AsyncFunctionEnds(i) ==
    /\ LoopRuns
    /\ task[i].phase = "suspended"
    /\ \E end \in EndsOf(task[i]) :
        IF end.raises
        THEN /\ Become(i, Answered([task[i] EXCEPT !.phase = "raised", !.end = end]))
             /\ UNCHANGED detected
        ELSE /\ Become(i, Answered([task[i] EXCEPT !.end = end,
                    !.trace = @ \o Calls("post_invocation")
                                \o Calls("post_invocation_app_level")]))
             /\ detected' = Detected
    /\ UNCHANGED <<version, sdk, registry, flag, cache, ready, reload>>

(* Loads and reloads ******************************************************)

\* A function of the app as it is now is loaded, with its extensions.
FunctionLoad(f) ==
    /\ LoopRuns
    /\ registry[f] = version
    /\ ready' = ready \cup {f}
    /\ detected' = Detected
    /\ UNCHANGED <<version, sdk, registry, flag, cache, reload, task>>

InFlight(t) == t.phase \notin {"absent", "answered"}

\* A reload empties os.environ first.
ReloadClears ==
    /\ LoopRuns /\ version <= MaxReloads
    /\ reload' = "cleared"
    /\ flag' = "unset"
    /\ task' = [i \in Invocations |->
                    IF InFlight(task[i]) THEN [task[i] EXCEPT !.undisturbed = FALSE]
                                         ELSE task[i]]
    /\ UNCHANGED <<version, sdk, registry, detected, cache, ready>>

ReloadSets ==
    /\ reload = "cleared"
    /\ reload' = "set"
    /\ flag' \in Settings
    /\ UNCHANGED <<version, sdk, registry, detected, cache, ready, task>>

\* The pool was waited for: then the packages are reloaded, azure.functions
\* among them if the customer's come first, and the host starts anew.
ReloadEnds ==
    /\ reload = "set"
    /\ \A i \in Invocations : task[i].phase \notin InThread
    /\ reload' = "no"
    /\ version' = version + 1
    /\ sdk' \in {sdk, version'}
    /\ ready' = {}
    /\ UNCHANGED <<registry, flag, detected, cache, task>>

\* The app is indexed: each function is registered anew.
IndexFunctions ==
    /\ LoopRuns
    /\ registry' = [f \in Functions |-> version]
    /\ UNCHANGED <<version, sdk, flag, detected, cache, ready, reload, task>>

Next ==
    \/ \E i \in Invocations, f \in Functions, input \in Inputs :
            Begin(i, f, input) \/ BeginFails(i, f, input)
    \/ \E i \in Invocations : SyncStep(i) \/ Respond(i) \/ AsyncFunctionEnds(i)
    \/ \E f \in Functions : FunctionLoad(f)
    \/ ReloadClears \/ ReloadSets \/ ReloadEnds
    \/ IndexFunctions

Spec == Init /\ [][Next]_vars

(* Properties *************************************************************)

Done == {i \in Invocations : task[i].phase = "answered"}

Calling(t, hook) == {k \in DOMAIN t.trace : t.trace[k].call = hook}

\* A response that says Success is that of the function the invocation began
\* with, though it may have been replaced in the meantime by one with other
\* bindings: that version was called and did not raise, the outputs are those of
\* its bindings that it set, and it returned a value only if it has a binding
\* for one (_handle__invocation_request).
ResponseOfItsFunction ==
    \A i \in Done : task[i].response.status = "Success" =>
        LET t == task[i]
            info == Info(t.function, t.info)
        IN /\ ~t.end.raises
           /\ \E k \in DOMAIN t.trace :
                t.trace[k].call = "function" /\ t.trace[k].source = t.info
           /\ DOMAIN t.response.outputs = {o \in info.outputs : t.end.outs[o] # "None"}
           /\ ~info.has_return => t.end.result = "None"

Place == [pre_invocation_app_level |-> 1, pre_invocation |-> 2, function |-> 3,
          post_invocation |-> 4, post_invocation_app_level |-> 5]

Precedes(c, d) ==
    \/ Place[c.call] < Place[d.call]
    \/ c.call = d.call /\ c.number < d.number

\* Every hook of an enabled app is called around a function that returns, in
\* order and each of them once, whatever the others do; those after it are not
\* called if it raises.  Invocations a reload overlaps may miss some.
HooksComplete ==
    \A i \in Done :
        LET t == task[i]
            called == \E k \in DOMAIN t.trace : t.trace[k].call = "function"
            Full(hook) == IF t.flag /\ detected \in ExtensibleSdks
                          THEN Len(Extensions(hook)) ELSE 0
        IN t.undisturbed /\ called =>
            /\ \A k, m \in DOMAIN t.trace : k < m => Precedes(t.trace[k], t.trace[m])
            /\ \A hook \in {"pre_invocation_app_level", "pre_invocation"} :
                Cardinality(Calling(t, hook)) = Full(hook)
            /\ \A hook \in {"post_invocation", "post_invocation_app_level"} :
                Cardinality(Calling(t, hook)) = IF t.end.raises THEN 0 ELSE Full(hook)

\* All the hooks an invocation calls are of one loading of the SDK, also when a
\* reload replaces azure.functions between those before and those after it.
HooksOfOneSdk ==
    \A i \in Invocations :
        LET calls == {task[i].trace[k] : k \in DOMAIN task[i].trace}
            hooks == {c \in calls : c.call # "function"}
        IN task[i].phase # "absent" => Cardinality({c.source : c \in hooks}) <= 1

\* A client of a deferred binding is used again for the same binding, resource
\* and Python type, and never by another function, which could "lose the session
\* context" (deferred_bindings_decode), across reloads.
ClientsAsKeyed ==
    \A i, j \in {k \in Invocations : task[k].phase # "absent" /\ task[k].client # Nil} :
        task[i].client = task[j].client <=>
            /\ task[i].function = task[j].function
            /\ task[i].input.content = task[j].input.content
            /\ InfoOf(task[i]).pytype = InfoOf(task[j]).pytype
            /\ InfoOf(task[i]).input = InfoOf(task[j]).input

=============================================================================
