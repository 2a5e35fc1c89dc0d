--------------------------- MODULE FunctionRegistry ---------------------------
(***************************************************************************)
(* The registry of the functions a worker can run, and the checks a        *)
(* function passes to enter it (Registry in functions.py).                 *)
(*                                                                         *)
(* A function has bindings, from its function.json or from its decorators, *)
(* and a Python signature.  Registering it matches the two and records     *)
(* what the invocation handler relies on: the type of each input and       *)
(* output, the binding of its return value, and whether it is an HTTP      *)
(* function.  The many ways to be rejected are one outcome here, and what  *)
(* the converters of the azure.functions library accept is a constant.     *)
(***************************************************************************)
EXTENDS Naturals, Sequences, FiniteSets

CONSTANTS
    Ids,            \* function ids; an indexed function's is made of its name
    Candidates,     \* bound: the functions that may be added first, second...
    InputTypes,     \* BINDING_REGISTRY: type -> annotations of an input
    OutputTypes,    \* BINDING_REGISTRY: type -> annotations of an output
    Converters,     \* the types of BINDING_REGISTRY with an implicit output
    DeferredTypes,  \* DEFERRED_BINDING_REGISTRY: types it converts
    None            \* Python's None

\* str and bytes, the classes of the HTTP library and of the streaming
\* extension, an SDK client, any other class; an annotation that is no type,
\* and an Out without the type it is of.
PyTypes == {"str", "http", "stream", "client", "class", "nontype", "missing"}

\* An annotation, azure.functions.Out[py] or py, or none.
Annotation == [out : BOOLEAN, py : PyTypes] \cup {None}

Directions == {"in", "out", "inout"}

IsFunction(f) ==
    /\ DOMAIN f = {"name", "bindings", "params", "return_anno"}
    /\ Len(f.bindings) \in Nat
    /\ \A i \in 1..Len(f.bindings) : f.bindings[i].direction \in Directions
    /\ \A p \in DOMAIN f.params : f.params[p] \in Annotation
    /\ f.return_anno \in Annotation

ASSUME RegistryAssumption ==
    /\ Len(Candidates) \in Nat
    /\ \A k \in 1..Len(Candidates) : \A f \in Candidates[k] : f.name \in Ids /\ IsFunction(f)
    /\ DOMAIN InputTypes = DOMAIN OutputTypes
    /\ Converters \subseteq DOMAIN InputTypes

VARIABLES
    functions,      \* _functions: id -> what the handlers know of a function
    deferred_bindings_enabled,
    source,         \* id -> the function that was added with that id
    http_v2,        \* HTTP streaming is enabled
    loads           \* functions added so far, or rejected

vars == <<functions, deferred_bindings_enabled, source, http_v2, loads>>

(* The bindings ***********************************************************)

SupportsDeferred(anno) == DeferredTypes # {} /\ anno # None /\ anno.py = "client" /\ ~anno.out

\* A type without a converter has the generic one.
has_implicit_output(type) ==
    IF type \in DOMAIN InputTypes THEN type \in Converters ELSE type # "durableClient"

check_input_type_annotation(type, py, deferred) ==
    CASE type = "httpTrigger" /\ http_v2 -> py = "stream"
      [] deferred /\ (type # "httpTrigger" \/ ~http_v2) -> type \in DeferredTypes
      [] OTHER -> py \in IF type \in DOMAIN InputTypes THEN InputTypes[type] ELSE {"str"}

check_output_type_annotation(type, py) ==
    IF type = "http" /\ http_v2
    THEN py = "stream"
    ELSE py \in IF type \in DOMAIN OutputTypes THEN OutputTypes[type] ELSE {"str"}

ValidDirection(b) == b.direction # "inout" /\ (b.name = "$return" => b.direction = "out")

\* Mutant: the last binding with an output counts, "$return" or not.
LastReturnBinding(state, b) ==
    IF b.name = "$return" \/ has_implicit_output(b.type)
    THEN [state EXCEPT !.type = b.type, !.explicit = @ \/ b.name = "$return"]
    ELSE state

\* One step of the loop over the bindings: the first "$return" decides, or
\* else the last binding with an implicit output.
get_return_binding(state, b) ==
    CASE state.explicit -> state
      [] b.name = "$return" /\ ~state.explicit -> [type |-> b.type, explicit |-> TRUE]
      [] b.name # "$return" /\ ~state.explicit /\ has_implicit_output(b.type) ->
             [state EXCEPT !.type = b.type]
      [] OTHER -> state

ReturnBinding(f) ==
    LET after[i \in 0..Len(f.bindings)] ==
            IF i = 0 THEN [type |-> None, explicit |-> FALSE]
            ELSE get_return_binding(after[i - 1], f.bindings[i])
    IN  after[Len(f.bindings)]

HasExplicitReturn(f) == \E i \in 1..Len(f.bindings) : f.bindings[i].name = "$return"

HasImplicitReturn(f) ==
    \E i \in 1..Len(f.bindings) :
        f.bindings[i].name # "$return" /\ has_implicit_output(f.bindings[i].type)

BoundNames(f) == {f.bindings[i].name : i \in 1..Len(f.bindings)} \ {"$return"}

\* bound_params: the last binding of a name is kept.
Bound(f, name) ==
    f.bindings[CHOOSE i \in 1..Len(f.bindings) :
        /\ f.bindings[i].name = name
        /\ \A j \in (i + 1)..Len(f.bindings) : f.bindings[j].name # name]

(* The signature **********************************************************)

\* The parameter named context is the invocation's context when no binding
\* has that name.
RequiresContext(f) == "context" \in DOMAIN f.params \ BoundNames(f)

ValidContext(f) ==
    RequiresContext(f) => f.params["context"] \in {None, [out |-> FALSE, py |-> "class"]}

Params(f) == IF RequiresContext(f) THEN DOMAIN f.params \ {"context"} ELSE DOMAIN f.params

\* A parameter is annotated with str or bytes.
IsText(f, p) == f.params[p] # None /\ f.params[p].py = "str"

\* Mutant: a parameter without an annotation is generic too.
GenericUnlessTyped(f, p) ==
    IF (f.params[p] = None \/ IsText(f, p)) /\ ~has_implicit_output(Bound(f, p).type)
    THEN "generic" ELSE Bound(f, p).type

\* The type a parameter is converted with.
ParamBindType(f, p) ==
    IF IsText(f, p) /\ ~has_implicit_output(Bound(f, p).type)
    THEN "generic" ELSE Bound(f, p).type

ValidParam(f, p) ==
    LET anno == f.params[p]
        isOut == Bound(f, p).direction = "out"
    IN  anno # None =>
            /\ anno.py \notin {"nontype", "missing"}
            /\ anno.out <=> isOut
            /\ IF anno.out
               THEN check_output_type_annotation(ParamBindType(f, p), anno.py)
               ELSE check_input_type_annotation(ParamBindType(f, p), anno.py,
                                                SupportsDeferred(anno))

\* Only an explicit return is checked against its annotation.
ValidReturn(f) ==
    HasExplicitReturn(f) /\ f.return_anno # None =>
        /\ ~f.return_anno.out
        /\ f.return_anno.py \notin {"nontype", "missing"}
        /\ check_output_type_annotation(ReturnBinding(f).type, f.return_anno.py)

\* Mutant: a parameter without a binding is overlooked.
AcceptedUnbound(f) ==
    /\ \A i \in 1..Len(f.bindings) : ValidDirection(f.bindings[i])
    /\ ValidContext(f)
    /\ Params(f) \subseteq BoundNames(f)
    /\ \A p \in Params(f) : ValidParam(f, p)
    /\ ValidReturn(f)

\* No FunctionLoadError is raised.
Accepted(f) ==
    /\ \A i \in 1..Len(f.bindings) : ValidDirection(f.bindings[i])
    /\ ValidContext(f)
    /\ Params(f) = BoundNames(f)
    /\ \A p \in Params(f) : ValidParam(f, p)
    /\ ValidReturn(f)

(* The registry ***********************************************************)

TypeInfo(f, p) ==
    [binding_name |-> ParamBindType(f, p), deferred |-> SupportsDeferred(f.params[p])]

HttpTriggerParam(types) ==
    IF \E p \in DOMAIN types : types[p].binding_name = "httpTrigger"
    THEN CHOOSE p \in DOMAIN types : types[p].binding_name = "httpTrigger"
    ELSE None

FunctionInfo(f) ==
    LET outputs == {p \in Params(f) : Bound(f, p).direction = "out"}
        inputs == [p \in Params(f) \ outputs |-> TypeInfo(f, p)]
        hasReturn == HasExplicitReturn(f) \/ HasImplicitReturn(f)
    IN  [requires_context |-> RequiresContext(f),
         has_return |-> hasReturn,
         deferred_bindings_enabled |-> \E p \in Params(f) : SupportsDeferred(f.params[p]),
         input_types |-> inputs,
         output_types |-> [p \in outputs |-> TypeInfo(f, p)],
         return_type |-> IF hasReturn THEN ReturnBinding(f).type ELSE None,
         trigger_param |-> HttpTriggerParam(inputs)]

TypeOK ==
    /\ DOMAIN functions \subseteq Ids
    /\ DOMAIN source = DOMAIN functions
    /\ \A id \in DOMAIN functions :
           /\ functions[id].requires_context \in BOOLEAN
           /\ functions[id].has_return \in BOOLEAN
           /\ functions[id].deferred_bindings_enabled \in BOOLEAN
           /\ IsFunction(source[id])
    /\ deferred_bindings_enabled \in BOOLEAN
    /\ http_v2 \in BOOLEAN
    /\ loads \in 0..Len(Candidates)

Init ==
    /\ functions = <<>>
    /\ deferred_bindings_enabled = FALSE
    /\ source = <<>>
    /\ http_v2 \in BOOLEAN
    /\ loads = 0

With(map, id, value) ==
    [x \in DOMAIN map \cup {id} |-> IF x = id THEN value ELSE map[x]]

\* Mutant: the registry is built anew for the function.
RegisterOnly(id, f) ==
    /\ functions' = [x \in {id} |-> FunctionInfo(f)]
    /\ source' = [x \in {id} |-> f]
    /\ deferred_bindings_enabled' =
           (deferred_bindings_enabled \/ FunctionInfo(f).deferred_bindings_enabled)

\* A function with the same id is replaced; the flag stays once it is set.
Register(id, f) ==
    /\ functions' = With(functions, id, FunctionInfo(f))
    /\ source' = With(source, id, f)
    /\ deferred_bindings_enabled' =
           (deferred_bindings_enabled \/ FunctionInfo(f).deferred_bindings_enabled)

CountLoad == loads' = loads + 1 /\ UNCHANGED http_v2

\* A load request of a function that is not registered yet.
add_function(id, f) ==
    /\ CountLoad
    /\ id \notin DOMAIN functions
    /\ Accepted(f)
    /\ Register(id, f)

\* A function found by indexing, which may run again.
add_indexed_function(f) ==
    /\ CountLoad
    /\ Accepted(f)
    /\ Register(f.name, f)

\* Mutant: the entry is made before the function is checked.
RejectRegistered(id, f) ==
    /\ CountLoad
    /\ ~Accepted(f)
    /\ functions' = With(functions, id, [requires_context |-> FALSE])
    /\ UNCHANGED <<source, deferred_bindings_enabled>>

\* A FunctionLoadError leaves the registry as it was.
Reject(id, f) ==
    /\ CountLoad
    /\ ~Accepted(f)
    /\ UNCHANGED <<functions, source, deferred_bindings_enabled>>

Next ==
    /\ loads < Len(Candidates)
    /\ \E f \in Candidates[loads + 1] :
        \/ \E id \in Ids : add_function(id, f)
        \/ add_indexed_function(f)
        \/ \E id \in Ids : Reject(id, f)

Spec == Init /\ [][Next]_vars

(* Properties *************************************************************)

Registered == DOMAIN functions

\* The binding of each name in the metadata sent to the host
\* (loader.build_binding_protos, a dictionary filled in order).
HostBindings(f) ==
    {f.bindings[i] : i \in {i \in 1..Len(f.bindings) :
        \A j \in (i + 1)..Len(f.bindings) : f.bindings[j].name # f.bindings[i].name}}

\* The host sends a value for every "in" binding it was told of, whose type the
\* invocation handler looks up without a check, and expects one for every
\* "out" binding; the inputs sent, the outputs and the context are exactly the
\* parameters the user's function is called with (validate_function_params
\* against build_binding_protos and the handler's args, for two bindings of
\* one name as well).
CallMatchesSignature ==
    \A id \in Registered :
        LET info == functions[id]
            sent == {b.name : b \in {b \in HostBindings(source[id]) : b.direction = "in"}}
            expected == {b.name : b \in {b \in HostBindings(source[id]) : b.direction = "out"}}
            outputs == DOMAIN info.output_types
            context == IF info.requires_context THEN {"context"} ELSE {}
        IN  /\ sent = DOMAIN info.input_types
            /\ expected \ {"$return"} = outputs
            /\ sent \cup outputs \cup context = DOMAIN source[id].params

\* A function with an HTTP trigger is one to the handler, which waits for its
\* HTTP call, and the parameter replaced by the call is one of its inputs and
\* the trigger (param_bind_type and _get_http_trigger_param_name).  One whose
\* parameter is annotated with str or bytes is converted as generic instead.
HttpTriggerRecognised ==
    \A id \in Registered :
        LET f == source[id]
            trigger == functions[id].trigger_param
            IsTrigger(p) == p \in DOMAIN functions[id].input_types
                                /\ Bound(f, p).type = "httpTrigger"
        IN  /\ (\E b \in HostBindings(f) :
                    b.type = "httpTrigger" /\ b.direction = "in" /\ ~IsText(f, b.name)) =>
                IsTrigger(trigger)
            /\ trigger # None => IsTrigger(trigger)

\* The order of the bindings, which the map of a FunctionLoadRequest does not
\* keep, decides nothing for a function with a "$return" or at most one
\* binding with an implicit output (the loop of add_function).
OrderIndependent ==
    \A id \in Registered :
        LET f == source[id]
            places == 1..Len(f.bindings)
            implicit == {i \in places : has_implicit_output(f.bindings[i].type)}
            orders == {o \in [places -> places] : \A i, j \in places : o[i] = o[j] => i = j}
            distinct == \A i, j \in places : f.bindings[i].name = f.bindings[j].name => i = j
        IN  distinct /\ (HasExplicitReturn(f) \/ Cardinality(implicit) <= 1) =>
                \A o \in orders :
                    FunctionInfo([f EXCEPT !.bindings = [i \in places |-> f.bindings[o[i]]]])
                        = functions[id]

\* A registered function stays one, and is replaced only by one that passed
\* the checks: an invocation that was possible stays possible.  While a function
\* with deferred bindings is registered, the worker goes on to announce them
\* (_deferred_bindings_enabled), whatever is added after it.
StaysRegistered ==
    [][/\ \A id \in Registered :
            /\ id \in Registered'
            /\ functions'[id] # functions[id] => Accepted(source'[id])
       /\ (\E id \in Registered : functions[id].deferred_bindings_enabled) =>
            deferred_bindings_enabled']_vars
=============================================================================
