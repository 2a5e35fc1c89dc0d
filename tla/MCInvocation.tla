---------------------------- MODULE MCInvocation ----------------------------
(* Instances of Invocation: a sync function f and an async function g.     *)
EXTENDS Invocation, TLC

CONSTANTS f, g

\* The functions have one input.  In their first version f has a return value
\* and g an Out; the second has it the other way round, with another name.
InfoOfVersions(h, v) ==
    [is_async |-> h = g, deferred |-> h = f \/ v = 1, has_return |-> v = 1 <=> h = f,
     outputs |-> CASE h = f /\ v = 2 -> {"b"} [] h = g /\ v = 1 -> {"a"} [] OTHER -> {},
     input |-> "blob", pytype |-> "BlobClient"]

\* Model binding data of two resources, and data a deferred binding rejects.
TwoResources ==
    {[type |-> "model_binding_data", content |-> 1],
     [type |-> "model_binding_data", content |-> 2],
     [type |-> "string", content |-> 1]}

\* The first of two extensions of the function fails before it.
FailingFirst(hook) ==
    IF hook = "pre_invocation" THEN <<"raises", "returns">> ELSE <<"returns">>

InvocationSymmetry == Permutations(Invocations)
=============================================================================
