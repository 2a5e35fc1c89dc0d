------------------------- MODULE MCFunctionRegistry -------------------------
(* Instances of FunctionRegistry.                                          *)
EXTENDS FunctionRegistry

Binding(name, type, direction) == [name |-> name, type |-> type, direction |-> direction]

\* An HTTP trigger and response, a queue and a blob, with converters but no
\* implicit output; an activity, whose converter has one, and a type without a
\* converter; a name that is bound twice, one that is the context's, and
\* directions that are not allowed.
Bindings ==
    {Binding("req", "httpTrigger", "in"), Binding("$return", "http", "out"),
     Binding("$return", "queue", "in"), Binding("msg", "queue", "out"),
     Binding("msg", "queue", "in"), Binding("gen", "dapr", "out"),
     Binding("gen", "blob", "in"), Binding("context", "durableClient", "in"),
     Binding("act", "activityTrigger", "in"), Binding("msg", "queue", "inout")}

MCInputTypes ==
    [httpTrigger |-> {"http"}, http |-> {}, queue |-> {"class"}, blob |-> {"str", "class"},
     activityTrigger |-> PyTypes]
MCOutputTypes ==
    [httpTrigger |-> {"http", "str"}, http |-> {"http", "str"},
     queue |-> {"class", "str"}, blob |-> {"str"}, activityTrigger |-> PyTypes]

Anno(out, py) == [out |-> out, py |-> py]

Annos == {None, Anno(FALSE, "http"), Anno(FALSE, "stream"), Anno(FALSE, "str"),
          Anno(FALSE, "class"), Anno(TRUE, "str"), Anno(FALSE, "client"),
          Anno(TRUE, "missing")}

Function(name, bindings, params, return_anno) ==
    [name |-> name, bindings |-> bindings, params |-> params, return_anno |-> return_anno]

NamesOf(bindings) == {bindings[i].name : i \in 1..Len(bindings)} \ {"$return"}

Pairs == {<<b>> : b \in Bindings} \cup {<<b, c>> : b, c \in Bindings}

\* One or two bindings with every annotation of their parameters.
Annotated ==
    UNION {{Function("f", bindings, params, None) :
                params \in [NamesOf(bindings) -> Annos]} : bindings \in Pairs}

\* A parameter too few or too many, and the context's with its annotations.
Mismatched ==
    UNION {{Function("f", bindings, params, None) :
                params \in [NamesOf(bindings) \ {"msg"} -> {None}]
                    \cup [NamesOf(bindings) \cup {"gen"} -> {None}]
                    \cup [NamesOf(bindings) \cup {"context"} ->
                             {None, Anno(FALSE, "class"), Anno(FALSE, "str")}]} :
           bindings \in Pairs}

\* Every annotation of the return value.
Returning ==
    {Function("f", bindings, [n \in NamesOf(bindings) |-> None], ret) :
        bindings \in Pairs,
        ret \in {Anno(FALSE, "str"), Anno(FALSE, "stream"), Anno(TRUE, "str"),
                 Anno(FALSE, "nontype")}}

\* Three bindings.
Triples ==
    {Function("f", <<b, c, d>>, [n \in NamesOf(<<b, c, d>>) |-> None], None) :
        b, c, d \in Bindings}

Signatures == Annotated \cup Mismatched \cup Returning \cup Triples

\* Functions that replace each other, with deferred bindings and without, and
\* one that is rejected.
Replacements ==
    {Function(name, <<Binding("gen", "blob", "in")>>, [gen |-> Anno(FALSE, py)], None) :
        name \in {"f", "g"}, py \in {"client", "str", "nontype"}}

MCCandidates == <<Replacements, Signatures, Replacements, Replacements>>
=============================================================================
