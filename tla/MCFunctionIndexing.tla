------------------------- MODULE MCFunctionIndexing -------------------------
(* Instances of FunctionIndexing: apps of at most two functions.           *)
EXTENDS FunctionIndexing, TLC

Function(name, http, defect) ==
    [name |-> name, http |-> http, returns |-> "unchecked", defect |-> defect]

\* A function in order whose return value is an HTTP response.
Responder(name, http, returns) ==
    [name |-> name, http |-> http, returns |-> returns, defect |-> "none"]

App(legacy, web, base, functions) ==
    [legacy |-> legacy, web |-> web, base |-> base, functions |-> functions]

With(app, valid) ==
    {[app |-> app, init_indexing |-> setting, script_valid |-> valid] :
        setting \in {"true", "false", "neither"}}

Triggers == {"plain", "streaming", "unannotated"}

\* Beside an HTTP function: one without a trigger of HTTP that is in order, is
\* refused or cannot be sent, or one with an HTTP request of azure.functions.
Others ==
    {Function("g", "no", defect) : defect \in Defects}
        \cup {Function("g", "plain", "none")}

Indexed ==
    {App(FALSE, web, TRUE, <<Function("f", http, "none"), g>>) :
        web \in BOOLEAN, http \in Triggers, g \in Others}

\* Only the annotation of a return value asks whether the app streams HTTP,
\* that of a function with an HTTP trigger or without.
Responding ==
    {App(FALSE, web, TRUE,
         <<Function("f", "unannotated", "none"), Responder("g", http, "streaming")>>) :
        web \in BOOLEAN, http \in {"no", "unannotated"}}

Legacy ==
    {App(TRUE, web, TRUE,
         <<Function("f", http, "none"), Function("g", "no", "rejected")>>) :
        web \in BOOLEAN, http \in Triggers}

WithoutBase ==
    {App(legacy, FALSE, FALSE,
         <<Function("f", "plain", "none"), Function("g", http, "none")>>) :
        legacy \in BOOLEAN, http \in {"plain", "unannotated"}}

Empty == App(FALSE, TRUE, TRUE, <<>>)

SmallSites ==
    UNION {With(app, TRUE) :
               app \in Indexed \cup Responding \cup Legacy \cup WithoutBase \cup {Empty}}
        \cup With(Empty, FALSE)

WithBase == {s \in SmallSites : s.app.base}

\* A placeholder with a function that has an HTTP trigger.
WarmUp ==
    {[app |-> App(TRUE, FALSE, TRUE, <<Function("warmup", http, "none")>>),
      init_indexing |-> "neither", script_valid |-> TRUE] :
        http \in {"plain", "unannotated"}}

\* The workers are interchangeable.
WorkerSymmetry == Permutations(Workers)
=============================================================================
