-------------------------- MODULE FunctionIndexing --------------------------
(***************************************************************************)
(* How the functions of an app come to be known to the host and registered *)
(* in each worker process, and how a worker decides whether the app streams*)
(* HTTP (load_function_metadata and its callers in dispatcher.py, loader.py*)
(* and HttpV2Registry in http_v2.py).                                      *)
(*                                                                         *)
(* The host starts several workers with the same settings.  It asks one of *)
(* them for the metadata of the functions and then sends each worker a load*)
(* request per function.  A worker indexes the app when it is initialised, *)
(* when it is asked for metadata or when it has to load a function it does *)
(* not know; the app may stream HTTP, in which case the worker starts a    *)
(* server and tells the host its address.  A worker may have been started  *)
(* as a placeholder, for no app, and be given the app by a reload.         *)
(*                                                                         *)
(* A handler is one step: none of those modelled here suspends.            *)
(***************************************************************************)
EXTENDS Naturals, Sequences

CONSTANTS
    Workers,        \* the worker processes
    Sites,          \* the apps with their settings that a worker may be given
    Placeholders,   \* what a worker has before it is given one
    None,           \* Python's None
    Faults          \* the failures of FaultKinds that may happen

FaultKinds ==
    {"import_error",     \* the app's module cannot be imported at the moment
     "server_error",     \* the HTTP server cannot be started
     "extension_error"}  \* the extensions of a function cannot be loaded

\* How a function is triggered: not by HTTP, or by HTTP with a parameter that
\* is annotated as a request of azure.functions ("plain"), as one of the web
\* framework ("streaming"), or not at all.
HttpKinds == {"no", "plain", "streaming", "unannotated"}

\* What the function's $return binding of type http is annotated with, in the
\* same terms; "unchecked" if it has no such binding or no return annotation.
ReturnKinds == {"plain", "streaming", "unchecked"}

\* What is wrong with a function: it does not pass the registry's checks, or
\* it does and its metadata cannot be built (build_retry_protos).
Defects == {"none", "rejected", "unsendable"}

IsSite(site) ==
    /\ site.app.legacy \in BOOLEAN          \* no script file: function.json
    /\ site.app.web \in BOOLEAN             \* it imports a web extension
    /\ site.app.base \in BOOLEAN            \* the base extension is installed
    /\ site.app.functions \in
            Seq([name : STRING, http : HttpKinds, returns : ReturnKinds, defect : Defects])
    /\ site.init_indexing \in {"true", "false", "neither"}
    /\ site.script_valid \in BOOLEAN        \* PYTHON_SCRIPT_FILE_NAME

ASSUME SitesAreSites == \A site \in Sites \cup Placeholders : IsSite(site)
ASSUME PlaceholdersAreLegacy == \A site \in Placeholders : site.app.legacy
ASSUME IndexingFaults == Faults \subseteq FaultKinds

VARIABLES
    site,       \* the app the host serves
    placeholder,\* what placeholders run
    worker,     \* worker -> its phase and the state its handlers keep
    address,    \* worker -> the host has the address of its HTTP server
    reply,      \* worker -> its last answer to a metadata request for the site
    known,      \* the functions of the site the host knows of
    loaded,     \* worker -> the functions it answered to have loaded
    invoked     \* the invocations of functions with an HTTP trigger

vars == <<site, placeholder, worker, address, reply, known, loaded, invoked>>

Functions(s) == s.app.functions
NamesOf(s) == {Functions(s)[i].name : i \in DOMAIN Functions(s)}

AllNames == UNION {NamesOf(s) : s \in Sites \cup Placeholders}

\* None is not a result of indexing.
ASSUME NoneIsNoResult == \A names \in SUBSET AllNames : None # names

Phases == {"created", "placeholder", "serving", "failed"}

\* checked is _http_v2_enabled_checked, with the phase in which it was set.
WorkerStates ==
    [phase : Phases,
     checked : {"never", "placeholder", "serving"},
     enabled : BOOLEAN,                     \* _http_v2_enabled
     imported : BOOLEAN,                    \* a web extension was imported
     registered : SUBSET AllNames,          \* the keys of the registry
     result : (SUBSET AllNames) \cup {None},\* _function_metadata_result
     exception : BOOLEAN]                   \* _function_metadata_exception

TypeOK ==
    /\ site \in Sites
    /\ placeholder \in Placeholders
    /\ worker \in [Workers -> WorkerStates]
    /\ address \in [Workers -> BOOLEAN]
    /\ reply \in [Workers -> {"none", "failure", "default", "functions"}]
    /\ known \subseteq AllNames
    /\ loaded \in [Workers -> SUBSET AllNames]
    /\ invoked \subseteq
            [worker : Workers, function : AllNames, streamed : BOOLEAN,
             forwarded : BOOLEAN, exception : BOOLEAN]

Created ==
    [phase |-> "created", checked |-> "never", enabled |-> FALSE,
     imported |-> FALSE, registered |-> {}, result |-> None, exception |-> FALSE]

Init ==
    /\ site \in Sites
    /\ placeholder \in Placeholders
    /\ worker = [w \in Workers |-> Created]
    /\ address = [w \in Workers |-> FALSE]
    /\ reply = [w \in Workers |-> "none"]
    /\ known = {}
    /\ loaded = [w \in Workers |-> {}]
    /\ invoked = {}

(* Whether the app streams HTTP *******************************************)

\* The question raises an exception: the base extension is not installed.
AskRaises(c, s) ==
    c.checked = "never" /\ s.init_indexing # "false" /\ ~s.app.base

http_v2_enabled(c, s) ==
    IF c.checked # "never" THEN c.enabled
    ELSE s.init_indexing # "false" /\ s.app.base /\ c.imported

\* The first question decides, and it counts as asked before it is answered.
Asked(c, s) ==
    [c EXCEPT !.enabled = http_v2_enabled(c, s),
              !.checked = IF @ = "never" THEN c.phase ELSE @]

(* Registration ***********************************************************)

\* The annotations that depend on whether the app streams HTTP: that of the
\* HTTP trigger and that of an HTTP return value.
Annotations(f) == {f.http, f.returns} \cap {"plain", "streaming"}

\* A function that is rejected is so before its annotations are looked at.
Asks(f) == Annotations(f) # {} /\ f.defect # "rejected"

\* The registry does not take the function: a check fails, or an annotation
\* is not the one the mode calls for.
Refuses(f, c, s) ==
    \/ f.defect = "rejected"
    \/ /\ Asks(f)
       /\ \/ AskRaises(c, s)
          \/ Annotations(f) # {IF http_v2_enabled(c, s) THEN "streaming" ELSE "plain"}

Fails(f, c, s) == f.defect = "unsendable" \/ Refuses(f, c, s)

\* Functions are registered one by one, up to the first that fails.
Registered(fs, c, s) ==
    LET reached == {i \in DOMAIN fs : \A j \in 1..(i - 1) : ~Fails(fs[j], c, s)}
        kept == {i \in reached : ~Refuses(fs[i], c, s)}
        after == IF \E i \in reached : Asks(fs[i]) THEN Asked(c, s) ELSE c
    IN [after EXCEPT !.registered = @ \cup {fs[i].name : i \in kept}]

Importing(c, s) == [c EXCEPT !.imported = @ \/ s.app.web]

\* What an import statement that fails leaves: it may have got as far as the
\* web extension.
FailedImport(c, s) ==
    IF "import_error" \in Faults THEN {c, Importing(c, s)} ELSE {}

Raised(c) == [state |-> c, raised |-> TRUE]
Ended(c) == [state |-> c, raised |-> FALSE]

index_functions(c, s) ==
    LET ready == Importing(c, s)
        after == Registered(Functions(s), ready, s)
    IN {Raised(d) : d \in FailedImport(c, s)} \cup
       IF \E i \in DOMAIN Functions(s) : Fails(Functions(s)[i], ready, s)
       THEN {Raised(after)}
       ELSE {Ended([after EXCEPT !.result = IF Functions(s) = <<>> THEN None
                                                             ELSE NamesOf(s)])}

\* The possible ends of load_function_metadata.
load_function_metadata(c, s) ==
    IF ~s.script_valid THEN {Raised(c)}
    ELSE IF s.app.legacy THEN {Ended([c EXCEPT !.result = None])}
    ELSE index_functions(c, s)

\* Mutant: an indexing that succeeds forgets the exception of one before it.
SavedLast(end) == [end.state EXCEPT !.exception = end.raised]

\* Mutant: an exception is logged and not kept.
NotSaved(end) == end.state

\* An exception is kept, and never cleared.
Saved(end) == [end.state EXCEPT !.exception = @ \/ end.raised]

(* The worker's handlers **************************************************)

\* The settings and the app a worker has.
EnvOf(w) == IF worker[w].phase = "placeholder" THEN placeholder ELSE site

Become(w, state) == worker' = [worker EXCEPT ![w] = state]

\* What the init and the reload request do to index the app: the state after
\* it, and whether the response has the address of an HTTP server.  An
\* exception is kept for later, except that of the HTTP server.
InitIndexing(c, s) ==
    {[state |-> Saved(end), address |-> FALSE] :
        end \in {e \in load_function_metadata(c, s) : e.raised}}
    \cup UNION
    {IF AskRaises(end.state, s)
     THEN {[state |-> Saved(Raised(Asked(end.state, s))), address |-> FALSE]}
     ELSE {[state |-> Asked(end.state, s),
            address |-> http_v2_enabled(end.state, s)]}
          \cup (IF http_v2_enabled(end.state, s) /\ "server_error" \in Faults
                THEN {[state |-> [Asked(end.state, s) EXCEPT !.phase = "failed"],
                       address |-> FALSE]}
                ELSE {}) :
        end \in {e \in load_function_metadata(c, s) : ~e.raised}}

Initialised(c, s) ==
    IF s.init_indexing = "true" THEN InitIndexing(c, s)
    ELSE {[state |-> c, address |-> FALSE]}

\* Mutant: the app is indexed before the worker knows what it serves.
WorkerInitUnphased(w, phase) ==
    /\ worker[w].phase = "created"
    /\ \E end \in Initialised(worker[w],
                             IF phase = "placeholder" THEN placeholder ELSE site) :
        /\ Become(w, [end.state EXCEPT !.phase = phase])
        /\ address' = [address EXCEPT ![w] = end.address]
    /\ UNCHANGED <<site, placeholder, reply, known, loaded, invoked>>

WorkerInit(w, phase) ==
    /\ worker[w].phase = "created"
    /\ LET c == [worker[w] EXCEPT !.phase = phase]
           s == IF phase = "placeholder" THEN placeholder ELSE site
       IN \E end \in Initialised(c, s) :
            /\ Become(w, end.state)
            /\ address' = [address EXCEPT ![w] = end.address]
    /\ UNCHANGED <<site, placeholder, reply, known, loaded, invoked>>

\* A placeholder is given the app and its settings.  The response to a reload
\* fails if the HTTP server cannot be started.
FunctionEnvironmentReload(w) ==
    /\ worker[w].phase = "placeholder"
    /\ \E end \in Initialised([worker[w] EXCEPT !.phase = "serving"], site) :
        /\ Become(w, end.state)
        /\ address' = [address EXCEPT ![w] = end.address]
    /\ loaded' = [loaded EXCEPT ![w] = {}]
    /\ UNCHANGED <<site, placeholder, reply, known, invoked>>

\* The worker's answer, and what the host knows from it: the functions, or
\* that it has to look for a function.json of each itself.
FunctionsMetadata(w) ==
    /\ worker[w].phase = "serving"
    /\ \E c \in IF site.init_indexing = "true" THEN {worker[w]}
               ELSE {Saved(end) : end \in load_function_metadata(worker[w], site)} :
        /\ Become(w, c)
        /\ IF c.exception
           THEN /\ reply' = [reply EXCEPT ![w] = "failure"]
                /\ UNCHANGED known
           ELSE IF c.result = None
           THEN /\ reply' = [reply EXCEPT ![w] = "default"]
                /\ known' = IF site.app.legacy THEN NamesOf(site) ELSE {}
           ELSE /\ reply' = [reply EXCEPT ![w] = "functions"]
                /\ known' = c.result
    /\ UNCHANGED <<site, placeholder, address, loaded, invoked>>

\* The functions the host may load: a placeholder's have a function.json.
Loadable(w) ==
    CASE worker[w].phase = "serving" -> known
      [] worker[w].phase = "placeholder" -> NamesOf(placeholder)
      [] OTHER -> {}

Named(s, name) == {i \in DOMAIN Functions(s) : Functions(s)[i].name = name}

\* A function with a function.json is imported and registered alone.
LoadLegacy(c, s, name) ==
    LET ready == Importing(c, s) IN
    {Raised(d) : d \in FailedImport(c, s)} \cup
    {LET f == Functions(s)[i] IN
     [state |-> Registered(<<f>>, ready, s), raised |-> Refuses(f, ready, s)] :
        i \in Named(s, name)}

\* Mutant: the exception of the indexing is kept for the metadata request only.
LoadIndexedUnraised(c, s) ==
    {Ended(Saved(end)) : end \in load_function_metadata(c, s)}

\* A function that worker indexing found is looked for by indexing the app:
\* an exception, of this indexing or of an earlier one, is raised.
LoadIndexed(c, s) ==
    {[state |-> Saved(end), raised |-> Saved(end).exception] :
        end \in load_function_metadata(c, s)}

Found(c, s, name) ==
    IF name \in c.registered THEN {Ended(c)}
    ELSE IF s.app.legacy THEN LoadLegacy(c, s, name)
    ELSE LoadIndexed(c, s)

\* The response says that the function was loaded unless finding it or
\* loading its extensions raised an exception.
FunctionLoad(w, name) ==
    /\ name \in Loadable(w)
    /\ \E end \in Found(worker[w], EnvOf(w), name) :
        /\ Become(w, end.state)
        /\ \/ /\ ~end.raised
              /\ loaded' = [loaded EXCEPT ![w] = @ \cup {name}]
           \/ /\ end.raised \/ "extension_error" \in Faults
              /\ UNCHANGED loaded
    /\ UNCHANGED <<site, placeholder, address, reply, known, invoked>>

\* Whether the registry records an HTTP trigger for the function.
is_http_func(s, name) == \E i \in Named(s, name) : Functions(s)[i].http # "no"

\* The invocation of a function with an HTTP trigger waits for the HTTP call
\* if the app streams HTTP, and fails if that question raises an exception.
\* The host sends the call to the worker's server if it has its address.
Invocation(w, name) ==
    /\ name \in loaded[w] \cap worker[w].registered
    /\ is_http_func(EnvOf(w), name)
    /\ LET c == worker[w]
           s == EnvOf(w)
       IN /\ Become(w, Asked(c, s))
          /\ invoked' = IF AskRaises(c, s) THEN invoked ELSE invoked \cup
                {[worker |-> w, function |-> name,
                  streamed |-> http_v2_enabled(c, s),
                  forwarded |-> address[w], exception |-> c.exception]}
    /\ UNCHANGED <<site, placeholder, address, reply, known, loaded>>

Next ==
    \E w \in Workers :
        \/ \E phase \in {"placeholder", "serving"} : WorkerInit(w, phase)
        \/ FunctionEnvironmentReload(w)
        \/ FunctionsMetadata(w)
        \/ \E name \in Loadable(w) : FunctionLoad(w, name)
        \/ \E name \in loaded[w] : Invocation(w, name)

Spec == Init /\ [][Next]_vars

(* Properties *************************************************************)

\* A successful answer to a metadata request is the whole app: its functions
\* are all registered in the worker that answers, and the host is told to look
\* for a function.json only when there are none (the metadata handler, after
\* an indexing that may have failed at start-up or in the middle).
MetadataTruthful ==
    \A w \in Workers :
        /\ reply[w] = "functions" => NamesOf(site) \subseteq worker[w].registered
        /\ reply[w] = "default" => site.app.legacy \/ Functions(site) = <<>>

\* A function that a worker answered to have loaded is in its registry, also
\* in a worker that was never asked for the functions' metadata (the load
\* handler does not look it up again after it has indexed the app).
LoadTruthful == \A w \in Workers : loaded[w] \subseteq worker[w].registered

\* An invocation waits for an HTTP call exactly when the host sends one: the
\* worker's mode is that of the response to its init or reload request, if the
\* setting says when the app is indexed ("neither", which is also what an unset
\* variable is, does not) and no indexing failed in the worker.
HttpModeAgreed ==
    \A i \in invoked :
        site.init_indexing \in {"true", "false"} /\ ~i.exception =>
            i.streamed = i.forwarded

\* Indexing is to "save the results in function_metadata_result or
\* function_metadata_exception in case of an exception" (load_function_metadata):
\* a worker that has saved the functions of the app does not answer a metadata
\* request with an exception.
IndexedIsAnswered ==
    \A w \in Workers : reply[w] = "failure" => worker[w].result = None

=============================================================================
