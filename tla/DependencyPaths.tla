--------------------------- MODULE DependencyPaths ---------------------------
(***************************************************************************)
(* Where Python finds the packages of the worker and of the customer       *)
(* (DependencyManager in utils/dependency.py).                             *)
(*                                                                         *)
(* The worker starts with its own packages and switches to those of the    *)
(* customer when the host initialises it; a worker that waits in a         *)
(* placeholder of Linux Consumption switches later, when the host reloads  *)
(* its environment.  A switch changes sys.path and forgets the modules     *)
(* that were imported from the paths it moves, so that they are found      *)
(* again under the new order; what it must not forget or keep depends on   *)
(* what was imported before.                                               *)
(***************************************************************************)
EXTENDS Naturals, Sequences, SequencesExt, FiniteSets

CONSTANTS
    Modules,        \* modules that may be imported
    Provides,       \* module -> the paths that have it
    AzureFunctions, \* the azure.functions module
    Reloaded,       \* the modules of the azure and google namespaces
    Layouts,        \* the sys.path a worker may start with
    NotLoaded       \* a module that is not in sys.modules

\* The customer's site-packages lie below the customer's directory.
Paths == {"worker", "deps", "dir"}
Under(p, q) == p = q \/ (p = "deps" /\ q = "dir")
NoPath == ""

ASSUME DependencyAssumption ==
    /\ Provides \in [Modules -> SUBSET Paths]
    /\ AzureFunctions \in Modules
    /\ "worker" \in Provides[AzureFunctions]
    /\ Reloaded \subseteq Modules
    /\ Layouts \subseteq Seq(Paths)
    /\ \A layout \in Layouts : "worker" \in ToSet(layout)
    /\ NotLoaded \notin Paths

\* script_root: AzureWebJobsScriptRoot, the customer's directory or nothing;
\* isolate: PYTHON_ISOLATE_WORKER_DEPENDENCIES is true (it is off by default).
Environments ==
    [script_root : {"dir", NoPath}, isolate : BOOLEAN,
     container : BOOLEAN, placeholder : BOOLEAN]

VARIABLES
    phase,          \* how far the worker is: see Phases
    env,            \* os.environ
    py,             \* path: sys.path; modules: sys.modules, module -> path
    cx_deps_path, cx_working_dir, worker_deps_path

vars == <<phase, env, py, cx_deps_path, cx_working_dir, worker_deps_path>>

Phases == {"started", "main", "initialized", "reloaded"}

TypeOK ==
    /\ phase \in Phases
    /\ env \in Environments
    /\ py \in [path : Seq(Paths), modules : [Modules -> Paths \cup {NotLoaded}]]
    /\ {cx_deps_path, cx_working_dir, worker_deps_path} \subseteq Paths \cup {NoPath}

\* Only Linux Consumption has placeholders, and only a placeholder may lack
\* the customer's directory.
Init ==
    /\ phase = "started"
    /\ env \in {e \in Environments :
                    /\ e.placeholder => e.container
                    /\ e.script_root = NoPath => e.placeholder}
    /\ \E layout \in Layouts :
           py = [path |-> layout, modules |-> [m \in Modules |-> NotLoaded]]
    /\ cx_deps_path = NoPath
    /\ cx_working_dir = NoPath
    /\ worker_deps_path = NoPath

(* sys.path and sys.modules ***********************************************)

OnPath(s, p) == p \in ToSet(s.path)

\* Mutant: a module's file is compared with the path for equality.
RemoveModuleNamedLikePath(s, p) == s

\* Forgets the modules whose file is below the path.
RemoveModuleCache(s, p) ==
    [s EXCEPT !.modules =
        [m \in Modules |-> IF s.modules[m] # NotLoaded /\ Under(s.modules[m], p)
                           THEN NotLoaded ELSE s.modules[m]]]

\* Mutant: an empty path is added as well.
AddEmptyToSysPath(s, p, first) ==
    IF OnPath(s, p) THEN s
    ELSE [s EXCEPT !.path = IF first THEN <<p>> \o s.path ELSE Append(s.path, p)]

AddToSysPath(s, p, first) ==
    IF p = NoPath \/ OnPath(s, p) THEN s
    ELSE RemoveModuleCache(
            [s EXCEPT !.path = IF first THEN <<p>> \o s.path ELSE Append(s.path, p)],
            p)

\* A path without any occurrence of an entry.
Without(path, p) ==
    LET kept[i \in 0..Len(path)] ==
            IF i = 0 THEN <<>>
            ELSE IF path[i] # p THEN Append(kept[i - 1], path[i]) ELSE kept[i - 1]
    IN  kept[Len(path)]

RemoveFromSysPath(s, p) ==
    IF p = NoPath THEN s
    ELSE RemoveModuleCache([s EXCEPT !.path = Without(s.path, p)], p)

\* The places of sys.path that have a module: Python takes the first.
Finds(s, m) == {i \in 1..Len(s.path) : s.path[i] \in Provides[m]}
Found(s, m) == s.path[Min(Finds(s, m))]

Imported(s, m) ==
    IF s.modules[m] = NotLoaded /\ Finds(s, m) # {}
    THEN [s EXCEPT !.modules[m] = Found(s, m)]
    ELSE s

(* DependencyManager ******************************************************)

GetCxDepsPath == IF env.script_root # NoPath /\ OnPath(py, "deps") THEN "deps" ELSE NoPath

is_in_linux_consumption == env.container

should_load_cx_dependencies == ~(is_in_linux_consumption /\ env.placeholder)

use_worker_dependencies(s, isolate, deps, dir, worker) ==
    IF isolate
    THEN AddToSysPath(RemoveFromSysPath(RemoveFromSysPath(s, deps), dir), worker, TRUE)
    ELSE s

\* Mutant: the worker's packages are not put back behind the customer's.
PrioritizeWithoutWorker(s, isolate, directory, root) ==
    LET dir == IF directory # NoPath THEN directory
               ELSE IF cx_working_dir # NoPath THEN cx_working_dir ELSE root
        customer == AddToSysPath(RemoveFromSysPath(s, worker_deps_path),
                                 cx_deps_path, TRUE)
    IN  IF isolate THEN AddToSysPath(customer, dir, FALSE) ELSE s

\* The isolation flag is read when the function is called: it may have come
\* with the environment that is being reloaded.
prioritize_customer_dependencies(s, isolate, directory, root) ==
    LET dir == IF directory # NoPath THEN directory
               ELSE IF cx_working_dir # NoPath THEN cx_working_dir ELSE root
        customer == AddToSysPath(RemoveFromSysPath(s, worker_deps_path),
                                 cx_deps_path, TRUE)
    IN  IF isolate
        THEN AddToSysPath(AddToSysPath(customer, worker_deps_path, FALSE), dir, FALSE)
        ELSE s

\* importlib.reload runs a module that was imported again, from where it is
\* found now; one that cannot be found stays as it is.
reload_azure_google_namespace(s) ==
    [s EXCEPT !.modules =
        [m \in Modules |->
            IF m \in Reloaded /\ s.modules[m] # NotLoaded /\ Finds(s, m) # {}
            THEN Found(s, m) ELSE s.modules[m]]]

reload_customer_libraries(s, isolate, directory, root) ==
    IF isolate
    THEN prioritize_customer_dependencies(s, isolate, directory, root)
    ELSE reload_azure_google_namespace(s)

(* The worker *************************************************************)

\* main: the attributes are computed before sys.path is changed.
Main ==
    /\ phase = "started"
    /\ phase' = "main"
    /\ cx_deps_path' = GetCxDepsPath
    /\ cx_working_dir' = env.script_root
    /\ worker_deps_path' = "worker"
    /\ py' = use_worker_dependencies(py, env.isolate, cx_deps_path',
                                     cx_working_dir', worker_deps_path')
    /\ UNCHANGED env

\* The init request.  The binding registry needs azure.functions.
WorkerInit ==
    /\ phase = "main"
    /\ phase' = "initialized"
    /\ py' = Imported(IF should_load_cx_dependencies
                      THEN prioritize_customer_dependencies(py, env.isolate, NoPath,
                                                            env.script_root)
                      ELSE py,
                      AzureFunctions)
    /\ UNCHANGED <<env, cx_deps_path, cx_working_dir, worker_deps_path>>

\* The host reloads the environment of a placeholder, once.
EnvironmentReload(isolate) ==
    /\ phase = "initialized"
    /\ env.placeholder
    /\ phase' = "reloaded"
    /\ env' = [script_root |-> "dir", isolate |-> isolate,
               container |-> TRUE, placeholder |-> FALSE]
    /\ py' = Imported(
                reload_customer_libraries([py EXCEPT !.path = Append(py.path, "dir")],
                                          isolate, "dir", "dir"),
                AzureFunctions)
    /\ UNCHANGED <<cx_deps_path, cx_working_dir, worker_deps_path>>

\* Any code that runs in the worker imports a module.
Import(m) ==
    /\ phase # "started"
    /\ py' = Imported(py, m)
    /\ UNCHANGED <<phase, env, cx_deps_path, cx_working_dir, worker_deps_path>>

Next ==
    \/ Main
    \/ WorkerInit
    \/ \E isolate \in BOOLEAN : EnvironmentReload(isolate)
    \/ \E m \in Modules : Import(m)

Spec == Init /\ [][Next]_vars

(* Properties *************************************************************)

\* The customer's packages have been given priority.
Prioritized ==
    /\ env.isolate
    /\ \/ phase = "initialized" /\ should_load_cx_dependencies
       \/ phase = "reloaded"

InSearchOrder ==
    \A i, j \in 1..Len(py.path) :
        <<py.path[i], py.path[j]>> \in
            {<<"deps", "worker">>, <<"deps", "dir">>, <<"worker", "dir">>}
        => i < j

\* With the customer's packages first, each module in sys.modules is the one
\* an import would find now: none of the worker's copies survives the switch
\* where the customer has one (prioritize_customer_dependencies).
CacheCoherent ==
    Prioritized =>
        \A m \in Modules : py.modules[m] # NotLoaded =>
            /\ Finds(py, m) # {}
            /\ py.modules[m] = Found(py, m)

\* What the worker is shipped with can be imported at any time, for the apps
\* that bring no azure.functions of their own (_add_to_sys_path of the
\* worker's path after its removal).
WorkerPackagesFound ==
    \A m \in Modules : "worker" \in Provides[m] => Finds(py, m) # {}

\* "The search order of a module name in customer's paths is: 1. cx_deps_path
\* 2. worker_deps_path 3. cx_working_dir" (dependency.py), after a reload too.
SearchOrder == Prioritized => InSearchOrder
=============================================================================
