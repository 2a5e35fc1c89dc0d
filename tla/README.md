# TLA+ models of the Azure Functions Python worker

The worker is one Python process that the Azure Functions host starts.  It
connects to the host over gRPC, loads or indexes a function app and runs its
functions when the host asks for it.  This directory holds TLA+ models of its
parts, the configurations that check them with TLC, and proofs that TLAPS
checks.  Paths below are relative to `src/azure_functions_worker/`.

    tlc -workers 2 -config HttpCoordinatorSafety.cfg MCHttpCoordinator.tla
    tlapm DispatcherProofs.tla

Contents: 1 inventory, 2 modules, 3 how the models read, 4 runs, 5 fairness,
6 proofs, 7 disagreements found, 8 what is not modelled, 9 plan.

## 1. Inventory

### The system's parts

| Part | Source | State it keeps | Operations |
|---|---|---|---|
| Dispatcher | `dispatcher.py` | response queue, pool of threads for sync functions, registered functions, a thread-local invocation id per thread, outcome of indexing | connect, dispatch_forever, stop; one handler per request of the host |
| HTTP coordinator | `http_v2.py` | invocation id → context reference (request, response, an event for each) | set and get of the HTTP request and of its response |
| HTTP server and registry | `http_v2.py` | whether the app streams HTTP, whether that was asked | catch_all, initialize_http_server, http_v2_enabled |
| Function indexing | `loader.py`, `dispatcher.py` | result or exception of the last indexing | load_function_metadata, index_functions, load_function |
| Function registry | `functions.py` | id → function info, flag for deferred bindings | add_function, add_indexed_function, get_function |
| Shared memory transfer | `bindings/shared_memory_data_transfer/` | the worker's open maps; one file per map in one of several directories | put and get of bytes and strings, free_mem_map |
| Dependency manager | `utils/dependency.py` | three paths; Python's `sys.path` and `sys.modules` | use_worker_dependencies, prioritize_customer_dependencies, reload_customer_libraries |
| Extension hooks | `extension.py` | whether the SDK was looked for, the SDK module found | function-load and invocation hooks |
| App settings | `utils/common.py`, `utils/wrappers.py`, `utils/app_setting_manager.py` | none but `os.environ` | typed reads with defaults and validators, the report of settings |
| Binding conversions | `bindings/meta.py`, `datumdef.py`, `generic.py`, `nullable_converters.py` | registry of converters, cache of deferred bindings | decode of inputs, encode of outputs |
| Logging | `logging.py` | handlers | set-up, formatting |
| Start-up | `main.py` | none | parse arguments, make the loop, connect |
| Windows shared memory, protobufs, typing inspection | `file_accessor_windows.py`, `protos/`, `_thirdparty/` | none | operating system calls, generated and third-party code |

### How they interact

- The **gRPC thread** reads the host's stream.  It hands each request to the
  **event loop** (`call_soon_threadsafe` of `create_task`), and its other half
  drains the response queue to the host.
- The loop runs **one task per request**.  An async function runs in the task,
  a sync function in a **thread of the pool** while the task is suspended.
  Everything that logs, in any thread, puts records into the response queue.
- With HTTP streaming a web server runs in the same loop, one `catch_all` task
  per HTTP call.  It meets the invocation's task in the **HTTP coordinator**.
- An invocation reads inputs from maps of the host, and writes its outputs into
  maps the host later asks the worker to **close**.
- The init and the reload request change `os.environ`, switch `sys.path` from
  the worker's packages to the customer's, and index functions again; the
  reload also replaces the thread pool while functions may be running in it.

### What is hard, and what must hold

| Part | Hard because | Correct when |
|---|---|---|
| HTTP coordinator | two channels in either order, duplicates of a call, a handler that publishes a response before it knows that its outputs encode, exceptions in between | each result goes to exactly one call, both channels tell the same outcome, nobody sleeps on a set event or forever |
| Dispatcher | three kinds of threads around one queue; a reload that blocks the loop; a stop with work in flight; a broken stream | one response per request; logs before it and with its invocation's id; requests begin in order; the pool keeps its size; stop ends and flushes |
| Shared memory | several directories, each system call may fail, files outlive the worker's handles, the host's cache changes who owns a file | what the host was told of is there and can be closed; what is closed is gone; nothing is read other than as written |
| Dependency manager | the order of imports, switches and reloads decides which copy of a module is used | the cache agrees with the path; the worker's packages stay reachable; the documented search order |
| Function registry | what is recorded must agree with the host's view, whatever the order of the bindings and additions | a call has exactly the function's parameters; HTTP triggers are recognised; nothing registered is lost |
| Function indexing, HTTP registry | several workers of which one is asked for metadata, answers cached at the first question, failures in the middle of registering, placeholders that become the app's workers | success is answered only for registered functions; the host and the worker agree on HTTP streaming |
| Extension hooks | hooks in threads and in the loop around functions that fail, a reload of the SDK and of the settings between two of them | every hook of every extension is called, in order, once, and from one SDK |
| Binding conversions | a cache of clients across functions and reloads, functions replaced under a suspended invocation | a response is that of the function that ran; a client stays with its function |

The full list of hazards, each at its line, is in `PROJECT.json`.

## 2. Modules

| Module | Models | Checked with | Proofs |
|---|---|---|---|
| `HttpExchange` | abstract: mailboxes filled once, emptied by the first call | – | – |
| `HttpCoordinator` | `http_v2.py`'s coordinator and `catch_all`, and the invocation handler as far as HTTP streaming goes; implements `HttpExchange` | `MCHttpCoordinator` | `HttpCoordinatorProofs`, `HttpCoordinatorRefinement` |
| `RequestResponse` | abstract: a request asked gets at most one reply | – | – |
| `Dispatcher` | the gRPC thread, the loop, the pool, reload and stop; implements `RequestResponse` | `MCDispatcher` | `DispatcherProofs` |
| `SharedMemory` | manager, map and Unix file accessor, the encoding of outputs and the close request | `MCSharedMemory` | `SharedMemoryProofs` |
| `DependencyPaths` | the switches of `sys.path` and the module cache | `MCDependencyPaths` | `DependencyPathsProofs` |
| `FunctionRegistry` | what the registry accepts and records | `MCFunctionRegistry` | `FunctionRegistryProofs` |
| `FunctionIndexing` | several workers that index, answer for and load the functions of an app; the HTTP registry and the server's start | `MCFunctionIndexing` | `FunctionIndexingProofs` |
| `Invocation` | one invocation from its inputs to its response: decoding, clients of deferred bindings, extension hooks, encoding, under a reload | `MCInvocation` | `InvocationProofs` |

The modules are cuts through one system.  `HttpCoordinator` and `Invocation`
detail what `Dispatcher` has as an invocation that runs, `FunctionIndexing` what
it leaves free of loads and reloads, `FunctionRegistry` what `FunctionIndexing`
has as a function that is refused or kept, `SharedMemory` what `Invocation` has
as an output that is encoded.  `Dispatcher` shows that handlers without a
suspension do not overlap and that the pool is empty when a reload goes on,
which the others assume.

## 3. How the models read

Operators have the names of the functions they model where TLA+ allows it;
`PROJECT.json` gives the lines of each.  A definition introduced by `Mutant:`
is a plausible slip in the operator after it; it is not part of the
specification, and shows that the property it is paired with notices it.

**HttpCoordinator.** A step is what a task does between two suspensions of the
event loop; `ready` is the loop's FIFO of tasks that can run, `waiters` the
order in which calls wait on a response event.  `refs` is
`_context_references`; its domain grows as either side creates a reference.
`ReceiveInvocation` and `ReceiveHttpCall` are the two channels.  A function ends
in one of `Outcomes`, among them an output that fails to encode after the
response was published (`dispatcher.py` 681-731).  `Faults` switches on an
unknown function, an input that fails to decode, and a cancelled task.  Every
function is an HTTP-streaming one here.  An invocation id is used once, as the
host guarantees, but any number of calls may carry it.

**Dispatcher.** `state[r]` is where the task of request `r` is: `created` (in the
loop's queue, not begun), `pooled`, `executing`, `returned` (its sync function
is in the pool's queue, in a thread, or done), `suspended`, `resumed` (an async
one), `reloading`, `answered`, `ignored` (no handler), `died` (an exception left
it).  `grpc`, `resp_queue` and `sent` are the gRPC thread, its queue and what
the host received.  `phase` is the main task's place in connect,
dispatch_forever and stop.  Handlers that do not suspend are one step each.
A reload is two, since it waits in `_sync_call_tp.shutdown` while pool threads
go on and the loop does not: `ReloadBegins` and `ReloadEnds`.  One whose
variables `os.environ` does not take fails before it comes to the pool
(`ReloadRefused`).  Which functions a request registers, and whether it succeeds, is left free (indexing is a
module of its own).  One `rpc_log` record stands for the several
a handler writes.  An interrupt is that of Python up to 3.10: a
`KeyboardInterrupt` raised in the loop's current step, which may be that of a
reload; later versions cancel the main task, which is a subset of these
behaviours.  A request handed over after the loop was left is not begun.

**SharedMemory.** `files` gives for each name what the file in each directory
holds: nothing, no bytes, part of the value, or the value.  `allocated` is
`_allocated_mem_maps`.  The header's flag and the length check of a map are
abstracted to what they tell apart: a file of the right size with part of its
content (`Partial`) against the value.  Outputs are encoded one per step,
because one of several may fail; the loop is not left in between, which is why
other actions of the worker wait for `encoding = Idle`.  The host's actions
(`HostPuts`, `HostCloses`, `HostDeletes`) are external.  Names are uuids,
hence used once.  `faults` is chosen at the start from `FaultSets`: the file
system fails in these ways and no other, and each property says under which
failures it holds (`NoneOf`).

**DependencyPaths.** `py` is `sys.path` and, for each module, the path it was
imported from.  `Import` is any import statement between the steps: it may bring
any module into the cache at any time, from the first entry of the path that has
it (`Found`).  `env` holds the settings the code reads when it is called, not
before.

**FunctionRegistry.** A function is its bindings in order, the annotations of
its parameters and of its return value; annotations are classes of Python types
that the code tells apart (an HTTP request, `str` or `bytes`, an SDK client, a
class of another kind, a name that is not a type, each inside `Out` or not).
Converters of the `azure.functions` package are constants.  `source` remembers
what each entry was made from, and is only there for the properties.
`HttpTriggerRecognised` excepts a trigger whose parameter is annotated with `str`
or `bytes`: `functions.py` has such a parameter converted as generic, so the
handler never takes the function for an HTTP one, and if the app streams HTTP its
call is not fetched.

**FunctionIndexing.** A *site* is an app with its settings: its functions in
order, each with the annotations of its HTTP trigger and of its HTTP return
value, and a defect, whether it imports a
web extension, and how `PYTHON_ENABLE_INIT_INDEXING` reads.  `worker[w]` is the
state that one process keeps across requests: `_function_metadata_result` and
`_exception`, the keys of the registry, the two flags of `HttpV2Registry`.
Handlers do not suspend, hence a step each.  What may raise returns the set of
its ends, each a state and whether an exception was raised; `Saved` is the
`except` clause around it.  `phase` tells a placeholder (no app yet) from a
worker that serves the site; `checked` remembers in which of them the HTTP
question was asked.  The host loads a function in a worker when it knows of it,
from that worker's metadata or another's.  An invocation is here only as far as
it asks whether the app streams HTTP.

**Invocation.** `task[i]` is the task of an invocation: the version of the
function it read from the registry, the client its input was decoded to, and
`trace`, the hooks and functions it called.  A sync function takes a step per
hook, in a thread, between which other threads and the loop run; an async one
suspends only in the function.  A reload takes three: the environment is emptied
(`ReloadClears`), filled (`ReloadSets`), and the loop goes on when the pool is
drained (`ReloadEnds`); threads run in between.  `sdk` is which loading of
`azure.functions` an import finds, `detected` the one the extension manager
keeps.  `registry` gives each function the version of the app it is of.
`Info(f, v)`, the registered facts of a function, is what `FunctionRegistry`
computes; a value is its Python type.

## 4. Runs

| Run | Question | Instance |
|---|---|---|
| `http_coordinator_safety` | results, events and both channels under every order and failure; implementation of `HttpExchange`; both channels answered | 2 invocations, 3 HTTP calls with any header, all faults; 161,000 states |
| `http_coordinator_unanswered` | is every invocation whose HTTP call came answered? (no: section 7) | 2 invocations, 2 calls, `decode_error` |
| `dispatcher` | size of the pool, the reload as a barrier, order and attribution of log records, order of requests | 4 requests (an indexing, an invocation of a sync or an async function, then invocations, reloads, a load or an init), a log record each, pools of 1 and 2 threads, reloads refused for a variable, an HTTP server that does not start; 782,000 states |
| `dispatcher_live` | requests answered though functions hang, stop ends and flushes; implementation of `RequestResponse` | 4 requests: an init or one of an unknown type, an invocation of a sync or an async function, a reload or a status request, a status request; one thread; connect timeout, broken stream, interrupts, functions that exit or never end; 69,000 states |
| `shared_memory` | what the host holds is readable and tracked, what is freed is gone, nothing leaks, inputs are as written | 2 directories, limits of 2 and 4 bytes; all seven failures, and the largest sets under which each property is to hold; 686,000 states |
| `shared_memory_stale_file` | is a deleted map gone when a file could not be given its size? (no: section 7) | as above, only `truncate_error` |
| `dependency_paths` | module cache against `sys.path`, reachability | four documented layouts of `sys.path`, five modules, every environment; 1,320 states |
| `dependency_paths_reload` | the documented search order after a reload (no: section 7) | the same |
| `function_registry` | record against signature and host, order of bindings, additions that follow each other | all functions of one or two bindings with annotations, an activity trigger among them, three without, between functions they replace; 121,000 states |
| `function_indexing` | answers against the registry, agreement on HTTP streaming | 2 workers (symmetric), 120 sites: apps of up to two functions, sound, refused or unsendable, with HTTP triggers and return values annotated for either mode, in both programming models, with and without a web extension and the base extension, every setting; imports, HTTP server and extensions may fail; 416,000 states |
| `function_indexing_sticky` | is an app that was indexed answered for? (no: section 7) | 1 worker, imports may fail |
| `invocation` | hooks, clients and responses around a reload | 2 invocations (symmetric), a sync and an async function in two versions, two resources and a datum that does not decode, extensions on or off, of two extensions one fails; a reload that may replace the SDK; 1,067,000 states |

What they show, by property:

- `RequestThere`: the event of a context reference means what its waiter takes
  it to mean, also when a second call overwrites the request.
- `ResultConserved`, `ChannelsAgree`: the result of an invocation reaches at
  most one call of that invocation, is never lost, and says what the
  InvocationResponse says, although the handler may set it twice.
  `BothChannelsAnswered`: duplicates of a call and all orders of arrival end
  with answers on both channels, unless the handler gave up before it knew its
  function (the code's own design) or raised.  `ExchangeSpec`: a response that
  is published is not replaced, and the first call takes it.
- `PoolBounded`, `UserLogsPrecedeResponse`, `UserLogsAttributed`, `ServerSpec`:
  the dispatcher's promises above.  `ReloadIsBarrier`: a reload that came to the
  pool, answered with success or failure, leaves no earlier sync invocation
  waiting or running; one refused for a variable never waited.
  `BeginsInOrder`: once a request was begun, no earlier one, invocations
  included, is still to begin, and every earlier one that is no invocation is
  done with.
- `StopFlushes`, `StopTerminates`, `RequestsAnswered`: what was queued is sent,
  a request is answered and a stop reaches its end from every state of the rest,
  unless it waits for a user's function for ever.  `WaitsForUser` says what may
  wait: an invocation for its own function or, in the pool, for those that hold
  every thread, and anything else only for a reload that waits for the pool.  A
  status request is thus answered while all functions hang, unless such a reload
  holds the loop.
- `InputAsWritten`, and that what the host holds is tracked (the first part of
  `TrackingAgrees`), hold under all seven failures.  `FreedIsGoneIfSized` needs
  files that can be given their size; `HeldIsReadable`, of every map that the
  host holds or owns or the worker tracks, files that can also be opened;
  `NoLeak` also mapped and removed; the second part of `TrackingAgrees` mapping
  and encoding.  Beyond that the code leaves a file or a map behind.  An output
  that cannot be encoded leaves the maps made before it with nobody to close
  them: `NoLeak` excuses this case by name, and says that the worker still
  tracks them and that no other file is left.
- `CacheCoherent`, `WorkerPackagesFound`: a switch forgets what it has to and no
  more.
- `CallMatchesSignature`, `HttpTriggerRecognised`, `OrderIndependent`,
  `StaysRegistered`: the registry agrees with what
  `loader.build_binding_protos` tells the host and with the signature, and
  forgets neither a function nor, while a function with deferred bindings is
  registered, that it announced them.
- `MetadataTruthful`, `LoadTruthful`: a worker answers with success only for
  functions it has registered, whatever failed before, and although the load
  handler does not look again after it indexed the app.  `HttpModeAgreed`: an
  invocation waits for an HTTP call exactly if the host sends one, for settings
  that are true or false and workers whose indexing did not fail.  It says
  nothing of a `PYTHON_ENABLE_INIT_INDEXING` that is neither, which is also what
  a variable that is not set is: `is_envvar_false` is false of it, so the app is
  indexed late and the question is asked all the same.
- `ResponseOfItsFunction`, `HooksComplete`, `HooksOfOneSdk`, `ClientsAsKeyed`:
  a Success response has the outputs of the function version the invocation
  began with, which is the one that ran (which outputs are set is compared, not
  their values); an invocation's hooks are complete unless a reload took the settings away under it, and come from one
  loading of the SDK although a reload may replace it; a function is not given
  another's client.

**Why the bounds are enough.** Two invocations are what it takes for one to
disturb another, and three calls give one invocation two duplicates of its
call, or one and a call of the other.  Four requests let a reload come before,
between and after two invocations, and two thread counts let the pool grow and
shrink.  One log record per function suffices because the properties relate a
record to a response or to another task.  Three names allow a response of two
maps beside an input; two directories are what a fallback needs.  Two workers are one that is asked for
metadata and one that is not; two functions one that fails before or after
another.  Two invocations share a client or do not, and one reload comes before,
within or after each.  A switch of
packages depends on three paths and on which of them have a module: the five
modules are the combinations the three packages can be in.  Two bindings are
what it takes for two to have one name or compete for the return value, and a
third shows that the rest is left alone.
Each bound is a constant or a guard named `Bound:`.

**Deadlock** is checked except where a comment in the configuration says why the
system comes to rest: the host stops sending and all tasks are done.  In
`SharedMemory` and `DependencyPaths` something can always happen.

## 5. Fairness

- `HttpCoordinator!Fairness`: weak fairness of the loop (asyncio runs its ready
  queue in FIFO order, which the model has explicitly) and of the end of each
  user's function.  The host need not send anything.
- `Dispatcher!WorkerFairness`: the loop, each pool thread's start of the next
  work item and the gRPC thread are weakly fair: operating system threads that
  are not starved.  `UserFairness` (users' functions end) is separate, because
  the code cannot grant it.  `HangingSpec` is the specification without it, and
  the liveness properties are checked of `HangingSpec`: they excuse what waits
  for a user's function for ever and nothing else.  A function's end never
  depends on the loop here: a sync function that itself needs the loop while a
  reload blocks it is outside the models.

The other modules state safety only: their handlers do not wait for anything
but a user's function.  No fairness is assumed of faults, of the host, or of what a step chooses.

## 6. Proofs

A theorem holds for every value of the constants that satisfies the module's
named assumptions: any sets of invocations, calls, functions, requests, threads,
workers, apps, files, modules or bindings, and any contents of the requests.
Every safety property that a passing run checks is proved, and so are both
refinements.  The assumptions say that
bounds are natural numbers, that the constants are sets of what they are meant
to be, and that markers such as `Nil`, `Idle` or `NotLoaded` are none of the values
they stand beside; TLC evaluates them in each run.  Those that say more are
named with the theorem.

Few of the properties are inductive.  Each proof module states an inductive
invariant (`IInv`, in the dispatcher `FullInv` and `MsgInv`), proves it once, and
derives the properties from it.

**HttpCoordinatorProofs**: `TypeCorrect`, `ResultConservedAlways`,
`ChannelsAgreeAlways`, `RequestThereAlways`.  The properties speak of calls that
were served, and say nothing of the state from which a call is served.  `IInv`
adds that an invocation publishes once, at its end
(`PublishedIsDone`); that a response still in its reference agrees with the
InvocationResponse and was given to nobody (`StoredResponse`); that a call that
was woken or served names a published invocation, and at most one is served
(`CallHeaders`); and that a result that is gone was taken (`ResultTaken`).
The dictionary is dealt with once, by lemmas about its operations
(`StoreReferenceType`, `SetResponseView`, `PopResponseView`), so that the steps
only see the response and the event of each id.

**HttpCoordinatorRefinement**: `ImplementsExchange`.  One lemma per kind of step
of `HttpExchange`, over what the step does to the mailboxes; a step of the
coordinator is one of these or leaves the mapped variables alone.  `IInv` is what
makes it go through: that a mailbox is filled once is `PublishedIsDone`.

**DispatcherProofs**: `TypeCorrect`, `PoolIsBounded`, `ReloadBarrier`,
`BeginsInRequestOrder`, `UserLogsAttributedAlways`,
`UserLogsPrecedeResponseAlways`, `StopFlushesAlways`, `ImplementsServer`.
`IInv` says that the pool's queue and threads hold
exactly the invocations whose state says so, each once, in threads the pool has
(`PoolInv`); that the loop's queue holds each ready task once, and those not
begun in the order of their requests (`ReadyInv`); that states fit kinds and the
number of received requests (`StateInv`); and that nothing overtakes a request
not begun or a reload in progress (`OrderInv`), from which the barrier follows:
when a reload ends, the pool is empty and what came later has not begun.  A
refused reload, which the barrier leaves out, is known by its outcome.
`FullInv` adds the start-up, where no request is there yet.  A lemma per way in
which a task leaves the loop's head (`LeavesStep` and those on it) serves the
handlers, and `TaskNext`, `MainAndStreamSteps` and `NextFullInv` combine them.
`MsgInv` is about what was said, sent or still queued, as one sequence: that it
is orderly (records carry the id of their invocation and precede its response,
and no request has two responses), that the requests answered are those with a
response in it (`AnswersInv`), and where the stop marker is (`MarkerInv`): once it
is queued, only records of users' functions follow it.  A response cannot,
since the loop was left before; so what the stream leaves in the queue when it
ends is records, and stop has flushed the responses.  A message that moves from
the queue to the host leaves the sequence as it is, which is why the gRPC thread
disturbs none of this.  The refinement counts responses: `OneResponse`
makes a step that sends one the first of its request.

**FunctionIndexingProofs**: `TypeCorrect`, `LoadTruthfulAlways`,
`MetadataTruthfulAlways`, `HttpModeAgreedAlways`.  The truthfulness properties
speak of answers: a worker answers a load from what another worker told the
host, and a metadata request
from what it kept of its start.  `IInv` adds that the host knows functions of
the site only (`Known`); that a worker with a result has it of the whole app,
registered, and one that was to index at its start has a result or keeps an
exception (`Results`); and that functions are loaded in workers that work
(`LoadedIsLive`).  Lemmas say what each of the loader's operations keeps of a
worker's state (`RegisteredFollows`, `IndexFollows`, `InitialisedFollows`), and
`WorkerStep` carries it to the steps.  For `HttpModeAgreed`, `Modes` relates the
two flags of `HttpV2Registry` and the address told to the host with the setting
and the phase: a placeholder has none of them set, an app that is not indexed at
its start has no address, and one that is has asked the question and has an
address exactly if the answer was yes.  The theorem has the hypothesis
`PlainPlaceholders`: what a placeholder runs imports no web extension.  The run's
instance satisfies it and the property needs it.  With a placeholder that
imports one, TLC finds a counterexample of four states: under a setting that is
neither true nor false, or not set, a load request indexes the placeholder's function, the
question is answered with yes, and an invocation waits for an HTTP call of which
the host was never told.

**SharedMemoryProofs**: `TypeCorrect`, `HeldIsReadableAlways`,
`InputAsWrittenAlways`, `TrackingAgreesAlways`, `NoLeakAlways`,
`FreedIsGoneAlways`.  The properties speak of maps that a response names,
the worker tracks or the host disposes of, but not of the map being written, nor of one that another
response names.  `IInv` says that an unused name has no file (`Fresh`); that a map
is tracked, at the host's disposal or freed, and never two of them (`Homes`);
that no two responses name one map (`Batches`); and what the files of a map hold
in each directory, a single one of them if files can be given their size
(`Columned`).  What the accessor does to one map's directories is proved apart,
as lemmas on its operations (`CreatedColumns`, `DeleteColumns`, `ReadsSingle`).
`IdleIsNoEncoding` says that the marker for no output being encoded is none of
the records of one.

**InvocationProofs**: `TypeCorrect`, `ResponseOfItsFunctionAlways`,
`HooksOfOneSdkAlways`, `ClientsAsKeyedAlways`, `HooksCompleteAlways`.  `IInv` has
the hooks called so far come from the SDK that was detected, which is kept
(`Sources`); a response made from the end of the function that was called
(`Responses`); the cache a numbering of the keys of the invocations
(`Clients`, `Bounded`); and, for an invocation that no reload overlaps, the setting
unchanged (`Settled`) and the trace of calls exactly what is due at each of its
phases (`Progress`), which at the end is completeness.

**FunctionRegistryProofs**: `TypeCorrect`, `CallMatchesSignatureAlways`,
`HttpTriggerRecognisedAlways`, `OrderIndependentAlways`, `StaysRegisteredAlways`
(an action property).
`IInv` says that an entry is what the checks and conversions make of a function
that passed them (`Entries`); the work is in the lemmas on functions with any
number of bindings, of which several may have one name: the host and the
registry both keep the last (`BoundIsLast`).  The loop that finds the binding of
the return value is a recursive function; `ReturnIsDecided` says what it has found
after any number of bindings, and with one candidate at most that is the same
in every order (`ReorderedReturn`).

**DependencyPathsProofs**: `TypeCorrect`, `CacheCoherentAlways`,
`WorkerPackagesFoundAlways`.  The argument is about the first entry of the path
that has a module (`Leads`).  A removal keeps it unless it is what was removed,
and then the module is forgotten; an addition at the end keeps it.  An addition
at the front does not, and forgets only what was loaded from the added path.
`SwitchIsSafe` says why the switch to the customer's packages is still safe: the
customer's packages are on the path already and are not added, or there are
none, or nothing but the worker's path is there, whose modules the switch
forgets.

Two definitions loop over a sequence, the filter of `sys.path` and the search for
the return binding.  Both are recursive functions, and what they compute is
shown with a least counterexample (`NoLeastNumber`) where one would use
induction: the library's induction theorems take an operator as a parameter and
cannot be cited.

**Only model-checked:**

- the liveness properties (`BothChannelsAnswered`, `StopTerminates`,
  `RequestsAnswered`): the prover has no rules for fairness and
  ENABLED;
- what the four violation runs show: a counterexample is its own proof.

## 7. Disagreements between the code and what is said of it

1. `http_coordinator_unanswered`: when an input of an HTTP-streaming invocation
   fails to decode before its HTTP call arrives, the exception branch calls
   `set_http_response`, which raises `KeyError` for an unknown id.  No
   InvocationResponse is sent.  `FunctionRpc.proto` has a response to a given
   invocation.
2. `function_indexing_sticky`: the exception of an indexing is never cleared.
   An app whose import failed once is indexed at the next request, its functions
   are saved and registered, and the worker answers this request and all later
   ones with the old exception; the docstring of `load_function_metadata` has
   the results saved in one place *or* the exception in the other.
3. `shared_memory_stale_file`: a file that could be created and not be given its
   size stays, and hides the map of that name in the next directory: deleting
   the map removes the stale file and reports success.
4. `dependency_paths_reload`: after a reload the customer's directory comes
   before the worker's packages, because the handler appends it before
   `prioritize_customer_dependencies` looks; the docstring states the other
   order.

Met while modelling, and not a run of its own: the invocation id in the loop
thread's thread-local (`dispatcher.py` 656) is never cleared, so records of later
requests that are no invocation carry the id of an earlier one; the model has it
as `WorkerLog`.

## 8. What is not modelled, and why

- App settings beyond those that decide something above
  (`utils/app_setting_manager.py` reports settings to the log; the typed reads
  of `utils/common.py` are pure functions of one string).
- The conversions of the `azure.functions` package (external), and of datums
  with nullable parts and cookies (`nullable_converters.py`, `datumdef.py` from
  line 230): formatting without state.
- `main.py`'s arguments, the Windows accessor, protobufs, the typing inspection
  and the formatting of logs: I/O without state, generated or third-party.
- OpenTelemetry and Azure Monitor set-up in the dispatcher.
- What functions read from `os.environ` while a reload replaces it, except the
  setting that enables extensions.
- Tasks that end unanswered because `asyncio.run` cancels what is left after an
  exit; log records of the stream's own start.
- A restarted worker's predecessor and the files it may have left.
- Two HTTP invocations with one id: the host makes them unique.

## 9. Plan

Done, in the order of importance: HTTP coordinator, dispatcher, shared memory,
dependency paths, function registry, function indexing, invocations with their
extensions and conversions; proofs of their safety properties and of the two
refinements.  Next:

1. Action properties that the invariants already imply, where they say more than
   these: the first answer of the HTTP question stays
   (`HttpV2Registry`), a map that was freed is not tracked again.
2. The safety part of `BothChannelsAnswered`: in a state where nothing can run,
   every call of an answered invocation is served.

Out of the prover's reach, and left to TLC: liveness under fairness, and ENABLED.
