----------------------------- MODULE MCDispatcher -----------------------------
(* Small instances of Dispatcher: a sync function f and an async one g.      *)
EXTENDS Dispatcher, TLC

CONSTANTS f, g

Of(kinds, functions) == [kind : kinds, function : functions]

\* Functions are indexed; then an invocation of either, and invocations and
\* reloads around a load, or an indexing whose HTTP server may fail.
InvocationsAndReloads ==
    1 :> Of({"functions_metadata_request"}, {f})
    @@ 2 :> Of({"invocation_request"}, {f, g})
    @@ 3 :> Of({"invocation_request", "function_environment_reload_request"}, {f})
    @@ 4 :> Of({"invocation_request", "function_load_request", "worker_init_request"}, {f})

\* Functions are registered or not; then an invocation that may hang or exit, a
\* reload that may wait for it, and a status request behind the reload or not.
StatusBehindReload ==
    1 :> Of({"worker_init_request", "unknown"}, {f})
    @@ 2 :> Of({"invocation_request"}, {f, g})
    @@ 3 :> Of({"function_environment_reload_request", "worker_status_request"}, {f})
    @@ 4 :> Of({"worker_status_request"}, {f})

===============================================================================
