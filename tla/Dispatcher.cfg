SPECIFICATION Spec
CONSTANTS
    f = f
    g = g
    Nil = Nil
    NumRequests = 4
    Contents <- InvocationsAndReloads
    Functions = {f, g}
    AsyncFunctions = {g}
    Threads = {1, 2}
    WorkerCounts = {1, 2}
    MaxLogs = 1
    Outcomes = {"returns"}
    Faults = {"bad_variable", "init_error"}
INVARIANTS
    TypeOK
    PoolBounded
    ReloadIsBarrier
    UserLogsPrecedeResponse
    UserLogsAttributed
    BeginsInOrder
\* the host stops sending and everything comes to rest
CHECK_DEADLOCK FALSE
