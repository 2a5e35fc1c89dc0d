SPECIFICATION HangingSpec
CONSTANTS
    f = f
    g = g
    Nil = Nil
    NumRequests = 4
    Contents <- StatusBehindReload
    Functions = {f, g}
    AsyncFunctions = {g}
    Threads = {1}
    WorkerCounts = {1}
    MaxLogs = 1
    Outcomes = {"raises", "exits"}
    Faults = {"connect_timeout", "stream_breaks", "interrupt"}
INVARIANTS
    StopFlushes
PROPERTIES
    ServerSpec
    StopTerminates
    RequestsAnswered
\* the host stops sending and everything comes to rest
CHECK_DEADLOCK FALSE
