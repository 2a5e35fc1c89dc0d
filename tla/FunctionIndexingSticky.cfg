SPECIFICATION Spec
CONSTANTS
    Workers = {w1}
    Sites <- WithBase
    Placeholders <- WarmUp
    None = None
    Faults = {"import_error"}
INVARIANT IndexedIsAnswered
\* everything is loaded and invoked, or a worker failed
CHECK_DEADLOCK FALSE
