SPECIFICATION Spec
CONSTANTS
    Workers = {w1, w2}
    Sites <- SmallSites
    Placeholders <- WarmUp
    None = None
    Faults = {"import_error", "server_error", "extension_error"}
SYMMETRY WorkerSymmetry
INVARIANTS
    TypeOK
    MetadataTruthful
    LoadTruthful
    HttpModeAgreed
\* everything is loaded and invoked, or a worker failed
CHECK_DEADLOCK FALSE
