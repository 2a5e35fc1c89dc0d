SPECIFICATION Spec
CONSTANTS
    f = f
    g = g
    Nil = Nil
    Invocations = {i1, i2}
    Functions = {f, g}
    Info <- InfoOfVersions
    Inputs <- TwoResources
    Results = {"None", "dict", "object"}
    Extensions <- FailingFirst
    ExtensibleSdks = {1, 2}
    Settings = {"true", "unset"}
    FlagDefault = FALSE
    MaxReloads = 1
SYMMETRY InvocationSymmetry
INVARIANTS
    TypeOK
    ResponseOfItsFunction
    HooksComplete
    HooksOfOneSdk
    ClientsAsKeyed
\* the host stops sending and everything comes to rest
CHECK_DEADLOCK FALSE
