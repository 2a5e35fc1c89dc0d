SPECIFICATION Spec
CONSTANTS
    i1 = i1
    i2 = i2
    h1 = h1
    h2 = h2
    h3 = h3
    Invocations <- TwoInvocations
    HttpCalls = {h1, h2}
    Nil = Nil
    NoHeader = NoHeader
    Faults = {"decode_error"}
PROPERTIES
    InvocationAnswered
\* the host stops sending and every task ends
CHECK_DEADLOCK FALSE
