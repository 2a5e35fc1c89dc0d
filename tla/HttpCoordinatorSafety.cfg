SPECIFICATION Spec
CONSTANTS
    i1 = i1
    i2 = i2
    h1 = h1
    h2 = h2
    h3 = h3
    Invocations <- TwoInvocations
    HttpCalls = {h1, h2, h3}
    Nil = Nil
    NoHeader = NoHeader
    Faults = {"unknown_function", "decode_error", "cancelled"}
INVARIANTS
    TypeOK
    RequestThere
    ResultConserved
    ChannelsAgree
PROPERTIES
    ExchangeSpec
    BothChannelsAnswered
\* the host stops sending and every task ends
CHECK_DEADLOCK FALSE
