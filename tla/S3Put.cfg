SPECIFICATION PutSpec
CONSTANTS
    NumBackends = 3
    S3Backends = {1, 2}
    Nil = Nil
    Chunks = 5
    Capacity = 1
    MayVanish = TRUE
    Put = p
    Torn = Torn
    NoRequest = NoRequest
CHECK_DEADLOCK FALSE
INVARIANTS
    BuffersBounded
    PutInductive
PROPERTIES
    ForwardersEnd
    ImplementsBroadcast
