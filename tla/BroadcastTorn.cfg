SPECIFICATION Spec
CONSTANTS
    NumBackends = 2
    S3Backends = {}
    Nil = Nil
    Chunks = 3
    Capacity = 1
    MayVanish = TRUE
    Put = p
    Torn = Torn
    NoRequest = NoRequest
CHECK_DEADLOCK FALSE
INVARIANT StoredIsWhole
