SPECIFICATION AsyncReadsSpec
CONSTANTS
    NumBackends = 2
    S3Backends = {0}
    Nil = Nil
    Puts = {p1, p2}
    Deletes = {d1}
    PrimaryIndex = 1
    LatencyBased = FALSE
    MayRestart = FALSE
    Sequential = FALSE
    NoRequest = NoRequest
    Reads = {q1}
CHECK_DEADLOCK FALSE
INVARIANT ReadsSeeSettledWrite
PROPERTIES
    ReadsEnd
    ImplementsRegister
