SPECIFICATION Spec
CONSTANTS
    NumBackends = 3
    S3Backends = {1}
    Nil = Nil
    Puts = {p1, p2}
    Deletes = {d1}
    PrimaryIndex = 0
    LatencyBased = FALSE
    MayRestart = FALSE
    Sequential = FALSE
    NoRequest = NoRequest
CHECK_DEADLOCK FALSE
PROPERTIES
    AckedWriteDrains
    EventuallyReplicated
