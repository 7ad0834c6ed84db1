SPECIFICATION Spec
CONSTANTS
    NumBackends = 2
    S3Backends = {}
    Nil = Nil
    Puts = {p1}
    Deletes = {d1}
    PrimaryIndex = 0
    LatencyBased = FALSE
    MayRestart = FALSE
    Sequential = TRUE
    NoRequest = NoRequest
CHECK_DEADLOCK FALSE
INVARIANT DeletedEverywhere
