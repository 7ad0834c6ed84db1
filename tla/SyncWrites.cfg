SPECIFICATION Spec
CONSTANTS
    NumBackends = 3
    S3Backends = {0}
    Nil = Nil
    Puts = {p1}
    Deletes = {d1}
    Torn = Torn
    MayRestart = TRUE
    MayVanish = TRUE
    NoRequest = NoRequest
CHECK_DEADLOCK FALSE
INVARIANTS
    AckedWriteHolds
    Inductive
PROPERTY JoinEnds
