SPECIFICATION Spec
CONSTANTS
    NumBackends = 3
    S3Backends = {0, 2}
    Nil = Nil
    Puts = {p1, p2}
    Deletes = {d1}
    PrimaryIndex = 0
    LatencyBased = TRUE
    MayRestart = TRUE
    Sequential = FALSE
    NoRequest = NoRequest
CHECK_DEADLOCK FALSE
SYMMETRY RequestSymmetry
INVARIANTS
    TypeOK
    ReplicasHoldOnlyPrimaryValues
    UncontestedWriteHolds
    AckedWriteSurvives
    Inductive
