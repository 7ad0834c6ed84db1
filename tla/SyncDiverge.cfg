SPECIFICATION Spec
CONSTANTS
    NumBackends = 2
    S3Backends = {}
    Nil = Nil
    Puts = {p1, p2}
    Deletes = {}
    Torn = Torn
    MayRestart = FALSE
    MayVanish = FALSE
    NoRequest = NoRequest
CHECK_DEADLOCK FALSE
INVARIANT AckedPutsAgree
