SPECIFICATION SyncSpec
CONSTANTS
    NumBackends = 2
    S3Backends = {0, 1}
    Nil = Nil
    Puts = {p1, p2}
    Deletes = {}
    Torn = Torn
    MayRestart = FALSE
    MayVanish = FALSE
    NoRequest = NoRequest
    Reads = {q1}
    PrimaryIndex = 0
CHECK_DEADLOCK FALSE
SYMMETRY PutSymmetry
INVARIANTS
    ReadsSeeAckedPut
    ConsistentReadsProveAgreement
    ListFailsLast
