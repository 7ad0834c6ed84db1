SPECIFICATION Spec
CONSTANTS
    NumBackends = 3
    S3Backends = {1, 2}
    Nil = Nil
    Chunks = 3
    Capacity = 1
    MayVanish = TRUE
    Put = p
    Torn = Torn
    NoRequest = NoRequest
CHECK_DEADLOCK FALSE
INVARIANTS
    AckedMeansWholeEverywhere
    BrokenBodyStoresNothing
    LockStep
    Inductive
PROPERTIES
    SendReturns
    TasksEnd
    ImplementsMultiSync
