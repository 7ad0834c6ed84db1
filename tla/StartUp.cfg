SPECIFICATION Spec
CONSTANTS
    Names = {n1, n2, n3}
    NoName = NoName
    MaxBackends = 3
    Requests = 3
    Durations = {1, 2}
SYMMETRY NameSymmetry
INVARIANTS
    TypeOK
    ServesAsConfigured
    RestartKeepsPrimary
    LatencyPrimaryAnswers
    FastestByMajority
    Inductive
