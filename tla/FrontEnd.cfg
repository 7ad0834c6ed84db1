SPECIFICATION FrontSpec
CONSTANTS
    NumBackends = 4
    S3Backends = {0, 1}
    Nil = Nil
    Keys = {1, 2}
    Values = {v, w}
    Configurations <- MCConfigurations
    MaxWrites = 2
    Requests <- MCRequests
    Selected <- MCSelected
    Horizon = 4
    DayLength = 2
    PageLimit = 1
    MaxI32 = 8
    Nobody = "nobody"
    NoRequest = NoRequest
SYMMETRY ValueSymmetry
CHECK_DEADLOCK FALSE
INVARIANTS
    FrontTypeOK
    PagesProveAgreement
    AgreementIsSeen
    SteadyKeysAreListed
    PunctualIsServed
    ShortListingIsWhole
    ListingIsBounded
