SPECIFICATION FairSpec
CONSTANTS
    k1 = k1
    k2 = k2
    Clients = {k1, k2}
    Disabling = {k2}
    Hasty = {k2}
    MaxMishaps = 2
CHECK_DEADLOCK FALSE
INVARIANTS
    TypeOK
    OkMeansLoaded
PROPERTIES
    SavedIsLoadedOrReported
    LockIsObtained
