SPECIFICATION ShutdownFairSpec
CONSTANTS
    r1 = r1
    r2 = r2
    k1 = k1
    k2 = k2
    None = None
    Requests <- MCRequests
    Keys <- MCOneKey
    KeyOf <- MCSameKey
    PassThrough = {}
    NonImage = {}
    Capacity = 1
    Faults = {"client", "s3put"}
INVARIANTS
    ShutdownTypeOK
    LossIsReported
    PanicHasACause
PROPERTIES
    ProcessEnds
