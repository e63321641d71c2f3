SPECIFICATION MeteredSpec
CONSTANTS
    r1 = r1
    r2 = r2
    r3 = r3
    p1 = p1
    k1 = k1
    k2 = k2
    None = None
    Requests <- MCRequests
    Keys <- MCKeys
    KeyOf <- MCKeyOf
    PassThrough = {}
    NonImage = {}
    Capacity = 1
    Faults = {"client", "imgproxy", "s3get", "s3put"}
SYMMETRY MCSymmetry
INVARIANTS
    RepliesAreOwn
    ErrorsHaveACause
    OneResultForAll
    DiskIsBounded
    NothingLostSilently
    
    FallbacksAreCounted
PROPERTIES
    IsImageService
