SPECIFICATION MeteredSpec
CONSTANTS
    r1 = r1
    r2 = r2
    r3 = r3
    p1 = p1
    k1 = k1
    k2 = k2
    None = None
    Requests <- MCMixed
    Keys <- MCTwoKeys
    KeyOf <- MCMixedKey
    PassThrough <- MCPass
    NonImage <- MCNonImage
    Capacity = 1
    Faults <- MCAllFaults
INVARIANTS
    CacheHoldsTransforms
    RepliesAreOwn
    FilesHaveAnOwner
    LedgerBalances
PROPERTIES
    IsImageService
    EveryStepCounts
