SPECIFICATION FairSpec
CONSTANTS
    f1 = f1
    f2 = f2
    b1 = b1
    k1 = k1
    k2 = k2
    None = None
    Jobs <- MCJobs
    FileJobs <- MCFileJobs
    Keys <- MCKeys
    KeyOf <- MCKeyOf
    Capacity = 2
INVARIANTS
    GaugeHonest
    FileLifetime
    DrainHonest
PROPERTIES
    KeepsPool
    EveryPutEnds
    DrainReturns
