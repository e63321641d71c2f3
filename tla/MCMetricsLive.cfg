SPECIFICATION MeteredFairSpec
CONSTANTS
    r1 = r1
    r2 = r2
    r3 = r3
    p1 = p1
    k1 = k1
    k2 = k2
    None = None
    Requests <- MCTwo
    Keys <- MCKeys
    KeyOf <- MCKeyOf
    PassThrough = {}
    NonImage = {}
    Capacity = 1
    Faults <- MCAllFaults
PROPERTIES
    EveryRequestAnswered
    FilesReclaimed
