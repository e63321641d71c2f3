SPECIFICATION ShutdownSpec
CONSTANTS
    r1 = r1
    r2 = r2
    k1 = k1
    k2 = k2
    None = None
    Requests <- MCRequests
    Keys <- MCTwoKeys
    KeyOf <- MCOwnKey
    PassThrough = {}
    NonImage = {}
    Capacity = 2
    Faults = {"client"}
INVARIANTS
    DrainHasTwoOutcomes
