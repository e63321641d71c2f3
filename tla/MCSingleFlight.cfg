SPECIFICATION FairSpec
CONSTANTS
    c1 = c1
    c2 = c2
    c3 = c3
    d1 = d1
    k1 = k1
    k2 = k2
    None = None
    Callers <- MCCallers
    Keys <- MCKeys
    KeyOf <- MCKeyOf
INVARIANTS
    OneFlightPerKey
    NoLostWaiter
    SendNeverBlocks
PROPERTIES
    KeepsPromise
    EveryDoReturns
