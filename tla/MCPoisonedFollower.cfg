SPECIFICATION Spec
CONSTANTS
    r1 = r1
    r2 = r2
    k1 = k1
    None = None
    Requests <- MCTwo
    Keys <- MCOneKey
    KeyOf <- MCSameKey
    PassThrough = {}
    NonImage = {}
    Capacity = 1
    Faults = {"client"}
INVARIANTS
    LiveClientsServed
