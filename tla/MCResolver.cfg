SPECIFICATION Spec
CONSTANTS
    n1 = n1
    n2 = n2
    None = None
    Names <- MCNames
    AllowedGateways <- MCAllowed
    AllowedBuckets = {}
    Timeout = 4
INVARIANTS
    VerdictFollowsAnswers
    BodiesAreClosed
    TimeBudget
PROPERTIES
    IsSource
