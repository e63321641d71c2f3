SPECIFICATION FrontFairSpec
CONSTANTS
    r1 = r1
    r2 = r2
    None = None
    MaxInt = 32767
    Second = 1000
    Requests <- MCRequests
    Paths <- MCPaths
    Asks <- MCAsks
    Fields <- MCFields
    Envs <- MCEnvs
INVARIANTS
    FrontTypeOK
    KeysAreNormal
    RepliesAreMarked
    LinesTellTheReply
PROPERTIES
    EveryRequestEnds
