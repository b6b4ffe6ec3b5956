SPECIFICATION FairSpec
CONSTANTS
    Procs = {p1, p2}
    MaxRetries = 2
    None = None
INVARIANTS
    TypeOK
    MutualExclusion
PROPERTIES
    LockIsFreed
    CallReturns
