SPECIFICATION FairSpec
CONSTANTS
    n1 = n1
    n2 = n2
    Nodes = {n1, n2}
    Roots = {n1, n2}
    Edges <- Fork
    Metered = {n1}
    Concurrency = 2
    Attempts = 2
    MaxStalls = 1
    None = None
    Faults = {"crash", "stall", "mongo", "redis"}
    MaxIncidents = 1
INVARIANTS
    TypeOK
    SucceedsOnce
    OneBranch
    FailureShows
PROPERTY ExecutionEnds
CHECK_DEADLOCK FALSE
