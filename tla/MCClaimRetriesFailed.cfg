SPECIFICATION FairSpec
CONSTANTS
    n1 = n1
    n2 = n2
    Nodes = {n1, n2}
    Roots = {n1, n2}
    Edges <- Fork
    Metered = {}
    Concurrency = 2
    Attempts = 2
    MaxStalls = 0
    None = None
    Faults = {}
    MaxIncidents = 1
PROPERTY RetriesFailed
CHECK_DEADLOCK FALSE
