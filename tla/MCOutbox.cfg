SPECIFICATION FairSpec
CONSTANTS
    Events = {e1, e2}
    Publishers = {p1, p2}
    MaxRetries = 3
    Faults = {"crash", "mongo", "slow"}
    MaxIncidents = 2
    None = None
INVARIANT TypeOK
PROPERTIES
    AtLeastOnce
    OverlapStrands
    EventSettles
CHECK_DEADLOCK FALSE
