SPECIFICATION FairSpec
CONSTANTS
    Messages = {m1}
    Workers = {w1, w2}
    Callers = {c1}
    MaxAttempts = 2
    MaxStalls = 1
    MaxIncidents = 2
    MaxReconciles = 1
    MayEvict = TRUE
    None = None
INVARIANTS TypeOK AtMostOneCall
PROPERTIES SendsOnce CommandSettles
CHECK_DEADLOCK FALSE
