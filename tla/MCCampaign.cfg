SPECIFICATION FairSpec
CONSTANTS
    Recipients = {r1, r2}
    Workers = {w1, w2}
    None = None
    Faults = {"crash", "mongo", "slow", "lost", "grow"}
    MaxIncidents = 1
    MaxEvents = 3
INVARIANTS TypeOK SentOnce StatsAddUp 
PROPERTY RunEnds
CHECK_DEADLOCK FALSE
