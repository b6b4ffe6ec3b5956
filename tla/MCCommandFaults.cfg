SPECIFICATION Spec
CONSTANTS
    Records = {r1}
    Agents = {a1, a2}
    Workers = {w1, w2}
    Recoverers = {w1, w2}
    Strategy = "capacity-based"
    Cap = 1
    Fallback = a2
    None = None
    Faults = {"crash", "mongo", "redis", "slow"}
    MaxAsks = 2
    MaxIncidents = 1
    MaxMoves = 1
INVARIANT CompletedIsAnnounced
PROPERTY DecisionIsFinal
CHECK_DEADLOCK FALSE
