SPECIFICATION Spec
CONSTANTS
    Records = {r1, r2}
    Agents = {a1, a2}
    Workers = {w1, w2}
    Recoverers = {}
    Strategy = "round-robin"
    Cap = 1
    Fallback = a2
    None = None
    Faults = {"mongo"}
    MaxAsks = 1
    MaxIncidents = 0
    MaxMoves = 1
INVARIANTS TypeOK  CapacityRespected
CHECK_DEADLOCK FALSE
