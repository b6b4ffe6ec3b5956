SPECIFICATION FairSpec
CONSTANTS
    Records = {r1, r2}
    Agents = {a1, a2}
    Workers = {w1, w2}
    Recoverers = {w1}
    Strategy = "least-busy"
    Cap = 1
    Fallback = None
    None = None
    Faults = {"crash", "mongo"}
    MaxAsks = 1
    MaxIncidents = 1
    MaxMoves = 1
INVARIANTS EventMatchesDecision DecidedOwner 
PROPERTY CommandSettles
CHECK_DEADLOCK FALSE
