SPECIFICATION FairSpec
CONSTANTS
    Records = {r1, r2}
    Agents = {a1}
    Decisions = {d1, d2}
    Cap = 1
    None = None
    Faults = {"crash", "mongo", "expiry", "lostEvent"}
    MaxMoves = 2
    MaxIncidents = 1
INVARIANT TypeOK
PROPERTIES LoadConverges OnlySeedTracks
CHECK_DEADLOCK FALSE
