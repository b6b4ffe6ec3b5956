SPECIFICATION FairSpec
CONSTANTS
    Records = {r1}
    Agents = {a1, a2}
    Calls = {c1, c2}
    Replicas = {x1, x2}
    None = None
    Faults = {"crash", "mongo", "slow"}
    MaxRuns = 3
    MaxIncidents = 1
    MaxMoves = 1
INVARIANTS TypeOK ToldIsOwner  EscalatedOnce
PROPERTIES OperationSettles EscalationHappens
CHECK_DEADLOCK FALSE
