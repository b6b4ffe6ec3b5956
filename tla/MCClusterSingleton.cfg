SPECIFICATION FairSpec
CONSTANTS
    Procs = {p1, p2}
    MaxRetries <- ClusterSingletonRetries
    None = None
PROPERTY
    JobKeepsRunning
