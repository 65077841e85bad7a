\* One worker, one manager, no failure: is the cached health current at rest?
SPECIFICATION Spec
CONSTANTS
    Workers = {w1}
    Users = {u1}
    Weight <- MCWeight
    Enabled <- MCDims
    EmailSource = "engagement"
    Readings <- MCReadings
    UserScores <- MCUserScores
    MaxTime = 1
    MaxRuns = 1
    MaxSaves = 1
    MaxFaults = 0
    None = None
INVARIANT CacheIsCurrent
CHECK_DEADLOCK FALSE
