\* Two generations of one account that may overlap, two saved CSM scores.
SPECIFICATION Spec
CONSTANTS
    Workers = {w1, w2}
    Users = {u1}
    Weight <- MCWeight
    Enabled <- MCDims
    EmailSource = "engagement"
    Readings <- MCReadings
    UserScores <- MCUserScores
    MaxTime = 1
    MaxRuns = 2
    MaxSaves = 2
    MaxFaults = 1
    None = None
INVARIANTS
    TypeOK
    CsmScoreStands
PROPERTIES
    ScoringRepairs
    HistoryKept
SYMMETRY MCSymmetry
CHECK_DEADLOCK FALSE
