SPECIFICATION FairSpec
CONSTANTS
    Accounts = {acme}
    Ingesters = {h1}
    Workers = {w1}
    JobIds = {j1, j2}
    Debounce = 1
    RateCap = 2
    StaleAfter = 1
    BatchLimit = 1
    Dismissible = {acme}
    Clickable = {acme}
    Overlap = FALSE
    MaxTime = 3
    MaxSignals = 2
    MaxFaults = 1
    None = None
INVARIANTS
    TypeOK
    LaneInv
    DoneMeansCovered
    HistoryOrdered
PROPERTIES
    ImplementsPromise
    EventuallyReflected
    NoJobStuck
CHECK_DEADLOCK FALSE
