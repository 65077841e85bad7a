SPECIFICATION Spec
CONSTANTS
    Accounts = {acme}
    Ingesters = {h1, h2}
    Workers = {w1, w2}
    JobIds = {j1, j2}
    Debounce = 1
    RateCap = 2
    StaleAfter = 1
    BatchLimit = 2
    Dismissible = {}
    Clickable = {}
    Overlap = TRUE
    MaxTime = 4
    MaxSignals = 2
    MaxFaults = 0
    None = None
SYMMETRY Interchangeable
INVARIANTS
    OneActiveUnlessReplacing
PROPERTIES
    CapHonouredAtEnqueue
CHECK_DEADLOCK FALSE
