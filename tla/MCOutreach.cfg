\* Two tabs, two drafts one after the other, three page loads, one fault.
SPECIFICATION Spec
CONSTANTS
    Tabs = {t1, t2}
    Requests = {r1, r2}
    DraftIds = {d1, d2}
    MaxEdits = 1
    MaxOpens = 3
    MaxFaults = 1
    None = None
INVARIANTS
    TypeOK
    SentWasMailed
    SignalSaysWhatWasMailed
    OneSendInFlight
PROPERTIES
    EverySendAnswered
CHECK_DEADLOCK FALSE
