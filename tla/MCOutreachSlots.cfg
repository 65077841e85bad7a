\* One tab and no failure: can a mail leave with the template's slots unfilled?
SPECIFICATION Spec
CONSTANTS
    Tabs = {t1}
    Requests = {r1, r2}
    DraftIds = {d1, d2}
    MaxEdits = 1
    MaxOpens = 1
    MaxFaults = 0
    None = None
INVARIANT SlotsFilledBeforeMail
CHECK_DEADLOCK FALSE
