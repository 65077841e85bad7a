SPECIFICATION FairSpec
CONSTANTS
    a1 = a1
    a2 = a2
    s1 = s1
    Null = Null
    Accounts = {a1, a2}
    Salts = {s1}
    Profile <- MCProfile
    Jitter <- MCJitter
    High <- MCHigh
    Criteria <- MCCriteria
    Advisory = {"tone_fit"}
    Verdicts <- MCVerdicts
    MaxFaults = 1
    Today = 100
    Horizon = 1000
    MaxEvents = 3
    MaxSnapshots = 1
    Shapes <- MCShapes
    TypedStarts <- MCTypedStarts
    Spans <- MCSpans
    Overrides <- MCOverrides
    BootWeeks <- MCBootWeeks
    RevertDates <- MCRevertDates
    RunOptions <- MCRunOptions
    Sources = {"manual", "nightly"}
CHECK_DEADLOCK FALSE
INVARIANT TypeOK
INVARIANT StampedIsGenerated
INVARIANT NarrativesHaveEntry
INVARIANT SliceIsWhole
INVARIANT AggregateBacked
INVARIANT OverlapOnlyByConsent
INVARIANT GreenMeansAudited
PROPERTY CompletedNotRedone
PROPERTY PendingIsResumed
