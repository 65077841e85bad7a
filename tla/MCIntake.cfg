SPECIFICATION Spec
CONSTANTS
    ann = ann bob = bob acme = acme ticket = ticket login = login click = click bad = bad
    s1 = s1 s2 = s2 webhook = webhook batch = batch odd = odd None = None Null = Null Missing = Missing
    Instances <- MCInstances
    Keys <- MCInstances
    Polls = {}
    Workers <- MCInstances
    Items <- MCItems
    Participants <- MCParticipants
    Keyless = {click}
    MaxPosts = 2
    MaxFaults = 1
    Emails = {ann, bob}
    Accounts = {acme}
    Opened = {}
    DomainOwner <- MCOwner
    Requests = {webhook, batch, odd}
    Request <- MCRequest
    Connected = {"event", "pylon"}
    Invalid <- MCInvalid
    Credentials = {}
    Notes <- MCNotes
    Blank = {}
    Unparsable = {}
    PageSize = 1
    MaxErrors = 2
    Window = 1
    LimitPerMinute = 1
    MaxTime = 2
INVARIANTS
    TypeOK
    TriggeredOnce
    RoutedIsHeard
    AcceptedIsStored
    WindowBound
SYMMETRY Symmetry
CHECK_DEADLOCK FALSE
