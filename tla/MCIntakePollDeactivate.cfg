SPECIFICATION Spec
CONSTANTS
    ann = ann acme = acme call = call torn = torn crm = crm None = None Null = Null Missing = Missing
    Instances = {}
    Keys = {}
    Polls = {p1, p2}
    Workers = {p1, p2}
    Items <- MCItems
    Participants <- MCParticipants
    Keyless = {}
    MaxPosts = 1
    MaxFaults = 2
    Emails = {ann}
    Accounts = {acme}
    Opened = {acme}
    DomainOwner <- MCOwner
    Requests = {}
    Request <- MCRequest
    Connected = {}
    Invalid = {}
    Credentials = {crm}
    Notes <- MCNotes
    Blank <- MCBlank
    Unparsable <- MCUnparsable
    PageSize = 2
    MaxErrors = 2
    Window = 0
    LimitPerMinute = 0
    MaxTime = 0
PROPERTIES
    DeactivatedAfterFailures
CHECK_DEADLOCK FALSE
