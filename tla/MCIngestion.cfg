\* Any two of seven mails on two instances, one failure.
SPECIFICATION FairSpec
CONSTANTS
    None = None
    Domains <- MCDomains
    Internal = {"us"}
    Personal = {"box"}
    Within <- MCWithin
    SlugOf <- MCSlugOf
    Mails <- MCMails
    Header <- MCHeader
    Malformed = {"broken"}
    Seeds <- MCSeeds
    Referenced = {"o0"}
    Instances = 2
    MaxMails = 2
    MaxDeliveries = 3
    MaxDecisions = 1
    MaxFaults = 1
INVARIANTS
    TypeOK
    AckedIsRouted
    AckedIsTriggered
PROPERTIES
    EveryMailAcked
    LinkKept
CHECK_DEADLOCK FALSE
