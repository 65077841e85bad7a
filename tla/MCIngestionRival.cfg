\* Auto-discovery of a company whose slug an active account already has.
SPECIFICATION Spec
CONSTANTS
    None = None
    Domains <- MCDomains
    Internal = {"us"}
    Personal = {"box"}
    Within <- MCWithin
    SlugOf <- MCSlugOf
    Mails <- MCMails
    Header <- MCHeader
    Malformed = {"broken"}
    Seeds <- MCRivalSeeds
    Referenced = {"o0"}
    Instances = 2
    MaxMails = 2
    MaxDeliveries = 3
    MaxDecisions = 1
    MaxFaults = 1
PROPERTIES
    DiscoveryOnlyCreates
CHECK_DEADLOCK FALSE
