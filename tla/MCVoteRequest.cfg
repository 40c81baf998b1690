SPECIFICATION VoteSpec
CONSTANTS
    r1 = r1  r2 = r2  r3 = r3
    p1 = p1  p2 = p2
    d1 = d1
    Requests <- MCRequests
    Polls <- MCPolls
    PollOf <- MCPollOf
    Devices = {d1}
    DeviceOf <- MCDeviceOf
    Routes <- MCRoutes
    Client = 9
    Trusted <- MCTrusted
    Garbage = Garbage
    Unknown = Unknown
    None = None
    RateLimit = 2
    RateWindow = 2
    PollQuota = 1
    QuotaWindow = 2
    MaxRetries = 1
    MaxTime = 3
    CookieTTL = 2
    DedupTTL = 3
    MaxLosses = 2
INVARIANTS
    VoteTypeOK
    BurstIsBounded
    AddressIsTheClients
    VotesWithinBareRequests
PROPERTY
    RefusalIsEarned
SYMMETRY Symmetric
CHECK_DEADLOCK FALSE
