CONSTANTS
    W = 5
    Mask = {0, 1, 2, 3, 4, 5, 6, 7, 8, 9, 10, 11, 12, 13, 14, 15, 16, 17, 18, 19, 20, 21, 22, 23,
            24, 25, 26, 27, 28, 29, 30, 31}
    MaxSessions = 2
    Candidate <- MCCandidate
    Link <- MCLink
    Addresses <- MCAddresses
    UINT32_MAX = 3
    MaxChanges = 2
SPECIFICATION HostSpec
CHECK_DEADLOCK FALSE
INVARIANTS
    MasksArePrefixes
    ReadyMeansConfigured
    NothingLeft
    BestRouteFound
    OwnAddress
    
