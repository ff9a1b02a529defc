CONSTANTS
    Procs = {p1, p2}
    Tags <- MCTags
    Hash = "abcdef0"
    Prefixed <- MCPrefixed
    Rank <- MCRank
    Stable <- MCStable
    Within <- MCWithin
    Listing <- MCListing
    Requests <- MCRequests
    MaxInitial = 1
    MaxCommands = 3
    MaxParallel = 2
    MaxFaults = 1
    Listings <- MCListings
    None = None
SYMMETRY Symmetry
SPECIFICATION SumSpec
INVARIANTS
    ActiveIsSound
    LatestIsNewest
PROPERTIES
    SuccessIsComplete
    HealsAfterOneFault
CHECK_DEADLOCK FALSE
