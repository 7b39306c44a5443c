CONSTANTS
    w1 = w1
    u1 = u1
    u2 = u2
    t1 = t1
    None = None
    Workers <- OneWorker
    Queries <- Pair
    Tcp <- TcpQueries
    Home <- PairTogether
    ParkCaps = {0, 2}
    WakeRing = 1
    FetchRing = 1
    MaxFetch = 1
    MaxSide = 1
    Rejects = TRUE
    EvictGap = TRUE
SPECIFICATION FairSpec
INVARIANTS
    NoLostWake
    LoadingHasFetch
    AskerHasWaker
    
PROPERTIES
    QueryEnds
CHECK_DEADLOCK FALSE
