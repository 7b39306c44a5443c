CONSTANTS
    w1 = w1
    u1 = u1
    u2 = u2
    t1 = t1
    None = None
    Workers <- OneWorker
    Queries <- Three
    Tcp <- TcpQueries
    Home <- ThreeTogether
    ParkCaps = {2}
    WakeRing = 1
    FetchRing = 1
    MaxFetch = 2
    MaxSide = 1
    Rejects = FALSE
    EvictGap = TRUE
SPECIFICATION Spec
INVARIANTS
    WaiterHasWaker
CHECK_DEADLOCK FALSE
