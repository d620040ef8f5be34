SPECIFICATION MCSpec
CHECK_DEADLOCK FALSE
CONSTANTS
    MWorkers = 1
    MCases <- MasterCases
    MMaxPid = 4
    MMaxCrashes = 1
    AWorkers = {1, 2}
    AConns = 8
    AFree = {1}
    ABusy = 7
    AMaxArrivals = 2
    AMaxDeaths = 1
    ThKinds = {"pthread", "rfork"}
    ThNum = 2
    ThConnOf <- TwoConnections
    ThMaxPosts = 3
    t1 = t1
    t2 = t2
    t3 = t3
    MxThreads = {t1, t2, t3}
    MxLight = FALSE
INVARIANTS
    SomebodyServes
    LeavesNobody
    
    OneHandlerAConnection
    NoLostWakeup
PROPERTIES
    MasterStops
    BacklogServed
    PostedHandled
    IsALock
