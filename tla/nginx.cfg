SPECIFICATION MCSpec
CHECK_DEADLOCK FALSE
CONSTANTS
    EMethods = {"poll", "select", "win32", "epoll", "devpoll", "kqueue", "eventport"}
    EConns = {"l", "x", "y"}
    EListener = "l"
    EFds = {3, 4}
    EMaxChanges = 2
    ESetSize = 1
    SigFds = {0, 1, 2}
    SigConns = 2
    SigQueue = 2
    SigBatch = 1
    SigTest = 1
    PTotal = 8
    PNum = 2
    PSize = 2
    PBusy = 2
    PFileWrite = 4
    PFileMax = 4
    PModes = {{}, {"single_buf"}, {"cacheable"}}
    ChTotal = 4
    ChBufs = 2
    ChSizes = {1, 3}
    ChKinds = {"temp", "file", "both", "flush"}
    ChIov = 2
    ChPage = 2
    ChLimit = 4
    ChModes <- ChainModes
    SlPageShift = 4
    SlMinShift = 1
    SlWord = 4
    SlDesc = 2
    SlEnds = {40, 54, 64, 71}
    SlSizes = {2, 4, 7, 16, 24}
    SlMaxLive = 5
    PoSize = 16
    PoHeader = 8
    PoData = 4
    PoAlign = 4
    PoMaxSmall = 7
    PoEntry = 4
    PoTries = 0
    PoLook = 0
    PoSizes = {5, 8}
    PoFds = {1}
    PoMaxBlocks = 4
    PoMaxLarge = 2
    TlsTotal = 4
    TlsBuf = 2
    TlsLimit = 3
    TlsSize = 2
    TlsIn = 2
    TlsWants = 1
    TlsChains <- TlsChainsSent
    SsWorkers = {"w"}
    SsIds = {1, 2, 3}
    SsSizes = {1, 2, 9}
    SsCells = {1, 2}
    SsMemory = 4
    SsMaxSize = 4
    SsTimeout = 1
    SsMaxNow = 2
    TmSlots = 3
    TmMaxSec = 3
    TmMaxSignals = 2
    TmMaxDays = 1550
    TmRest = {0, 59, 60, 3599, 3600, 86399}
    TmStarts <- Januaries
    RbNodes = {1, 2, 3, 4, 5, 6}
    RbKinds = {"value", "name", "timer"}
    RbKeyOf <- TreeKeys
    RbTimers = {1, 2}
    RbWidth = 12
    RbDelays = {1, 3}
    RbLag = 2
    RbLazy = 2
    RbMaxNow = 13
    HsCode <- LetterCode
    HsLength <- LetterLength
    HsKeys <- HashKeys
    HsNames <- HashNames
    HsPtr = 4
    HsBucket = 24
    HsMaxSize = 5
    HsShort = 64
    HsMaxAdded = 3
    CyNames = {"e", "l"}
    CyZones = {"z"}
    CyAddrs = {"p", "q"}
    CyConfigs <- Configurations
    CyMaxGen = 4
    CyMaxConns = 1
    CfCommands <- Directives
    CfAlphabets <- Alphabets
    CfSizes = {6}
    CfBuffer = 4
    CfMaxDepth = 3
    ClSlots = 3
    ClMaxPid = 4
    ClQueue = 2
    ClMaxFaults = 1
    RNames = {"n", "m", "b"}
    RBadNames = {"b"}
    RAddrs = {"a"}
    RCtxs = {"x", "y"}
    RIdents = {1}
    RFaults = {"send", "cname"}
    ONames = {"a", "b"}
    OInodes = {"i"}
    OUsers = {1, 2}
    OEntries = {1, 2}
    OFds = {1, 2}
    OMax = 1
    OMaxTime = 1
    OMaxUses = 2
    OWishes <- Wishes
    CbPools = {1, 2}
    CbRecords = {1, 2, 3}
    CbMaxDepth = 3
    PpFds = {1, 2}
    PpListener = 1
    PpMaxConns = 3
    PpMaxPut = 1
    PpMaxDepth = 3
    PpMaxCalls = 1
    PpApi = {"ngxe_close", "ngxe_reader", "ngxe_writer", "ngxe_writer, NXSTART",
             "ngxe_reader_stop", "ngxe_writer_stop", "$_[3]", "ngxe_writer_put", "ngxe_client"}
INVARIANTS
    
    BytesInOrder
    MemoryWhole
    
    TimeWhole
    LookupsRight
    
    
    
