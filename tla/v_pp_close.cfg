SPECIFICATION PpSpec
CHECK_DEADLOCK FALSE
CONSTANTS
    PpFds = {1, 2}
    PpListener = 1
    PpMaxConns = 3
    PpMaxPut = 1
    PpMaxDepth = 3
    PpMaxCalls = 2
    PpApi = {"ngxe_close", "ngxe_reader", "ngxe_writer, NXSTART", "$_[3]", "ngxe_client"}
INVARIANT RemovedFromLoop
