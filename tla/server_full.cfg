SPECIFICATION Spec
CONSTANTS
  Role = "server"
  Api <- FullApi
  Liberties = {"midway"}
  Buffers <- PvBuffers
  Timeouts = {TRUE}
  MinLens = {0}
  EpollResults = {TRUE, FALSE}
  Pipelined = TRUE
  BufLen = 2
  Grow = 1
  MaxIn = 2
  MaxRoom = 1
  MaxCallbacks = 2
  MaxDepth = 4
INVARIANTS
  OneReader
  ReaderReady
  ClosedIsQuiet
  ReadBufferFits
  TimeoutReported
  TimersExact
  WriteWakeup
  TimeoutIsReal
PROPERTIES
  NoCallbackAfterClose
  SentExactly
CHECK_DEADLOCK FALSE
