SPECIFICATION FairSpec
CONSTANTS
  Role = "server"
  Api <- TurnsApi
  Liberties = {}
  Buffers <- Reply
  Timeouts = {TRUE, FALSE}
  MinLens = {0}
  EpollResults = {TRUE, FALSE}
  Pipelined = FALSE
  BufLen = 2
  Grow = 1
  MaxIn = 1
  MaxRoom = 1
  MaxCallbacks = 2
  MaxDepth = 4
INVARIANTS
  ReadWakeup
PROPERTIES
  ReaderProgress
  WriterProgress
CHECK_DEADLOCK FALSE
