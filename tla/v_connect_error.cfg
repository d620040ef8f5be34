SPECIFICATION Spec
CONSTANTS
  Role = "client"
  Api <- ServerApi
  Liberties = {}
  Buffers <- Reply
  Timeouts = {TRUE}
  MinLens = {0}
  EpollResults = {TRUE}
  Pipelined = TRUE
  BufLen = 2
  Grow = 1
  MaxIn = 2
  MaxRoom = 1
  MaxCallbacks = 1
  MaxDepth = 4
INVARIANTS
  ConnectErrorReported
CHECK_DEADLOCK FALSE
