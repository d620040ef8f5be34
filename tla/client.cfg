SPECIFICATION Spec
CONSTANTS
  Role = "client"
  Api <- ClientApi
  Liberties = {}
  Buffers <- RefBuffers
  Timeouts = {TRUE}
  MinLens = {0}
  EpollResults = {TRUE}
  Pipelined = TRUE
  BufLen = 2
  Grow = 1
  MaxIn = 2
  MaxRoom = 1
  MaxCallbacks = 2
  MaxDepth = 4
INVARIANTS
  TimeoutReported
PROPERTIES
  SentExactly
CHECK_DEADLOCK FALSE
