SPECIFICATION Spec
CONSTANTS
  Role = "server"
  Api <- AvApi
  Liberties = {}
  Buffers <- AvBuffers
  Timeouts = {TRUE}
  MinLens = {0, 2}
  EpollResults = {TRUE, FALSE}
  Pipelined = TRUE
  BufLen = 2
  Grow = 1
  MaxIn = 2
  MaxRoom = 1
  MaxCallbacks = 1
  MaxDepth = 4
INVARIANTS
  TypeOK
  SendsSomething
PROPERTIES
  SentExactly
CHECK_DEADLOCK FALSE
