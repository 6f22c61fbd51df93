SPECIFICATION Spec
CONSTANTS
  fifo = fifo
  immediate = immediate
  i1 = i1
  i2 = i2
  NoImage = NoImage
  NoMode = NoMode
  Images <- MCImages
  Modes <- MCModes
  Paced <- MCPaced
  Buffers = 2
  FrameLatency = 2
  Retries = 1
  LowLatency = FALSE
  MaxPresents = 3
  MaxEvents = 2
INVARIANTS
  TypeOK
  RequestsAreKept
  SwapchainsOutliveTheirUsers
  AcquireSemaphoresAlternate
  NothingIsFreedUnderABlit
  NobodyIsStuck
CHECK_DEADLOCK FALSE
