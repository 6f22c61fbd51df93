SPECIFICATION Spec
CONSTANTS
  Threads = {t1, t2}
  Nobody = Nobody
  NoAlloc = NoAlloc
  Alloc = {a1, a2}
  Memory = {m1, m2}
  NoMemory = NoMemory
  Resource = {r1}
  NoResource = NoResource
  Requests <- MCRequests
  ChunkSize = 3
  CommandBuffers = 2
  MaxPending = 2
  MaxSubmissions = 3
  MaxCalls = 3
CHECK_DEADLOCK FALSE
INVARIANTS
  TypeOK
  FreeRangesExact
  TransfersHitLiveObjects
  ClearsAreInTime
  EveryWaitEnds
