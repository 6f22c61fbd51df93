SPECIFICATION FairSpec
CONSTANTS
  fa = fa
  fb = fb
  Fences <- MCFences
  Waits <- MCWaits
  MaxValue = 2
  FenceCount = 3
INVARIANTS
  TypeOK
  PayloadIsExact
  OneSignalOrAnError
  TemporaryEventIsOpen
PROPERTIES
  PromiseIsKept
CHECK_DEADLOCK FALSE
