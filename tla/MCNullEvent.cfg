SPECIFICATION Spec
CONSTANTS
  fa = fa
  fb = fb
  Fences <- MCFences
  Waits <- MCWaits
  MaxValue = 2
  FenceCount = 3
INVARIANTS
  BlockedUntilCompletion
CHECK_DEADLOCK FALSE
