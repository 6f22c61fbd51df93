SPECIFICATION FairSpec
CONSTANTS
  q1 = q1
  q2 = q2
  q3 = q3
  p1 = p1
  p2 = p2
  fa = fa
  fb = fb
  Queues <- MCQueues
  VkQueues <- MCVkQueues
  VkQueueOf <- MCVkQueueOf
  Fences <- MCFences
  Programs <- MCPrograms
  Satisfiable <- MCSatisfiable
  MaxValue = 3
INVARIANTS
  TypeOK
  GpuFollowsSignals
  VisibleMeansDone
  CountsAreExact
  NoKnot
PROPERTIES
  FencesAreFences
  EverythingRetires
CHECK_DEADLOCK FALSE
