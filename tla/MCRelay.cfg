SPECIFICATION Spec
CONSTANTS
  q1 = q1
  q2 = q2
  q3 = q3
  p1 = p1
  p2 = p2
  fa = fa
  fb = fb
  Queues <- MCQueues
  VkQueues <- MCVkQueues
  VkQueueOf <- MCVkQueueOf
  Fences <- MCFences
  Programs <- MCRelay
  Satisfiable = {}
  MaxValue = 3
INVARIANTS
  GpuFollowsSignals
CHECK_DEADLOCK FALSE
