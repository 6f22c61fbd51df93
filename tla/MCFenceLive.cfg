SPECIFICATION FairSpec
CONSTANTS
  q1 = q1
  q2 = q2
  t1 = t1
  t2 = t2
  a1 = a1
  h1 = h1
  Queues <- MCQueues
  Timelines <- MCTimelines
  TimelineOf <- MCTimelineOf
  TimelineValues <- MCTimelineValues
  Threads <- MCThreads
  Handles = {h1}
  MaxValue = 1
  MaxUpdates = 2
  MaxTickets = 2
PROPERTIES
  WaitersAreServed
CHECK_DEADLOCK FALSE
