SPECIFICATION Spec
CONSTANTS
  q1 = q1
  q2 = q2
  t1 = t1
  t2 = t2
  a1 = a1
  h1 = h1
  Queues <- MCQueues
  Timelines <- MCTimelines
  TimelineOf <- MCTimelineOf
  TimelineValues <- MCTimelineValues
  Threads <- MCThreads
  Handles <- MCHandles
  MaxValue = 2
  MaxUpdates = 2
  MaxTickets = 2
INVARIANTS
  TypeOK
  NothingWaitsForAVisibleValue
  SubmittedSignalsAreKnown
  WaitFindsAnUpdate
  NobodySleepsInVain
PROPERTIES
  SignalsBecomeVisibleInOrder
CHECK_DEADLOCK FALSE
