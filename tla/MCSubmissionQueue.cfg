SPECIFICATION FairSpec
CONSTANTS
  Threads = {t1, t2}
  Submitter = submitter
  NoHolder = nobody
  MaxCommands = 3
  MaxDrains = 2
  MaxDrainers = 1
  MaxEntries = 3
INVARIANTS
  TypeOK
  AcquireMeansDrained
  ReleaseLosesNothing
PROPERTIES
  CallsReturn
CHECK_DEADLOCK FALSE
