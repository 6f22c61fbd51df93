SPECIFICATION Spec
CONSTANTS
  Threads = {t1, t2}
  Submitter = submitter
  NoHolder = nobody
  MaxCommands = 3
  MaxDrains = 2
  MaxDrainers = 2
  MaxEntries = 3
INVARIANTS
  NobodyOversleeps
CHECK_DEADLOCK FALSE
