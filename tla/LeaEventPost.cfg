SPECIFICATION FairLoopSpec
CONSTANTS
  NSEC = 2
  NULL = NULL
  HEAP_INIT = 2
  Event = {e1, e2}
  Fd = {f1, f2}
  FlagSets <- LaggedOrNot
  Timeouts <- NoTimeout
  Garbage <- Past
  LoopTimeouts <- NoTimeout
  INIT_EPEV = 3
  WRAP = 16
  MaxTimers = 3
  MaxClock = 1
  MaxCalls = 2
PROPERTY PostedRuns
