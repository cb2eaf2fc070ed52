SPECIFICATION Spec
CONSTANTS
  NSEC = 2
  NULL = NULL
  HEAP_INIT = 2
  Event = {e1, e2}
  Fd = {f1}
  FlagSets <- OnlyLagged
  Timeouts <- SomeTimeouts
  Garbage <- AnyTime
  LoopTimeouts <- LoopTimeoutsM
  INIT_EPEV = 3
  WRAP = 16
  MaxTimers = 2
  MaxClock = 2
  MaxCalls = 5
INVARIANTS TypeOK NoTimeoutNeverExpires
PROPERTIES TimersImplemented TimeoutVerdict
