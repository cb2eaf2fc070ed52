SPECIFICATION Spec
CONSTANTS
  NSEC = 2
  NULL = NULL
  HEAP_INIT = 2
  Event = {e1, e2, e3}
  Fd = {f1, f2, f3}
  FlagSets <- Lagged
  Timeouts <- NoTimeout
  Garbage <- Past
  LoopTimeouts <- NoTimeout
  INIT_EPEV = 3
  WRAP = 16
  MaxTimers = 3
  MaxClock = 1
  MaxCalls = 4
SYMMETRY Symmetry
INVARIANTS InterestMatchesFlag OneShotStops RemovedNotRegistered ActiveWalk ReadyDispatched
