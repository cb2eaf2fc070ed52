SPECIFICATION Spec
CONSTANTS
  NSEC = 2
  NULL = NULL
  Event = {e1, e2, e3, e4}
  HEAP_INIT = 2
  Times <- MCTimes
  MaxTimers = 4
SYMMETRY Symmetry
INVARIANTS TypeOK Indexed InBounds
