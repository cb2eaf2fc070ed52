SPECIFICATION FairSpec
CONSTANTS
  MaxRequests = 3
  BUF = 5
  MaxAddr = 2
INVARIANTS TypeOK OrderlyRelay ServesReady
PROPERTIES RequestsRelayed ResponsesRelayed ResponseRead
CHECK_DEADLOCK FALSE
