SPECIFICATION Spec
CONSTANTS
  Manager = {m1, m2, d1}
  Destroyable = {d1}
  one_element_size = 3
  element_count = 1
  SIZEOF_POOL <- PoolStruct
  SIZEOF_MANAGER <- ManagerStruct
  WORD <- Word
  MaxPools = 4
  MaxBlocks = 5
INVARIANTS TypeOK BlocksApart OverrunOnce ChainComplete
PROPERTY DestroyFreesAll
CHECK_DEADLOCK FALSE
