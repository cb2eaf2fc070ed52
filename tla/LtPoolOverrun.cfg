SPECIFICATION Spec
CONSTANTS
  Manager = {m1}
  Destroyable = {}
  one_element_size = 4
  element_count = 2
  SIZEOF_POOL <- PoolStruct
  SIZEOF_MANAGER <- ManagerStruct
  WORD <- Word
  MaxPools = 2
  MaxBlocks = 4
INVARIANT BlocksInside
CHECK_DEADLOCK FALSE
