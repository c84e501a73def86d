SPECIFICATION ReplacerSpec
CONSTANTS
  PoolSize = 3
  K = 3
  MaxAccesses = 8
INVARIANT ReplacerConsistent
PROPERTY EvictionOrder
