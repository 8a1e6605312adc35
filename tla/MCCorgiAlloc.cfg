SPECIFICATION AllocSpec
CONSTANTS
  MemoryMaps <- MCMemoryMaps
  BitsPerByte = 4
  PageBytes = 2
  LowPages = 2
  CounterRange = 32
  MaxRun = 2
INVARIANT AllocTypeOK
INVARIANT EveryBitHasOneOwner
INVARIANT NothingFreeBehindCursor
INVARIANT CountersAgree
PROPERTY PoolImplemented
