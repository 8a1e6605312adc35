SPECIFICATION Spec
CONSTANTS
  MemoryMaps <- MCMemoryMaps
  BitsPerByte = 4
  PageBytes = 8
  LowPages = 2
  CounterRange = 64
  MaxRun = 2
  Fan = 4
  KernelImage <- MCKernelImage
  fbBase = 64
  fbEnd = 65
  ConfigPages <- MCConfigPages
  Touched <- MCTouched
INVARIANT TypeOK
INVARIANT EveryBorrowedPageHasOneUse
INVARIANT TranslationIntact
INVARIANT OnlyExhaustionSpoils
PROPERTY EveryCallEnds
CHECK_DEADLOCK FALSE
