CONSTANTS
  LastPage = 5
  PageSize = 2
  Images <- MCImages
  TableLists <- MCTableLists
  Occupied <- MCOccupied
  MaxFailures = 1
  MaxEvents = 1

SPECIFICATION Spec

\* The boot loader ends.
CHECK_DEADLOCK FALSE

INVARIANTS
  TypeOK
  LoaderHoldsKernel
  SegmentsInPlace
  KernelGetsTrueMap
