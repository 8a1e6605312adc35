SPECIFICATION Spec
CONSTANT
  Machines <- MCMachines
INVARIANTS
  PrintedSoFar
  OnlyConfigSpaceMapped
  NamesFit
PROPERTY
  EnumerationEnds
CHECK_DEADLOCK FALSE
