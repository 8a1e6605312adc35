SPECIFICATION Spec
CONSTANTS
  Moves <- MCMoves
  StrayBytes <- MCStrayBytes
  Width = 11
  Height = 7
  MaxTrouble = 3
INVARIANTS
  TypeOK
  SyncedMeansAligned
PROPERTY
  PointerImplemented
