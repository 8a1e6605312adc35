SPECIFICATION Spec
CONSTANTS
  Width = 3
  Height = 5
  TaskbarHeight = 2
  CharWidth = 1
  CharSize = 2
  CursorBox <- MCCursorBox
  CursorShape <- MCCursorShape
  Places <- MCPlaces
  ClickText <- MCClickText
  SaveText <- MCSaveText
  MaxInterrupts = 3
CHECK_DEADLOCK FALSE
INVARIANTS TypeOK OnlySavedPixelsComeBack TracesOnlyWhereCovered
PROPERTIES TextMovesOn HandlersPrintInside
