SPECIFICATION Spec
CONSTANTS
  Width = 3
  Height = 5
  TaskbarHeight = 2
  CharWidth = 1
  CharSize = 2
  CursorBox <- MCCursorBox
  CursorShape <- MCCursorShape
  Places <- MCPlaces
  ClickText <- MCClickText
  SaveText <- MCSaveText
  MaxInterrupts = 1
CHECK_DEADLOCK FALSE
INVARIANT PrintingStaysInside
