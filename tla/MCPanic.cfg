CONSTANTS
  Screens <- MCScreens
  Messages <- MCMessages
  charsize = 16
  LineSize = 128
  Word = 65536
  HexDigits = 4
  Numbers = {0, 5, 171, 4096, 65535}
SPECIFICATION Spec
INVARIANTS InsideFramebuffer NeverDrawnOver
PROPERTIES NumbersReadBack WholeMessageShown
