SPECIFICATION Spec
CONSTANTS
  FirmwareConfigs <- MCFirmwareConfigs
  UserBytes <- MCUserBytes
  OtherIrqs <- MCOtherIrqs
  MaxUser = 1
  MaxSlow = 1
INVARIANTS
  OnlySetGatesTaken
  EveryInterruptEnded
  NoByteStuck
  SetUpWorks
CHECK_DEADLOCK FALSE
PROPERTIES
  StraysDoNotBreed
  EveryByteIsTaken
