SPECIFICATION Spec
CONSTANTS
  FirmwareConfigs <- MCFirmwareConfigs
  UserBytes <- MCUserBytes
  OtherIrqs <- MCOtherIrqs
  MaxUser = 1
  MaxSlow = 0
INVARIANT
  UserCannotDisable
CHECK_DEADLOCK FALSE
