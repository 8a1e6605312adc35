SPECIFICATION Spec
CONSTANTS
  Keys <- MCKeys
  ExtendedKeys <- MCExtendedKeys
  StrayBytes <- MCStrayBytes
  MaxDown = 3
  MaxLost = 1
INVARIANTS TypeOK StatesFollowKeys
PROPERTIES LetterCase SavingByCtrlS
