CONSTANTS
  MaxInstr = 3
  MaxShift = 2
  Families <- MCFamilies
SPECIFICATION FairSpec
INVARIANTS OperandsAreCurrent StoreCarriesItsValue NothingIsLost
PROPERTIES InstructionsFinish
CHECK_DEADLOCK TRUE
