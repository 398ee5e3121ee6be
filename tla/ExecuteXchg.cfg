CONSTANTS
  MaxInstr = 2
  MaxShift = 1
  Families <- MCXchg
SPECIFICATION FairSpec
INVARIANTS StoreCarriesItsValue
CHECK_DEADLOCK TRUE
