CONSTANTS
  INTR_QTY = 2
  Programs <- MCRepOnly
SPECIFICATION IntrFairSpec
PROPERTIES LocksAreReleased
CHECK_DEADLOCK TRUE
