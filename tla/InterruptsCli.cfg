CONSTANTS
  INTR_QTY = 2
  Programs <- MCCliOnly
SPECIFICATION IntrFairSpec
PROPERTIES StopsAreServed
CHECK_DEADLOCK TRUE
