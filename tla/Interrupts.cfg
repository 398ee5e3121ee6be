CONSTANTS
  INTR_QTY = 2
  Programs <- MCPrograms
SPECIFICATION IntrFairSpec
INVARIANTS ScoreboardHonest EntersOnce
PROPERTIES NobodyWaitsForEver
CHECK_DEADLOCK TRUE
