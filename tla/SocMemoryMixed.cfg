CONSTANTS
  Bank = {0, 1}
  Row = {"row0", "row1"}
  Col = {"col0"}
  Port = {"ps", "video"}
  POWER_UP = 1
  REFRESH = 14
  T_RP = 2
  T_RCD = 3
  T_RFC = 7
  T_MRD = 3
  ORDER_DEPTH = 32
  RESULT_DEPTH = 8
  CREDITS = 7
  MaxReads = 2
  Scenes <- MCBothScene
SPECIFICATION Spec
INVARIANT NoAnswerIsDropped
CHECK_DEADLOCK TRUE
