CONSTANTS
  SIZE = 8
  LINES = 2
  TAG_SPAN = 4
  SLOTS = 4
  TAG_DEPTH = 5
  MEM_DEPTH = 3
  MaxRequests = 3
  Requests <- MCAll
SPECIFICATION Spec
INVARIANT ReadsReturnLastWrite
CHECK_DEADLOCK TRUE
