CONSTANTS
  SIZE = 8
  LINES = 2
  TAG_SPAN = 4
  SLOTS = 3
  TAG_DEPTH = 5
  MEM_DEPTH = 3
  MaxRequests = 3
  Requests <- MCNoOddWordWrites
SPECIFICATION FairSpec
INVARIANTS ReadsReturnLastWrite BooksAreTrue
PROPERTY ReadsAnswered
CHECK_DEADLOCK TRUE
