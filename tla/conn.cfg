SPECIFICATION FairSpec
CONSTANTS
  Request <- MCRequests
  MaxRequests = 2
  DATA_BUFFER_SIZE = 2
  READ_BUFFER_HIGHWAT = 3
  OutOfMemory = TRUE
  NULL = NULL
CHECK_DEADLOCK FALSE
INVARIANTS AnsweredInOrder  WaitsForTheRightEvent
PROPERTY RequestsAnswered
