CONSTANTS
  None = None
  Requests <- AllRequests
SPECIFICATION Spec
INVARIANTS
  HooksInOrder
  CommandLineIsComplete
  FinishedSystemsBoot
CHECK_DEADLOCK FALSE
