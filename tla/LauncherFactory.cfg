SPECIFICATION Spec
CONSTANTS
  N = 1
  Requests = {"r1"}
  None = None
  Terminal = TRUE
  MaxFaults = 1
CHECK_DEADLOCK FALSE

PROPERTIES PlcEndsLast NoneLeft ShownInTheEnd
