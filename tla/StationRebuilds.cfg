SPECIFICATION Spec
CONSTANTS
  u1 = u1
  u2 = u2
  Units = {u1, u2}
  Even = {u2}
  Requests = {"r1", "r2"}
  Startup = "startup"
  None = None
  MaxChanges = 2
  MaxFaults = 1
  MaxWired = 2
INVARIANT LeftIsGone
PROPERTIES RebuildReturns Settles
CHECK_DEADLOCK FALSE
