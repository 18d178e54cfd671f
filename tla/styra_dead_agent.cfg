CONSTANTS
  None = None
  p = p
  q = q
  Procs = {p, q}
  Marks = {}
  Outputs = {"over"}
  MaxRuns = 2
  MaxMessages = 0
  MaxChannel = 1
  MaxCrashes = 0
SPECIFICATION Spec
CHECK_DEADLOCK FALSE
INVARIANT GoneAgentsAreStopped
