CONSTANTS
  None = None
  p = p
  q = q
  Procs = {p, q}
  Marks = {}
  Outputs = {"over"}
  MaxRuns = 2
  MaxMessages = 2
  MaxChannel = 1
  MaxCrashes = 0
SPECIFICATION Spec
CHECK_DEADLOCK FALSE
INVARIANT QueueSurvives
