CONSTANTS
  None = None
  p = p
  q = q
  Procs = {p, q}
  Marks = {"sealed"}
  Outputs = {"over"}
  MaxRuns = 2
  MaxMessages = 1
  MaxChannel = 1
  MaxCrashes = 1
SPECIFICATION Spec
CHECK_DEADLOCK FALSE
INVARIANT TypeOK
INVARIANT OneAgent
INVARIANT DeadAgentsDoNotLookIdle
INVARIANT QueueIsKept
INVARIANT QueueIsMirrored
SYMMETRY Interchangeable
