\* A run dies between recording its result and sealing the attempt.
SPECIFICATION Spec
CONSTANTS
  Procs = {p}
  Nodes = {n}
  MaxAttempts = 1
  MaxHead = 0
  MaxCrashes = 1
  None = None
CHECK_DEADLOCK FALSE
INVARIANT IntegrityFailuresRecordNothing
