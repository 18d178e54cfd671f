CONSTANTS
  None = None
  Procs = {p, q}
  Nodes = {n}
  MaxAttempts = 1
  MaxHead = 1
  MaxCrashes = 2
SPECIFICATION FairSpec
CHECK_DEADLOCK FALSE
INVARIANT TypeOK
INVARIANT SealsTellTheTruth
INVARIANT OutputsAreKept
INVARIANT WorktreesAreKnown
PROPERTY WorkIsNeverDiscarded
PROPERTY EvidenceOutlivesTheAttempt
PROPERTY AttemptsConclude
