CONSTANTS
  None = None
  Procs = {p, q}
  Records = {r1, r2}
  MaxRevision = 2
SPECIFICATION FairSpec
INVARIANT StoreInv
PROPERTY CommitsAreWhole
PROPERTY StoreRecovers
