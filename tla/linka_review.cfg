CONSTANTS
  None = None
  a = a
  b = b
  v = v
  v2 = v2
  Main = main
  Work = {a}
  Reviews = {v, v2}
  Cands = {c1}
  Descs = {0}
  Files = {f}
  Blobs = {0, 1}
  Branches = {main, side}
  Workers = {w1, w2}
  Direct = {a}
  AddCalls <- ReviewCalls
  LinkCalls <- NoLinks
  MaxVersion = 3
  MaxCommit = 3
  MaxMoves = 2
SPECIFICATION MCSpec
CHECK_DEADLOCK FALSE
INVARIANT TypeOK
INVARIANT VerdictsAreBacked
INVARIANT UnacceptedStaysOut
PROPERTY BranchesOnlyGrow
PROPERTY SubmissionsAreAtomic
SYMMETRY Interchangeable
