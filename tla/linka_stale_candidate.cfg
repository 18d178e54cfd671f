CONSTANTS
  None = None
  a = a
  b = b
  v = v
  v2 = v2
  Main = main
  Work = {a}
  Reviews = {}
  Cands = {c1}
  Descs = {0, 1}
  Files = {f}
  Blobs = {0, 1}
  Branches = {main}
  Workers = {w1}
  Direct = {}
  AddCalls <- ReviewCalls
  LinkCalls <- NoLinks
  MaxVersion = 2
  MaxCommit = 2
SPECIFICATION Spec
CHECK_DEADLOCK FALSE
INVARIANT StaleSuccessIsReady
