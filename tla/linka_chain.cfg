CONSTANTS
  None = None
  a = a
  b = b
  v = v
  v2 = v2
  Main = main
  Work = {a, b}
  Reviews = {}
  Cands = {c1}
  Descs = {0, 1}
  Files = {f}
  Blobs = {0, 1}
  Branches = {main}
  Workers = {w1}
  Direct = {a}
  AddCalls <- ChainCalls
  LinkCalls <- ChainLinks
  MaxVersion = 9
  MaxCommit = 3
  MaxMoves = 2
SPECIFICATION MCFairSpec
CHECK_DEADLOCK FALSE
INVARIANT CompleteRestsOnSuccess
INVARIANT PinsAreFaithful
INVARIANT CompletionsRestOnRecorded
PROPERTY AcceptedWorkSettles
PROPERTY WorkConverges
