CONSTANTS
  w1 = w1  w2 = w2  w3 = w3
  c1 = c1
  t1 = t1  t2 = t2
  Garbled = Garbled
  None = None
  Writers = {w1, w2, w3}
  Plans <- ThreeWriters
  Clients = {c1}
  Menu <- OneReader
  Genesis <- ThreeAccounts
  FirstId = 4
  DefaultPage = 2
  MostPerPage = 3
  MaxTimeouts = 1
  Wrap = 1000
SPECIFICATION Spec
CHECK_DEADLOCK FALSE
INVARIANT PinnedCursorsAreUsable
