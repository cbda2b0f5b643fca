SPECIFICATION Spec
CONSTANTS
  w1 = w1
  w2 = w2
  Workers = {w1, w2}
  Asks <- MCAsks
  InitialRows <- MCRows
  TTL = 1
  PAGE_SIZE = 1
  MaxAsks = 2
  MaxRows = 5
  MaxClock = 2
  MaxRestarts = 1
  MaxLost = 1
SYMMETRY Threads
INVARIANTS   PartsAreExact
CHECK_DEADLOCK FALSE
