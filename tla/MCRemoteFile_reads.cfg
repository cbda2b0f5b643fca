SPECIFICATION ReaderSpec
CONSTANTS
  Recorded <- MCRecorded
  Actual <- MCActual
  Window <- MCWindow
  AlienSize = 1
  ALIGN = 2
  REQUEST_SIZE = 4
  BLOCK_SIZE = 4
  BLOCKS_CACHED = 2
  Heads = {0, 3}
  Offsets = {0, 9}
  Wants = {2, 12}
  MaxExpiries = 1
INVARIANTS ReadIsExact CacheIsExact
