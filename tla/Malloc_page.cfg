\* Chunks of a cell, and of a word less than a page, in two pages.
SPECIFICATION MallocSpec
CONSTANTS
  HDR = 1
  CELL = 3
  PAGE = 16
  BIN = 4
  TOP = 2
  CORE = 16
  MemPages = 2
  Requests = {0, 14}
  MaxLive = 3
INVARIANT InUseMapped
CHECK_DEADLOCK FALSE
