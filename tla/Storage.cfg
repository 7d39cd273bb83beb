\* Fs: two processes and four calls on a root with a file and a directory.
\* Nufs: four inodes, pages of three entries, files of at most a page.
\* Malloc: up to three chunks of three sizes, the last one larger than a page, in
\* three pages.  No request is near a page (NearPage): that is the question of
\* Malloc_page.cfg.  Collatz: two threads and the numbers 1 and 2.
CONSTANTS
  Procs = {p1, p2}
  NINODES = 4
  NINODE = 4
  NBLOCK = 6
  Names = {"a", "d"}
  MaxCalls = 4
  MaxBlocks = 2
  None = None
  Calls <- SmallCalls
  INODE_COUNT = 4
  PAGE_COUNT = 5
  ENTS = 3
  Paths <- SmallPaths
  Sizes = {0, 3}
  HDR = 1
  CELL = 3
  PAGE = 16
  BIN = 4
  TOP = 2
  CORE = 16
  MemPages = 3
  Requests = {3, 10, 20}
  MaxLive = 3
  Threads = {t1, t2}
  DataTop = 3
  ITER = 1
  CAP0 = 1
  TASK = 2
  CollatzPages = 3
SYMMETRY MCSymmetric
SPECIFICATION MCSpec
INVARIANTS
  IInv
  TreeSound
  NoPanic
  OnlyIputDeadlocks
  NufsExact
  ChunksSound
  WordsKept
  CollatzRight
CHECK_DEADLOCK FALSE
