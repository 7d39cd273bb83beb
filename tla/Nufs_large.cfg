\* Files of up to two pages.
CONSTANTS
  INODE_COUNT = 4
  PAGE_COUNT = 7
  ENTS = 3
  Paths <- RootPaths
  Sizes = {0, 3, 6}
SPECIFICATION NufsSpec
INVARIANT PageZeroReserved
