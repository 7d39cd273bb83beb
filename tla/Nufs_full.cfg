\* A root with as many files as entries.
CONSTANTS
  INODE_COUNT = 4
  PAGE_COUNT = 5
  ENTS = 3
  Paths <- SmallPaths
  Sizes = {0}
SPECIFICATION NufsSpec
INVARIANT NamesResolve
