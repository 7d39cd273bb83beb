\* Two files of at most a page in the root.
CONSTANTS
  INODE_COUNT = 4
  PAGE_COUNT = 5
  ENTS = 3
  Paths <- RootPaths
  Sizes = {0, 1, 3}
SPECIFICATION NufsSpec
INVARIANT FilesKept
