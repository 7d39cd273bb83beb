\* The log that mkfs makes: nlog = LOGSIZE blocks with the header, so that
\* there is room for LOGSIZE - 1; block 4 is the first inode block.
CONSTANTS
  Procs = {p1, p2}
  Blocks = {4, 5, 6, 7}
  MAXOPBLOCKS = 2
  LOGSIZE = 4
  nlog = 4
  MaxOps = 2
  MaxCrashes = 0
SPECIFICATION Spec
INVARIANT
  AdmittedNeverPanics
CHECK_DEADLOCK FALSE
