\* Create and unlink of one file.
CONSTANTS
  Procs = {p1, p2}
  NINODES = 5
  NINODE = 6
  NBLOCK = 8
  Names = {"a", "d"}
  MaxCalls = 4
  MaxBlocks = 2
  None = None
  Calls <- SmallCalls
SYMMETRY Symmetric
SPECIFICATION Spec
INVARIANT NoDeadlock
CHECK_DEADLOCK FALSE
