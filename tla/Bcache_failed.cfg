\* One process, and a disk whose reads may fail.
CONSTANTS
  Procs = {p1}
  Blocks = {n1, n2}
  LogBlocks = {}
  Indirect = {}
  NBUF = 1
  MaxWrites = 1
  ReadOutcomes = {TRUE, FALSE}
  None = None
SPECIFICATION Spec
INVARIANT
  ReadsLatest
CHECK_DEADLOCK FALSE
