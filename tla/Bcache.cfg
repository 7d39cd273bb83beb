\* A block of the log, an indirect block and a plain one through two buffers:
\* buffers are shared, recycled and pinned, and read while another is held.
CONSTANTS
  Procs = {p1, p2}
  Blocks = {n1, n2, n3}
  LogBlocks = {n1}
  Indirect = {n2}
  NBUF = 2
  MaxWrites = 2
  ReadOutcomes = {TRUE}
  None = None
SPECIFICATION FairSpec
INVARIANTS
  IInv
  ReadsLatest
PROPERTIES
  BreadReturns
CHECK_DEADLOCK FALSE
