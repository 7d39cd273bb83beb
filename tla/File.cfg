\* Two processes, three files and two descriptors each: files are shared by fork
\* and dup, both tables run full, a pipe may get no page; writes take two turns.
CONSTANTS
  Procs = {p1, p2}
  NFILE = 3
  NOFILE = 2
  Inodes = {i1, d1}
  Pipes = {q1}
  Dirs = {d1}
  Lengths = {2}
  Chunk = 1
  MaxSize = 2
  MaxCalls = 5
  None = None
SPECIFICATION FairSpec
INVARIANTS
  IInv
  OffsetShared
PROPERTIES
  CallsReturn
CHECK_DEADLOCK FALSE
