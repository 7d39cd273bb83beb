\* One process opens a file and reads it to its end.
CONSTANTS
  Procs = {p1}
  NFILE = 1
  NOFILE = 1
  Inodes = {i1, d1}
  Pipes = {q1}
  Dirs = {d1}
  Lengths = {2}
  Chunk = 1
  MaxSize = 2
  MaxCalls = 5
  None = None
SPECIFICATION FairSpec
PROPERTY
  EndOfFileReturns
CHECK_DEADLOCK FALSE
