\* The barrier: three threads, so that one can be last, one asleep and one
\* between the two mutexes.  The sort: three threads over all inputs of at most
\* three floats out of three values.  The pipe: two writers, each writing three
\* bytes through a ring of two, so that a writer sleeps inside a call and the
\* counters wrap; a writer and the reader may be killed.
CONSTANTS
  Threads = {t1, t2, t3}
  NoThread = NoThread
  T = 3
  MaxSize = 3
  Values = {0, 1, 2}
  Readers = {r1}
  Writers = {w1, w2}
  Killable = {r1, w1}
  PIPESIZE = 2
  Wrap = 4
  WriteLen = 3
  ReadLen = 2
  Calls = 1
  None = None
  Scripts <- SmallScripts
  MaxProc = 14
  CAP = 1
  Items = 2
SPECIFICATION MCSpec
INVARIANTS
  IInv
  SortInv
  OutputSorted
  PipeInv
  ShellInv
  RunsAsMeant
  Settled
PROPERTIES
  AbsSpec
  NoWriteDuringScan
  FifoSpec
  BarrierLeaves
  SortTerminates
  PipeFinishes
  ShellTerminates
CHECK_DEADLOCK FALSE
