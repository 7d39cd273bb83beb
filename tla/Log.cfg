\* Two processes make three calls of at most two blocks each; a log with room
\* for LOGSIZE blocks after its header, two such calls, so that a third call
\* may have to wait; two crashes, so that recovery is cut short as well.
CONSTANTS
  Procs = {p1, p2}
  Blocks = {5, 6, 7}
  MAXOPBLOCKS = 2
  LOGSIZE = 4
  nlog = 5
  MaxOps = 3
  MaxCrashes = 2
SPECIFICATION FairSpec
INVARIANTS
  IInv
  DurableWhenQuiet
PROPERTIES
  BeginReturns
  AbsSpec
CHECK_DEADLOCK FALSE
