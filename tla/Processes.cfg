\* Proc: init and two more slots on two CPUs: a parent and its child come and go,
\* a slot is used again; kill is called on a process and on an unused pid.
\* Vm: three slots and sixteen frames, so that memory runs out in the middle of
\* fork, exec and sbrk.
CONSTANTS
  NPROC = 3
  CPUs = {c1, c2}
  MaxPid = 3
  KillPids = {0, 2}
  None = None
  NSLOT = 3
  NFRAME = 16
  PGSIZE = 2
  UPAGES = 5
  PTSPAN = 3
  Stores = {1}
  MaxSyscalls = 6
  Brks <- SmallBrks
  Progs <- SmallProgs
SPECIFICATION MCSpec
INVARIANTS
  ProcInv
  StackSafe
  InterruptsKept
  VmInv
  MemoryKept
PROPERTIES
  ZombiesReaped
  NobodyStarves
