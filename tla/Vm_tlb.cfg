\* Two children of init: one gives all its memory back, the other grows.
CONSTANTS
  NSLOT = 3
  NFRAME = 16
  PGSIZE = 2
  UPAGES = 5
  PTSPAN = 3
  Stores = {1}
  MaxSyscalls = 5
  Brks = {3}
  Progs = {}
SPECIFICATION TlbSpec
INVARIANTS
  MemoryKept
CHECK_DEADLOCK FALSE
