\* A redirection to a file, and a line after it.
CONSTANTS
  Scripts <- OutScripts
  MaxProc = 14
  CAP = 1
  Items = 2
SPECIFICATION ShellSpec
INVARIANT AsMeant
CHECK_DEADLOCK FALSE
