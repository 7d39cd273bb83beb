\* cd to a directory that is not there, or a command.
CONSTANTS
  Scripts <- OrScripts
  MaxProc = 14
  CAP = 1
  Items = 2
SPECIFICATION ShellSpec
INVARIANT AsMeant
CHECK_DEADLOCK FALSE
