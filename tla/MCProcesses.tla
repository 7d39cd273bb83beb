----------------------------- MODULE MCProcesses ----------------------------
(***************************************************************************)
(* The process table of xv6 and the memory of its processes, for one run   *)
(* of the model checker.  Each behaviour is of one of the two; the other   *)
(* stays as it begins.                                                     *)
(***************************************************************************)
EXTENDS Proc, MCVm

VARIABLE running    \* what this behaviour is of

MCInit == running \in {"proc", "vm"} /\ ProcInit /\ VmInit

(* the process table never stops; Vm does after MaxSyscalls calls *)
MCNext ==
  /\ UNCHANGED running
  /\ \/ running = "proc" /\ ProcNext /\ UNCHANGED vmVars
     \/ running = "vm" /\ (VmNext \/ UNCHANGED vmVars) /\ UNCHANGED procVars

(* FairProcSpec, for the behaviours of the process table *)
On(action) == running = "proc" /\ action
MCFairness ==
  /\ \A c \in CPUs : /\ WF_procVars(On(Kernel(c)))
                     /\ SF_procVars(On(SchedAcquire(c) \/ Yield(c)))
  /\ \A p \in Slots : SF_procVars(On(\E c \in CPUs : GetOn(c, p)))

MCSpec == MCInit /\ [][MCNext]_<<running, procVars, vmVars>> /\ MCFairness

-----------------------------------------------------------------------------
(* The round-robin scan starves nobody, whatever the other CPU does. *)
NobodyStarves == running = "proc" => RunnableRuns
=============================================================================
