----------------------------- MODULE MCPrograms -----------------------------
(***************************************************************************)
(* Four programs that share nothing, for one run of the model checker: the *)
(* barrier, the threaded sort, a pipe of xv6, and the two shells.  Each    *)
(* behaviour is one of the programs; the others stay as they begin.        *)
(***************************************************************************)
EXTENDS Barrier, TSort, Pipe, MCShell

VARIABLE running    \* the program of this behaviour

others(name) ==
  /\ running = name
  /\ name # "barrier" => UNCHANGED vars
  /\ name # "sort" => UNCHANGED sortVars
  /\ name # "pipe" => UNCHANGED allVars
  /\ name # "shell" => UNCHANGED shellVars
  /\ UNCHANGED running

MCInit ==
  /\ running \in {"barrier", "sort", "pipe", "shell"}
  /\ Init /\ SortInit /\ PipeInit /\ ShellInit
  /\ running # "sort" => input = CHOOSE f \in [1..1 -> Values] : TRUE
  /\ running # "shell" => <<shell, script>> = CHOOSE x \in Scripts : TRUE

MCNext ==
  \/ Next /\ others("barrier")
  \/ SortNext /\ others("sort")
  \/ PipeNext /\ others("pipe")
  \/ ShellNext /\ others("shell")

(* The fairness of each program, for its own behaviours. *)
On(name, action) == running = name /\ action
MCFairness ==
  \/ /\ running = "barrier"
     /\ \A t \in Threads :
       /\ WF_vars(On("barrier", Step(t))) /\ SF_vars(On("barrier", LockSeen(t)))
       /\ SF_vars(On("barrier", LockWall(t))) /\ SF_vars(On("barrier", Relock(t)))
       /\ WF_vars(On("barrier", WakeSignalled(t)))
  \/ /\ running = "sort"
     /\ WF_sortVars(On("sort", Main)) /\ \A w \in Workers : WF_sortVars(On("sort", Worker(w)))
  \/ /\ running = "pipe"
     /\ \A p \in Procs :
       /\ WF_allVars(On("pipe", Kernel(p))) /\ SF_allVars(On("pipe", LockSteps(p)))
       /\ WF_allVars(On("pipe", User(p)))
  \/ /\ running = "shell"
     /\ \A p \in Pids : WF_shellVars(On("shell", ShellStep(p)))

MCSpec == MCInit /\ [][MCNext]_<<running, vars, sortVars, allVars, shellVars>> /\ MCFairness

-----------------------------------------------------------------------------
(* Every thread that calls barrier_wait comes out of it (barrier.c). *)
BarrierLeaves == running = "barrier" => EverybodyLeaves

(* main of tsort.c comes to its end, all workers joined. *)
SortTerminates == running = "sort" => Terminates

(* Readers and writers of a pipe all come to their last close (pipe.c). *)
PipeFinishes == running = "pipe" => EverybodyFinishes

(* A script comes to its end, or to the one place where nush waits for a   *)
(* child that waits for it (Stuck).                                        *)
ShellTerminates == running = "shell" => ScriptEnds
=============================================================================
