-------------------------------- MODULE Proc --------------------------------
(***************************************************************************)
(* The xv6 process table (proc.c): fork, exit, wait, kill, yield and the   *)
(* per-CPU scheduler, with ptable.lock held across swtch() as in the code. *)
(* A slot of the table is a process; a CPU runs one of them or is in its   *)
(* scheduler loop.  kstack tells whether the slot owns a kernel stack; cpu *)
(* is the interrupt state that the spin lock saves and restores.           *)
(***************************************************************************)
EXTENDS Integers, FiniteSetsExt

CONSTANTS NPROC, CPUs,
          MaxPid,     \* bound on the number of processes ever created
          KillPids,   \* pids that programs pass to kill()
          None

ASSUME NPROCAssumption == NPROC \in Nat \ {0}
ASSUME MaxPidAssumption == MaxPid \in Nat \ {0}
ASSUME NoneAssumption == None \notin CPUs \cup Nat

Slots == 0..(NPROC - 1)
initproc == 0

VARIABLES state, pid, parent, chan, killed, kstack,   \* ptable.proc
          nextpid,
          ptlock,      \* the CPU that holds ptable.lock
          cpu,         \* struct cpu: ncli and intena, and FL, the flag FL_IF
          intena,      \* sched()'s local intena in a process switched out
          on,          \* c->proc: the process on each CPU
          idx,         \* where each CPU's scheduler loop is
          at, back,    \* what each process does; where a yield returns to
          newp         \* np of a process inside fork()

table == <<state, pid, parent, chan, killed, kstack, nextpid>>
locks == <<ptlock, cpu, intena>>
procVars == <<table, locks, on, idx, at, back, newp>>

-----------------------------------------------------------------------------
(***************************************************************************)
(* spinlock.c on the record k of a CPU.  pushcli and popcli nest; the      *)
(* outermost pushcli remembers whether interrupts were on.                 *)
(***************************************************************************)
pushcli(k) == [ncli |-> k.ncli + 1, FL |-> FALSE,
               intena |-> IF k.ncli = 0 THEN k.FL ELSE k.intena]
popcli(k) == [ncli |-> k.ncli - 1, FL |-> k.ncli = 1 /\ k.intena, intena |-> k.intena]

holding(c) == ptlock = c

(* acquire and release by CPU c, whose record is k at the call. *)
acquire(c, k) == /\ ptlock = None
                 /\ ptlock' = c
                 /\ cpu' = [cpu EXCEPT ![c] = pushcli(k)]
release(c, k) == /\ holding(c)
                 /\ ptlock' = None
                 /\ cpu' = [cpu EXCEPT ![c] = popcli(k)]

(* A critical section that is one step: acquire, work, release. *)
Section(c) == /\ ptlock = None
              /\ cpu' = [cpu EXCEPT ![c] = popcli(pushcli(@))]
              /\ UNCHANGED <<ptlock, intena>>

-----------------------------------------------------------------------------
(* userinit: the first process, runnable, everything else unused. *)
ProcInit == /\ state = [s \in Slots |-> IF s = initproc THEN "RUNNABLE" ELSE "UNUSED"]
            /\ pid = [s \in Slots |-> IF s = initproc THEN 1 ELSE 0]
            /\ parent = [s \in Slots |-> None]
            /\ chan = [s \in Slots |-> None]
            /\ killed = [s \in Slots |-> FALSE]
            /\ kstack = [s \in Slots |-> s = initproc]
            /\ nextpid = 2
            /\ ptlock = None
            /\ cpu = [c \in CPUs |-> [ncli |-> 0, intena |-> FALSE, FL |-> FALSE]]
            /\ intena = [s \in Slots |-> FALSE]
            /\ on = [c \in CPUs |-> None]
            /\ idx = [c \in CPUs |-> 0]
            /\ at = [s \in Slots |-> IF s = initproc THEN "forkret" ELSE "none"]
            /\ back = [s \in Slots |-> "user"]
            /\ newp = [s \in Slots |-> None]

(* The pass goes on where the last one ended. *)
SchedAcquireMutant(c) == /\ on[c] = None
                         /\ acquire(c, [cpu[c] EXCEPT !.FL = TRUE])
                         /\ UNCHANGED <<table, intena, idx, on, at, back, newp>>

(* scheduler(): sti, and take the lock for a pass over the table. *)
SchedAcquire(c) == /\ on[c] = None
                   /\ acquire(c, [cpu[c] EXCEPT !.FL = TRUE])
                   /\ idx' = [idx EXCEPT ![c] = 0]
                   /\ UNCHANGED <<table, intena, on, at, back, newp>>

(* The runnable slots that the pass has yet to come to. *)
Runnable(c) == {s \in Slots : s >= idx[c] /\ state[s] = "RUNNABLE"}

(* scheduler(): swtch to the next runnable process, lock held. *)
SchedPick(c) == /\ on[c] = None /\ holding(c) /\ Runnable(c) # {}
                /\ LET p == Min(Runnable(c))
                   IN  /\ on' = [on EXCEPT ![c] = p]
                       /\ state' = [state EXCEPT ![p] = "RUNNING"]
                       /\ idx' = [idx EXCEPT ![c] = p + 1]
                /\ UNCHANGED <<pid, parent, chan, killed, kstack, nextpid, locks, at, back, newp>>

(* scheduler(): end of the pass, the lock is released. *)
SchedEnd(c) == /\ on[c] = None /\ Runnable(c) = {}
               /\ release(c, cpu[c])
               /\ UNCHANGED <<table, intena, idx, on, at, back, newp>>

(* The return from a trap: iret takes IF from the trap frame, where it is  *)
(* set, because only code with interrupts on is interrupted.               *)
trapret(k) == [k EXCEPT !.FL = TRUE]

(* The interrupt state of whoever ran last on this CPU is taken over. *)
RestoredMutant(c) == cpu[c]

(* sched(), after swtch: intena belongs to the thread and not to the CPU. *)
Restored(c) == [cpu[c] EXCEPT !.intena = intena[on[c]]]

(***************************************************************************)
(* A process that was switched in holds ptable.lock.  forkret, which never *)
(* was in sched, and yield release it and return from the trap, which puts *)
(* back the interrupted IF; sleep, called by wait, goes on with the lock.  *)
(***************************************************************************)
Resume(c) == /\ on[c] # None /\ holding(c)
             /\ LET p == on[c]
                IN  /\ state[p] = "RUNNING"
                    /\ intena' = [intena EXCEPT ![p] = FALSE]
                    /\ \/ /\ at[p] \in {"forkret", "yielding"}
                          /\ at' = [at EXCEPT ![p] = back[p]]
                          /\ back' = [back EXCEPT ![p] = "user"]
                          /\ ptlock' = None
                          /\ cpu' = [cpu EXCEPT ![c] = trapret(popcli(
                                       IF at[p] = "forkret" THEN @ ELSE Restored(c)))]
                          /\ UNCHANGED chan
                       \/ /\ at[p] = "sleeping"
                          /\ at' = [at EXCEPT ![p] = "scan"]
                          /\ chan' = [chan EXCEPT ![p] = None]
                          /\ cpu' = [cpu EXCEPT ![c] = Restored(c)]
                          /\ UNCHANGED <<back, ptlock>>
             /\ UNCHANGED <<state, pid, parent, killed, kstack, nextpid, on, idx, newp>>

(* sched(): the context is saved and the CPU is back in its scheduler. *)
Swtch(c) == /\ on[c] # None /\ holding(c) /\ state[on[c]] # "RUNNING"
            /\ on' = [on EXCEPT ![c] = None]
            /\ intena' = [intena EXCEPT ![on[c]] = cpu[c].intena]
            /\ UNCHANGED <<table, ptlock, cpu, idx, at, back, newp>>

At(c, label) == on[c] # None /\ at[on[c]] = label /\ state[on[c]] = "RUNNING"

(* The lock dropped before the context is saved. *)
YieldMutant(c) == /\ on[c] # None /\ cpu[c].FL /\ ptlock = None
                  /\ cpu' = [cpu EXCEPT ![c].FL = FALSE]
                  /\ at[on[c]] \in {"user", "embryo", "stack", "publish"}
                  /\ LET p == on[c]
                     IN  /\ state' = [state EXCEPT ![p] = "RUNNABLE"]
                         /\ back' = [back EXCEPT ![p] = at[p]]
                         /\ at' = [at EXCEPT ![p] = "yielding"]
                  /\ UNCHANGED <<pid, parent, chan, killed, kstack, nextpid, ptlock, intena, on, idx, newp>>

(* yield() on a timer interrupt, taken when interrupts are on; the gate    *)
(* clears IF before the handler calls acquire.                             *)
Yield(c) == /\ on[c] # None /\ cpu[c].FL
            /\ at[on[c]] \in {"user", "embryo", "stack", "publish"}
            /\ acquire(c, [cpu[c] EXCEPT !.FL = FALSE])
            /\ LET p == on[c]
               IN  /\ state' = [state EXCEPT ![p] = "RUNNABLE"]
                   /\ back' = [back EXCEPT ![p] = at[p]]
                   /\ at' = [at EXCEPT ![p] = "yielding"]
            /\ UNCHANGED <<pid, parent, chan, killed, kstack, nextpid, intena, on, idx, newp>>

-----------------------------------------------------------------------------
Unused == {s \in Slots : state[s] = "UNUSED"}

(* fork: allocproc takes the first unused slot; with none fork returns -1. *)
ForkAlloc(c) == /\ At(c, "user") /\ Section(c) /\ nextpid <= MaxPid
                /\ Unused # {}
                /\ LET np == Min(Unused)
                   IN  /\ state' = [state EXCEPT ![np] = "EMBRYO"]
                       /\ pid' = [pid EXCEPT ![np] = nextpid]
                       /\ newp' = [newp EXCEPT ![on[c]] = np]
                /\ nextpid' = nextpid + 1
                /\ at' = [at EXCEPT ![on[c]] = "embryo"]
                /\ UNCHANGED <<parent, chan, killed, kstack, on, idx, back>>

(* allocproc: a kernel stack, on which the new context starts in forkret. *)
AllocStack(c) == /\ At(c, "embryo")
                 /\ LET p == on[c]
                    IN  /\ kstack' = [kstack EXCEPT ![newp[p]] = TRUE]
                        /\ at' = [at EXCEPT ![p] = "stack", ![newp[p]] = "forkret"]
                 /\ UNCHANGED <<state, pid, parent, chan, killed, nextpid, locks, on, idx, back, newp>>

(* kalloc fails, or later copyuvm: the slot, and then the stack too, is    *)
(* given back without the lock.                                            *)
ForkFail(c) == /\ At(c, "embryo") \/ At(c, "stack")
               /\ LET p == on[c]
                  IN  /\ kstack' = [kstack EXCEPT ![newp[p]] = FALSE]
                      /\ state' = [state EXCEPT ![newp[p]] = "UNUSED"]
                      /\ newp' = [newp EXCEPT ![p] = None]
                      /\ at' = [at EXCEPT ![p] = "user", ![newp[p]] = "none"]
               /\ UNCHANGED <<pid, parent, chan, killed, nextpid, locks, on, idx, back>>

(* The memory is copied: parent is set. *)
ForkCopy(c) == /\ At(c, "stack")
               /\ LET p == on[c]
                  IN  /\ parent' = [parent EXCEPT ![newp[p]] = p]
                      /\ at' = [at EXCEPT ![p] = "publish"]
               /\ UNCHANGED <<state, pid, chan, killed, kstack, nextpid, locks, on, idx, back, newp>>

ForkPublish(c) == /\ At(c, "publish") /\ Section(c)
                  /\ LET p == on[c]
                     IN  /\ state' = [state EXCEPT ![newp[p]] = "RUNNABLE"]
                         /\ at' = [at EXCEPT ![p] = "user"]
                         /\ newp' = [newp EXCEPT ![p] = None]
                  /\ UNCHANGED <<pid, parent, chan, killed, kstack, nextpid, on, idx, back>>

-----------------------------------------------------------------------------
(* Abandoned children are not passed to init. *)
ChildrenMutant(p) == {}

Children(p) == {s \in Slots : parent[s] = p}

(* Nobody is woken. *)
NobodyWokenMutant(p) == {}

(* The parent, and init if it inherits a zombie. *)
WokenByExit(p) == {parent[p]} \cup
                  (IF \E k \in Children(p) : state[k] = "ZOMBIE" THEN {initproc} ELSE {})

(* exit(): wake the parent, pass the children to init, become a zombie. *)
Exit(c) ==
    /\ At(c, "user") /\ on[c] # initproc
    /\ acquire(c, cpu[c])
    /\ LET p == on[c]
           wakes == {s \in Slots : state[s] = "SLEEPING" /\ chan[s] \in WokenByExit(p)}
       IN  /\ parent' = [s \in Slots |-> IF s \in Children(p) THEN initproc ELSE parent[s]]
           /\ state' = [s \in Slots |-> IF s = p THEN "ZOMBIE"
                                        ELSE IF s \in wakes THEN "RUNNABLE" ELSE state[s]]
           /\ at' = [at EXCEPT ![p] = "dying"]
    /\ UNCHANGED <<pid, chan, killed, kstack, nextpid, intena, on, idx, back, newp>>

WaitCall(c) == /\ At(c, "user")
               /\ acquire(c, cpu[c])
               /\ at' = [at EXCEPT ![on[c]] = "scan"]
               /\ UNCHANGED <<table, intena, on, idx, back, newp>>

Zombies(p) == {s \in Children(p) : state[s] = "ZOMBIE"}

(* wait(): the first zombie child is freed and its slot reset. *)
WaitReap(c) ==
    /\ At(c, "scan") /\ holding(c)
    /\ Zombies(on[c]) # {}
    /\ LET z == Min(Zombies(on[c]))
       IN  /\ kstack' = [kstack EXCEPT ![z] = FALSE]
           /\ pid' = [pid EXCEPT ![z] = 0]
           /\ parent' = [parent EXCEPT ![z] = None]
           /\ killed' = [killed EXCEPT ![z] = FALSE]
           /\ state' = [state EXCEPT ![z] = "UNUSED"]
           /\ at' = [at EXCEPT ![on[c]] = "user", ![z] = "none"]
    /\ release(c, cpu[c])
    /\ UNCHANGED <<chan, nextpid, intena, on, idx, back, newp>>

(* wait(): no children, or killed: return -1. *)
WaitFail(c) == /\ At(c, "scan") /\ holding(c)
               /\ Zombies(on[c]) = {}
               /\ Children(on[c]) = {} \/ killed[on[c]]
               /\ release(c, cpu[c])
               /\ at' = [at EXCEPT ![on[c]] = "user"]
               /\ UNCHANGED <<table, intena, on, idx, back, newp>>

(* wait(): sleep(curproc, &ptable.lock). *)
WaitSleep(c) == /\ At(c, "scan") /\ holding(c)
                /\ Zombies(on[c]) = {}
                /\ Children(on[c]) # {} /\ ~killed[on[c]]
                /\ state' = [state EXCEPT ![on[c]] = "SLEEPING"]
                /\ chan' = [chan EXCEPT ![on[c]] = on[c]]
                /\ at' = [at EXCEPT ![on[c]] = "sleeping"]
                /\ UNCHANGED <<pid, parent, killed, kstack, nextpid, locks, on, idx, back, newp>>

(* kill(): the first slot with that pid, whatever its state. *)
Kill(c) == /\ At(c, "user") /\ Section(c)
           /\ \E n \in KillPids :
                LET found == {s \in Slots : pid[s] = n}
                    v == Min(found)
                IN  /\ found # {}
                    /\ killed' = [killed EXCEPT ![v] = TRUE]
                    /\ state' = IF state[v] = "SLEEPING"
                                THEN [state EXCEPT ![v] = "RUNNABLE"] ELSE state
           /\ UNCHANGED <<pid, parent, chan, kstack, nextpid, on, idx, at, back, newp>>

-----------------------------------------------------------------------------
Kernel(c) == \/ SchedAcquire(c) \/ SchedPick(c) \/ SchedEnd(c) \/ Resume(c)
             \/ Swtch(c) \/ AllocStack(c) \/ ForkFail(c) \/ ForkCopy(c) \/ ForkPublish(c)
             \/ WaitReap(c) \/ WaitFail(c) \/ WaitSleep(c)
User(c) == Yield(c) \/ ForkAlloc(c) \/ Exit(c) \/ WaitCall(c) \/ Kill(c)

ProcNext == \E c \in CPUs : Kernel(c) \/ User(c)

ProcSpec == ProcInit /\ [][ProcNext]_procVars

(***************************************************************************)
(* The kernel makes progress on every CPU, whose spin lock is not denied   *)
(* for ever; timer interrupts come.  A process that runs again and again   *)
(* gets on in between: it ends the fork() it is in, init calls wait        *)
(* (init.c), another program ends.                                         *)
(***************************************************************************)
ForkStep(c) == AllocStack(c) \/ ForkFail(c) \/ ForkCopy(c) \/ ForkPublish(c)
GetOn(c, p) == /\ on[c] = p
               /\ ForkStep(c) \/ (IF p = initproc THEN WaitCall(c) ELSE Exit(c))
FairProcSpec == /\ ProcSpec
                /\ \A c \in CPUs : /\ WF_procVars(Kernel(c))
                                   /\ SF_procVars(SchedAcquire(c) \/ Yield(c))
                /\ \A p \in Slots : SF_procVars(\E c \in CPUs : GetOn(c, p))

-----------------------------------------------------------------------------
Alive == {"SLEEPING", "RUNNABLE", "RUNNING"}
Active == Alive \cup {"ZOMBIE"}
States == Active \cup {"UNUSED", "EMBRYO"}
Forking == {"embryo", "stack", "publish"}
CpuRecord == [ncli : 0..1, intena : BOOLEAN, FL : BOOLEAN]

ProcTypeOK == /\ state \in [Slots -> States]
              /\ pid \in [Slots -> 0..MaxPid]
              /\ parent \in [Slots -> Slots \cup {None}]
              /\ chan \in [Slots -> Slots \cup {None}]
              /\ killed \in [Slots -> BOOLEAN]
              /\ kstack \in [Slots -> BOOLEAN]
              /\ nextpid \in 2..(MaxPid + 1)
              /\ ptlock \in CPUs \cup {None}
              /\ cpu \in [CPUs -> CpuRecord]
              /\ intena \in [Slots -> BOOLEAN]
              /\ on \in [CPUs -> Slots \cup {None}]
              /\ idx \in [CPUs -> 0..NPROC]
              /\ at \in [Slots -> Forking \cup {"none", "forkret", "user", "yielding",
                                              "scan", "sleeping", "dying"}]
              /\ back \in [Slots -> Forking \cup {"user"}]
              /\ newp \in [Slots -> Slots \cup {None}]

(* No kernel stack is in use on two CPUs, or after wait() has freed it. *)
StackSafe == \A c \in CPUs : on[c] # None =>
               /\ kstack[on[c]]
               /\ \A d \in CPUs \ {c} : on[d] # on[c]

(* Whoever sleeps in wait() has a child and none that it should reap. *)
NoMissedChild ==
    \A p \in Slots : state[p] = "SLEEPING" =>
      /\ \E s \in Slots : parent[s] = p
      /\ \A s \in Slots : parent[s] = p => state[s] # "ZOMBIE"

(* Every process has a parent that is alive to wait for it. *)
ParentAlive ==
    \A p \in Slots \ {initproc} :
      state[p] \in Active => /\ parent[p] \notin {None, p}
                              /\ state[parent[p]] \in Alive

(***************************************************************************)
(* The interrupt flag follows the thread wherever it is switched in: off   *)
(* and one lock deep under ptable.lock, as sched(), release and popcli     *)
(* demand, and on again in the process when it has returned from wait().   *)
(***************************************************************************)
InterruptsKept ==
    \A c \in CPUs : /\ cpu[c].ncli = IF holding(c) THEN 1 ELSE 0
                    /\ holding(c) => ~cpu[c].FL
                    /\ on[c] # None /\ ~holding(c) => cpu[c].FL

(* Every zombie is reaped. *)
ZombiesReaped == \A p \in Slots : state[p] = "ZOMBIE" ~> state[p] = "UNUSED"

(* The round-robin scan starves nobody, whatever the other CPU does. *)
RunnableRuns == \A p \in Slots : state[p] = "RUNNABLE" ~> state[p] # "RUNNABLE"

-----------------------------------------------------------------------------
(* What a process does, or will go on with when it runs again. *)
Doing(p) == IF at[p] = "yielding" THEN back[p] ELSE at[p]

(* A CPU is alone on its process; one that is not RUNNING any more is on   *)
(* its way off the CPU, with ptable.lock held.                             *)
OnCpu == \A c \in CPUs : on[c] # None =>
           /\ state[on[c]] \in Active
           /\ state[on[c]] # "RUNNING" => holding(c)
           /\ \A d \in CPUs : on[d] = on[c] => d = c

Stacks == \A p \in Slots : state[p] \in Active => kstack[p]

(* Between allocproc and the end of fork the new slot, an EMBRYO, belongs  *)
(* to the parent alone, although no lock is held.                          *)
ForkOwns ==
    \A p \in Slots :
      /\ newp[p] # None <=> Doing(p) \in Forking
      /\ newp[p] # None => /\ state[p] \in Alive
                           /\ state[newp[p]] = "EMBRYO"
                           /\ \A q \in Slots : newp[q] = newp[p] => q = p
                           /\ Doing(p) # "embryo" => kstack[newp[p]]
                           /\ Doing(p) = "publish" => parent[newp[p]] = p

(* A slot out of use has no parent until fork is about to publish it. *)
Unparented ==
    \A s \in Slots : state[s] \notin Active /\ parent[s] # None =>
      \E p \in Slots : newp[p] = s /\ Doing(p) = "publish"

(* The label of a slot fits its state. *)
Labels ==
    \A p \in Slots :
      /\ at[p] # "yielding" => back[p] = "user"
      /\ at[p] = "scan" => state[p] = "RUNNING"
      /\ state[p] = "SLEEPING" => at[p] = "sleeping" /\ chan[p] = p
      /\ state[p] = "ZOMBIE" => at[p] = "dying"
      /\ state[p] \notin Active => at[p] \in {"none", "forkret"}

(* A process in wait() was interruptible when it took the lock; intena has *)
(* it while the process is switched out, the CPU before and after.         *)
IntenaSaved ==
    /\ \A c \in CPUs :
         (/\ on[c] # None
          /\ at[on[c]] = "scan" \/ (at[on[c]] = "sleeping" /\ state[on[c]] # "RUNNING"))
         => cpu[c].intena
    /\ \A p \in Slots :
         (/\ at[p] = "sleeping"
          /\ state[p] = "RUNNING" \/ \A c \in CPUs : on[c] # p)
         => intena[p]

InitLives == state[initproc] \in Alive /\ parent[initproc] = None

(* The inductive invariant: the types; the stacks, forks and interrupt     *)
(* flags above; every process has a parent alive to wait for it, and no    *)
(* parent sleeps past a zombie.                                            *)
ProcInv == /\ ProcTypeOK /\ OnCpu /\ Stacks /\ ForkOwns /\ Unparented /\ Labels
           /\ InterruptsKept /\ IntenaSaved
           /\ InitLives /\ ParentAlive /\ NoMissedChild
=============================================================================
