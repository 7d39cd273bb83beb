---------------------------- MODULE ProcLogProofs ---------------------------
(***************************************************************************)
(* Theorems about two parts of the kernel that do not meet: the process    *)
(* table and its scheduler (Proc), and the log (Log).                      *)
(***************************************************************************)
EXTENDS Proc, Log, WellFoundedInduction, FiniteSetTheorems, TLAPS

-----------------------------------------------------------------------------
(***************************************************************************)
(* Processes, for any number of slots, CPUs and process numbers: ProcInv   *)
(* is inductive, no kernel stack is used twice or after it is freed, and   *)
(* the interrupt flag follows the thread from CPU to CPU.                  *)
(***************************************************************************)

USE NPROCAssumption, MaxPidAssumption, NoneAssumption

(* The scans of the process table find a slot whenever there is one. *)
LEMMA MinIn ==
  ASSUME NEW S \in SUBSET Slots, S # {}
  PROVE  Min(S) \in S
  <1>1. S \subseteq Nat
    BY DEF Slots
  <1>2. PICK x \in S : \A y \in S : ~(<<y, x>> \in OpToRel(<, Nat))
    BY <1>1, WFMin, NatLessThanWellFounded
  <1>3. ASSUME NEW y \in S PROVE x <= y
    <2>1. x \in Nat /\ y \in Nat
      BY <1>1
    <2>2. ~(<<y, x>> \in OpToRel(<, Nat))
      BY <1>2
    <2> QED
      BY <2>1, <2>2 DEF OpToRel
  <1> QED
    BY <1>3 DEF Min

(* What acquire and release do to the record of a CPU, one lock deep. *)
LEMMA PushPop ==
  ASSUME NEW k \in CpuRecord
  PROVE  /\ k.ncli = 0 => /\ pushcli(k) \in CpuRecord
                          /\ pushcli(k).ncli = 1
                          /\ ~pushcli(k).FL
                          /\ (pushcli(k).intena <=> k.FL)
         /\ k.ncli = 1 => /\ popcli(k) \in CpuRecord
                          /\ popcli(k).ncli = 0
                          /\ (popcli(k).FL <=> k.intena)
                          /\ (popcli(k).intena <=> k.intena)
  <1>1. ASSUME k.ncli = 0
        PROVE  /\ pushcli(k) \in CpuRecord
               /\ pushcli(k).ncli = 1
               /\ ~pushcli(k).FL
               /\ pushcli(k).intena <=> k.FL
    BY <1>1 DEF pushcli, CpuRecord
  <1>2. ASSUME k.ncli = 1
        PROVE  /\ popcli(k) \in CpuRecord
               /\ popcli(k).ncli = 0
               /\ popcli(k).FL <=> k.intena
               /\ popcli(k).intena <=> k.intena
    BY <1>2 DEF popcli, CpuRecord
  <1> QED
    BY <1>1, <1>2

(* A critical section leaves the interrupt flag as it was. *)
LEMMA SectionKeeps ==
  ASSUME NEW k \in CpuRecord, k.ncli = 0
  PROVE  /\ popcli(pushcli(k)) \in CpuRecord
         /\ popcli(pushcli(k)).ncli = 0
         /\ (popcli(pushcli(k)).FL <=> k.FL)
         /\ (popcli(pushcli(k)).intena <=> k.FL)
  BY PushPop

LEMMA InitProcInv == ProcInit => ProcInv
  <1> SUFFICES ASSUME ProcInit PROVE ProcInv
    OBVIOUS
  <1> USE DEF ProcInit
  <1>1. ProcTypeOK
    BY DEF ProcTypeOK, Slots, initproc, States, Active, Alive, Forking, CpuRecord
  <1>2. OnCpu /\ Stacks /\ InterruptsKept /\ IntenaSaved
    BY DEF OnCpu, Stacks, InterruptsKept, IntenaSaved, Active, Alive, Slots, initproc,
       holding
  <1>3. ForkOwns /\ Unparented /\ Labels
    BY DEF ForkOwns, Unparented, Labels, Active, Alive, Forking, Doing, Slots, initproc
  <1>4. InitLives /\ ParentAlive /\ NoMissedChild
    BY DEF InitLives, ParentAlive, NoMissedChild, Active, Alive, Slots, initproc
  <1> QED
    BY <1>1, <1>2, <1>3, <1>4 DEF ProcInv

(* The lock is free: its CPUs are not in a critical section, and the       *)
(* processes on them run with interrupts on.                               *)
LEMMA LockFree ==
  ASSUME ProcInv, ptlock = None, NEW c \in CPUs
  PROVE  /\ ptlock # c
         /\ cpu[c] \in CpuRecord
         /\ cpu[c].ncli = 0
         /\ on[c] # None => on[c] \in Slots /\ state[on[c]] = "RUNNING" /\ cpu[c].FL
  BY DEF ProcInv, ProcTypeOK, OnCpu, InterruptsKept, holding

(* The lock is held by c: no other CPU is in a critical section. *)
LEMMA LockHeld ==
  ASSUME ProcInv, NEW c \in CPUs, holding(c)
  PROVE  /\ ptlock = c
         /\ cpu[c] \in CpuRecord
         /\ cpu[c].ncli = 1
  BY DEF ProcInv, ProcTypeOK, InterruptsKept, holding

LEMMA OthersRun ==
  ASSUME ProcInv, NEW c \in CPUs, holding(c), NEW d \in CPUs, d # c
  PROVE  /\ ptlock # d
         /\ on[d] # None => on[d] \in Slots /\ state[on[d]] = "RUNNING" /\ cpu[d].FL
  BY DEF ProcInv, ProcTypeOK, OnCpu, InterruptsKept, holding

(* scheduler() starts a pass. *)
LEMMA SchedAcquireKeeps ==
  ASSUME ProcInv, NEW c \in CPUs, SchedAcquire(c)
  PROVE  ProcInv'
  <1> DEFINE k == [cpu[c] EXCEPT !.FL = TRUE]
  <1>1. ptlock = None
    BY DEF SchedAcquire, acquire
  <1>2. cpu[c] \in CpuRecord /\ cpu[c].ncli = 0
    BY <1>1, LockFree
  <1>3. k \in CpuRecord /\ k.ncli = 0
    BY <1>2 DEF CpuRecord
  <1>4. /\ pushcli(k) \in CpuRecord /\ pushcli(k).ncli = 1 /\ ~pushcli(k).FL
    BY <1>3, PushPop
  <1>5. /\ on[c] = None /\ ptlock' = c
        /\ cpu' = [cpu EXCEPT ![c] = pushcli(k)]
        /\ idx' = [idx EXCEPT ![c] = 0]
        /\ UNCHANGED <<state, pid, parent, chan, killed, kstack, nextpid,
                       intena, on, at, back, newp>>
    BY DEF SchedAcquire, acquire, table
  <1> HIDE DEF k
  <1>6. ProcTypeOK'
    BY <1>4, <1>5 DEF ProcInv, ProcTypeOK
  <1>7. OnCpu' /\ InterruptsKept' /\ IntenaSaved'
    BY <1>1, <1>4, <1>5, LockFree DEF ProcInv, ProcTypeOK, OnCpu, InterruptsKept, IntenaSaved,
       holding
  <1>8. Stacks' /\ ForkOwns' /\ Unparented' /\ Labels' /\ InitLives' /\ ParentAlive' /\ NoMissedChild'
    BY <1>5 DEF ProcInv, Stacks, ForkOwns, Unparented, Labels, InitLives, ParentAlive,
       NoMissedChild, Doing
  <1> QED
    BY <1>6, <1>7, <1>8 DEF ProcInv

(* scheduler() takes a process that is on no CPU: one that is being        *)
(* switched out holds the lock on its own CPU.                             *)
LEMMA SchedPickKeeps ==
  ASSUME ProcInv, NEW c \in CPUs, SchedPick(c)
  PROVE  ProcInv'
  <1> DEFINE p == Min(Runnable(c))
  <1>1. p \in Runnable(c)
    BY MinIn DEF SchedPick, Runnable
  <1>2. p \in Slots /\ state[p] = "RUNNABLE"
    BY <1>1 DEF Runnable
  <1>3. /\ on[c] = None /\ holding(c)
        /\ on' = [on EXCEPT ![c] = p]
        /\ state' = [state EXCEPT ![p] = "RUNNING"]
        /\ idx' = [idx EXCEPT ![c] = p + 1]
        /\ UNCHANGED <<pid, parent, chan, killed, kstack, nextpid, ptlock, cpu,
                       intena, at, back, newp>>
    BY DEF SchedPick, locks
  <1> HIDE DEF p
  <1>4. ASSUME NEW d \in CPUs PROVE on[d] # p
    <2>1. p # None
      BY <1>2 DEF Slots
    <2>2. on[d] # None /\ d # c => state[on[d]] = "RUNNING"
      BY <1>3, OthersRun
    <2> QED
      BY <1>2, <1>3, <2>1, <2>2
  <1>5. ProcTypeOK'
    BY SMTT(30), <1>2, <1>3 DEF ProcInv, ProcTypeOK, Slots, States, Active, Alive
  <1>6. OnCpu' /\ InterruptsKept'
    BY <1>2, <1>3, <1>4 DEF ProcInv, ProcTypeOK, OnCpu, InterruptsKept, holding, Active, Alive,
       Slots
  <1>7. IntenaSaved'
    BY SMTT(30), <1>2, <1>3, <1>4 DEF ProcInv, ProcTypeOK, IntenaSaved, Labels, Slots
  <1>8. Stacks' /\ ForkOwns' /\ Unparented' /\ Labels'
    BY <1>2, <1>3 DEF ProcInv, ProcTypeOK, Stacks, ForkOwns, Unparented, Labels, Doing, Active,
       Alive
  <1>9. InitLives' /\ ParentAlive' /\ NoMissedChild'
    BY <1>2, <1>3 DEF ProcInv, ProcTypeOK, InitLives, ParentAlive, NoMissedChild, Active, Alive
  <1> QED
    BY <1>5, <1>6, <1>7, <1>8, <1>9 DEF ProcInv

(* scheduler() ends a pass. *)
LEMMA SchedEndKeeps ==
  ASSUME ProcInv, NEW c \in CPUs, SchedEnd(c)
  PROVE  ProcInv'
  <1>1. holding(c)
    BY DEF SchedEnd, release
  <1>2. popcli(cpu[c]) \in CpuRecord /\ popcli(cpu[c]).ncli = 0
    BY <1>1, LockHeld, PushPop
  <1>3. /\ on[c] = None /\ ptlock' = None
        /\ cpu' = [cpu EXCEPT ![c] = popcli(cpu[c])]
        /\ UNCHANGED <<state, pid, parent, chan, killed, kstack, nextpid,
                       intena, idx, on, at, back, newp>>
    BY DEF SchedEnd, release, table
  <1>4. ProcTypeOK'
    BY <1>2, <1>3 DEF ProcInv, ProcTypeOK
  <1>5. OnCpu' /\ InterruptsKept' /\ IntenaSaved'
    BY <1>1, <1>2, <1>3 DEF ProcInv, ProcTypeOK, OnCpu, InterruptsKept, IntenaSaved, holding
  <1>6. Stacks' /\ ForkOwns' /\ Unparented' /\ Labels' /\ InitLives' /\ ParentAlive' /\ NoMissedChild'
    BY <1>3 DEF ProcInv, Stacks, ForkOwns, Unparented, Labels, InitLives, ParentAlive,
       NoMissedChild, Doing
  <1> QED
    BY <1>4, <1>5, <1>6 DEF ProcInv

(* sched() saves intena with the process that leaves. *)
LEMMA SwtchKeeps ==
  ASSUME ProcInv, NEW c \in CPUs, Swtch(c)
  PROVE  ProcInv'
  <1> DEFINE p == on[c]
  <1>1. /\ p \in Slots /\ holding(c) /\ state[p] # "RUNNING"
        /\ cpu[c] \in CpuRecord
        /\ on' = [on EXCEPT ![c] = None]
        /\ intena' = [intena EXCEPT ![p] = cpu[c].intena]
        /\ UNCHANGED <<state, pid, parent, chan, killed, kstack, nextpid, ptlock,
                       cpu, idx, at, back, newp>>
    BY DEF ProcInv, ProcTypeOK, Swtch, table
  <1>2. cpu[c].intena \in BOOLEAN
    BY <1>1 DEF CpuRecord
  <1>3. ProcTypeOK'
    BY <1>1, <1>2 DEF ProcInv, ProcTypeOK
  <1>4. OnCpu' /\ InterruptsKept'
    BY <1>1 DEF ProcInv, ProcTypeOK, OnCpu, InterruptsKept, holding
  <1>5. IntenaSaved'
    BY <1>1 DEF ProcInv, ProcTypeOK, OnCpu, IntenaSaved
  <1>6. Stacks' /\ ForkOwns' /\ Unparented' /\ Labels' /\ InitLives' /\ ParentAlive' /\ NoMissedChild'
    BY <1>1 DEF ProcInv, Stacks, ForkOwns, Unparented, Labels, InitLives, ParentAlive,
       NoMissedChild, Doing
  <1> QED
    BY <1>3, <1>4, <1>5, <1>6 DEF ProcInv

(* A process that was switched in gets its own interrupt state back. *)
LEMMA ResumeKeeps ==
  ASSUME ProcInv, NEW c \in CPUs, Resume(c)
  PROVE  ProcInv'
  <1> DEFINE p == on[c]
  <1>1. /\ p \in Slots /\ holding(c) /\ state[p] = "RUNNING"
        /\ intena' = [intena EXCEPT ![p] = FALSE]
        /\ UNCHANGED <<state, pid, parent, killed, kstack, nextpid, on, idx, newp>>
    BY DEF ProcInv, ProcTypeOK, Resume
  <1>2. /\ cpu[c] \in CpuRecord /\ cpu[c].ncli = 1
        /\ intena[p] \in BOOLEAN
    BY <1>1, LockHeld DEF ProcInv, ProcTypeOK
  <1>3. Restored(c) \in CpuRecord /\ Restored(c).ncli = 1
    BY <1>2 DEF Restored, CpuRecord
  <1>4. CASE at[p] \in {"forkret", "yielding"}
    <2> DEFINE k == IF at[p] = "forkret" THEN cpu[c] ELSE Restored(c)
               r == trapret(popcli(k))
    <2>1. /\ at' = [at EXCEPT ![p] = back[p]]
          /\ back' = [back EXCEPT ![p] = "user"]
          /\ ptlock' = None
          /\ cpu' = [cpu EXCEPT ![c] = r]
          /\ UNCHANGED chan
      BY <1>4 DEF Resume
    <2>2. k \in CpuRecord /\ k.ncli = 1
      BY <1>2, <1>3
    <2>3. popcli(k) \in CpuRecord /\ popcli(k).ncli = 0
      BY <2>2, PushPop
    <2>4. r \in CpuRecord /\ r.ncli = 0 /\ r.FL
      BY <2>3 DEF trapret, CpuRecord
    <2> HIDE DEF k, r
    <2>5. ProcTypeOK'
      BY <1>1, <2>1, <2>4 DEF ProcInv, ProcTypeOK, Forking
    <2>6. OnCpu' /\ InterruptsKept'
      BY <1>1, <2>1, <2>4 DEF ProcInv, ProcTypeOK, OnCpu, InterruptsKept, holding
    <2>7. IntenaSaved'
      BY <1>1, <2>1, <2>4 DEF ProcInv, ProcTypeOK, OnCpu, IntenaSaved, Forking
    <2>8. ForkOwns' /\ Unparented' /\ Labels'
      BY <1>1, <1>4, <2>1 DEF ProcInv, ProcTypeOK, ForkOwns, Unparented, Labels, Doing, Forking,
         Active, Alive
    <2>9. Stacks' /\ InitLives' /\ ParentAlive' /\ NoMissedChild'
      BY <1>1, <2>1 DEF ProcInv, Stacks, InitLives, ParentAlive, NoMissedChild
    <2> QED
      BY <2>5, <2>6, <2>7, <2>8, <2>9 DEF ProcInv
  <1>5. CASE at[p] = "sleeping"
    <2>1. /\ at' = [at EXCEPT ![p] = "scan"]
          /\ chan' = [chan EXCEPT ![p] = None]
          /\ cpu' = [cpu EXCEPT ![c] = Restored(c)]
          /\ UNCHANGED <<back, ptlock>>
      BY <1>5 DEF Resume
    <2>2. intena[p] /\ ~cpu[c].FL
      BY <1>1, <1>5 DEF ProcInv, IntenaSaved, InterruptsKept
    <2>3. Restored(c).intena /\ ~Restored(c).FL
      BY <1>2, <2>2 DEF Restored, CpuRecord
    <2>5. ProcTypeOK'
      BY <1>1, <1>3, <2>1 DEF ProcInv, ProcTypeOK
    <2>6. OnCpu' /\ InterruptsKept'
      BY <1>1, <1>3, <2>1, <2>3 DEF ProcInv, ProcTypeOK, OnCpu, InterruptsKept, holding
    <2>7. IntenaSaved'
      BY <1>1, <2>1, <2>3 DEF ProcInv, ProcTypeOK, OnCpu, IntenaSaved
    <2>8. ForkOwns' /\ Unparented' /\ Labels'
      BY SMTT(30), <1>1, <1>5, <2>1 DEF ProcInv, ProcTypeOK, ForkOwns, Unparented, Labels, Doing, Forking,
         Active, Alive
    <2>9. Stacks' /\ InitLives' /\ ParentAlive' /\ NoMissedChild'
      BY <1>1, <2>1 DEF ProcInv, Stacks, InitLives, ParentAlive, NoMissedChild
    <2> QED
      BY <2>5, <2>6, <2>7, <2>8, <2>9 DEF ProcInv
  <1> QED
    BY <1>4, <1>5 DEF Resume

(* yield() gives the CPU away in the middle of whatever the process does. *)
LEMMA YieldKeeps ==
  ASSUME ProcInv, NEW c \in CPUs, Yield(c)
  PROVE  ProcInv'
  <1> DEFINE p == on[c]
             k == [cpu[c] EXCEPT !.FL = FALSE]
  <1>1. ptlock = None /\ p # None
    BY DEF Yield, acquire
  <1>2. /\ p \in Slots /\ state[p] = "RUNNING"
        /\ cpu[c] \in CpuRecord /\ cpu[c].ncli = 0
    BY <1>1, LockFree
  <1>3. k \in CpuRecord /\ k.ncli = 0
    BY <1>2 DEF CpuRecord
  <1>4. pushcli(k) \in CpuRecord /\ pushcli(k).ncli = 1 /\ ~pushcli(k).FL
    BY <1>3, PushPop
  <1>5. /\ at[p] \in {"user"} \cup Forking
        /\ ptlock' = c
        /\ cpu' = [cpu EXCEPT ![c] = pushcli(k)]
        /\ state' = [state EXCEPT ![p] = "RUNNABLE"]
        /\ back' = [back EXCEPT ![p] = at[p]]
        /\ at' = [at EXCEPT ![p] = "yielding"]
        /\ UNCHANGED <<pid, parent, chan, killed, kstack, nextpid, intena, on, idx, newp>>
    BY DEF Yield, acquire, Forking
  <1> HIDE DEF k
  <1>6. ProcTypeOK'
    BY <1>2, <1>4, <1>5 DEF ProcInv, ProcTypeOK, States, Active, Alive
  <1>7. OnCpu' /\ InterruptsKept'
    BY <1>1, <1>2, <1>4, <1>5 DEF ProcInv, ProcTypeOK, OnCpu, InterruptsKept, holding, Active,
       Alive
  <1>8. IntenaSaved'
    BY <1>1, <1>2, <1>4, <1>5 DEF ProcInv, ProcTypeOK, OnCpu, IntenaSaved, Forking
  <1>9. Stacks' /\ ForkOwns' /\ Unparented' /\ Labels'
    BY <1>2, <1>5 DEF ProcInv, ProcTypeOK, Stacks, ForkOwns, Unparented, Labels, Doing, Forking,
       Active, Alive
  <1>10. InitLives' /\ ParentAlive' /\ NoMissedChild'
    BY <1>2, <1>5 DEF ProcInv, ProcTypeOK, InitLives, ParentAlive, NoMissedChild, Active, Alive
  <1> QED
    BY <1>6, <1>7, <1>8, <1>9, <1>10 DEF ProcInv

(* A critical section of a process ends as it began. *)
LEMMA SectionStep ==
  ASSUME ProcInv, NEW c \in CPUs, on[c] # None, Section(c)
  PROVE  /\ ptlock = None /\ ptlock' = None /\ intena' = intena
         /\ on[c] \in Slots /\ state[on[c]] = "RUNNING"
         /\ cpu' = [cpu EXCEPT ![c] = popcli(pushcli(cpu[c]))]
         /\ popcli(pushcli(cpu[c])) \in CpuRecord
         /\ popcli(pushcli(cpu[c])).ncli = 0
         /\ popcli(pushcli(cpu[c])).FL
         /\ popcli(pushcli(cpu[c])).intena
  <1>1. ptlock = None /\ ptlock' = None /\ intena' = intena
    BY DEF Section
  <1>2. /\ cpu[c] \in CpuRecord /\ cpu[c].ncli = 0 /\ cpu[c].FL
        /\ on[c] \in Slots /\ state[on[c]] = "RUNNING"
    BY <1>1, LockFree
  <1>3. cpu' = [cpu EXCEPT ![c] = popcli(pushcli(cpu[c]))]
    BY DEF Section
  <1> QED
    BY <1>1, <1>2, <1>3, SectionKeeps

(* allocproc takes a slot that nobody else knows of. *)
LEMMA ForkAllocKeeps ==
  ASSUME ProcInv, NEW c \in CPUs, ForkAlloc(c)
  PROVE  ProcInv'
  <1> DEFINE p == on[c]
             np == Min(Unused)
             k == popcli(pushcli(cpu[c]))
  <1>1. p # None /\ at[p] = "user" /\ Section(c) /\ nextpid <= MaxPid /\ Unused # {}
    BY DEF ForkAlloc, At
  <1>2. /\ ptlock = None /\ ptlock' = None /\ intena' = intena
        /\ p \in Slots /\ state[p] = "RUNNING"
        /\ cpu' = [cpu EXCEPT ![c] = k]
        /\ k \in CpuRecord /\ k.ncli = 0 /\ k.FL /\ k.intena
    BY <1>1, SectionStep
  <1>3. np \in Unused
    BY <1>1, MinIn DEF Unused
  <1>4. np \in Slots /\ state[np] = "UNUSED"
    BY <1>3 DEF Unused
  <1>5. /\ state' = [state EXCEPT ![np] = "EMBRYO"]
        /\ pid' = [pid EXCEPT ![np] = nextpid]
        /\ newp' = [newp EXCEPT ![p] = np]
        /\ nextpid' = nextpid + 1
        /\ at' = [at EXCEPT ![p] = "embryo"]
        /\ UNCHANGED <<parent, chan, killed, kstack, on, idx, back>>
    BY DEF ForkAlloc
  <1> HIDE DEF np, k
  <1>6. ProcTypeOK'
    BY <1>1, <1>2, <1>4, <1>5 DEF ProcInv, ProcTypeOK, States, Forking
  <1>7. OnCpu' /\ InterruptsKept' /\ IntenaSaved'
    BY <1>1, <1>2, <1>4, <1>5
    DEF ProcInv, ProcTypeOK, OnCpu, InterruptsKept, IntenaSaved, Labels, holding, Active, Alive
  <1>8. Stacks' /\ Labels'
    BY <1>1, <1>2, <1>4, <1>5 DEF ProcInv, ProcTypeOK, Stacks, Labels, Active, Alive
  <1>9. ForkOwns'
    BY SMTT(30), <1>1, <1>2, <1>4, <1>5 DEF ProcInv, ProcTypeOK, ForkOwns, Labels, Doing, Forking, Active,
       Alive, Slots
  <1>10. Unparented'
    <2> SUFFICES ASSUME NEW s \in Slots, state'[s] \notin Active, parent'[s] # None
                 PROVE  \E q \in Slots : newp'[q] = s /\ Doing(q)' = "publish"
      BY DEF Unparented
    <2>1. state[s] \notin Active /\ parent[s] # None
      BY <1>4, <1>5 DEF ProcInv, ProcTypeOK, Active, Alive
    <2>2. PICK q \in Slots : newp[q] = s /\ Doing(q) = "publish"
      BY <2>1 DEF ProcInv, Unparented
    <2>3. q # p
      BY <1>1, <2>2 DEF Doing
    <2> QED
      BY <1>2, <1>5, <2>2, <2>3 DEF ProcInv, ProcTypeOK, Doing
  <1>11. InitLives' /\ ParentAlive' /\ NoMissedChild'
    BY <1>2, <1>4, <1>5 DEF ProcInv, ProcTypeOK, InitLives, ParentAlive, NoMissedChild, Active,
       Alive
  <1> QED
    BY <1>6, <1>7, <1>8, <1>9, <1>10, <1>11 DEF ProcInv

(* Inside fork the new slot is the caller's, and no CPU runs it. *)
LEMMA InFork ==
  ASSUME ProcInv, NEW p \in Slots, state[p] = "RUNNING", at[p] \in Forking
  PROVE  /\ newp[p] \in Slots
         /\ newp[p] # p
         /\ newp[p] # initproc
         /\ state[newp[p]] = "EMBRYO"
         /\ at[newp[p]] \in {"none", "forkret"}
         /\ back[newp[p]] = "user"
         /\ newp[newp[p]] = None
  <1>1. newp[p] \in Slots /\ state[newp[p]] = "EMBRYO"
    BY DEF ProcInv, ProcTypeOK, ForkOwns, Doing, Forking
  <1>2. newp[p] # p /\ newp[p] # initproc
    BY <1>1 DEF ProcInv, InitLives, Alive
  <1>3. at[newp[p]] \in {"none", "forkret"} /\ back[newp[p]] = "user"
    BY <1>1 DEF ProcInv, Labels, Active, Alive
  <1> QED
    BY <1>1, <1>2, <1>3 DEF ProcInv, ForkOwns, Doing, Forking

LEMMA NoParentYet ==
  ASSUME ProcInv, NEW p \in Slots, state[p] = "RUNNING", at[p] \in {"embryo", "stack"}
  PROVE  parent[newp[p]] = None
  <1>1. newp[p] \in Slots /\ state[newp[p]] = "EMBRYO"
    BY InFork DEF Forking
  <1>2. SUFFICES ASSUME parent[newp[p]] # None PROVE FALSE
    OBVIOUS
  <1>3. PICK q \in Slots : newp[q] = newp[p] /\ Doing(q) = "publish"
    BY <1>1, <1>2 DEF ProcInv, Unparented, Active, Alive
  <1>4. newp[p] # None
    BY <1>1 DEF Slots
  <1>5. q = p
    BY <1>3, <1>4 DEF ProcInv, ForkOwns
  <1> QED
    BY <1>3, <1>5 DEF Doing

(* allocproc allocates the stack of its slot. *)
LEMMA AllocStackKeeps ==
  ASSUME ProcInv, NEW c \in CPUs, AllocStack(c)
  PROVE  ProcInv'
  <1> DEFINE p == on[c]
             np == newp[p]
  <1>1. /\ p \in Slots /\ state[p] = "RUNNING" /\ at[p] = "embryo"
        /\ kstack' = [kstack EXCEPT ![np] = TRUE]
        /\ at' = [at EXCEPT ![p] = "stack", ![np] = "forkret"]
        /\ UNCHANGED <<state, pid, parent, chan, killed, nextpid, ptlock, cpu, intena, on, idx, back, newp>>
    BY DEF ProcInv, ProcTypeOK, AllocStack, At, locks
  <1>2. /\ np \in Slots /\ np # p /\ state[np] = "EMBRYO"
        /\ at[np] \in {"none", "forkret"} /\ back[np] = "user" /\ newp[np] = None
    BY <1>1, InFork DEF Forking
  <1>3. ProcTypeOK'
    BY <1>1, <1>2 DEF ProcInv, ProcTypeOK, Forking
  <1>4. OnCpu' /\ InterruptsKept' /\ Stacks' /\ InitLives' /\ ParentAlive' /\ NoMissedChild'
    BY <1>1, <1>2 DEF ProcInv, ProcTypeOK, OnCpu, InterruptsKept, holding, Stacks, InitLives,
       ParentAlive, NoMissedChild
  <1>5. IntenaSaved' /\ Labels'
    BY <1>1, <1>2 DEF ProcInv, ProcTypeOK, IntenaSaved, Labels, Active, Alive
  <1>6. ForkOwns'
    BY <1>1, <1>2 DEF ProcInv, ProcTypeOK, ForkOwns, Doing, Forking
  <1>7. Unparented'
    BY <1>1, <1>2 DEF ProcInv, ProcTypeOK, Unparented, Doing, Forking
  <1> QED
    BY <1>3, <1>4, <1>5, <1>6, <1>7 DEF ProcInv

(* fork gives slot and stack back without the lock. *)
LEMMA ForkFailKeeps ==
  ASSUME ProcInv, NEW c \in CPUs, ForkFail(c)
  PROVE  ProcInv'
  <1> DEFINE p == on[c]
             np == newp[p]
  <1>1. /\ p \in Slots /\ state[p] = "RUNNING" /\ at[p] \in {"embryo", "stack"}
        /\ kstack' = [kstack EXCEPT ![np] = FALSE]
        /\ state' = [state EXCEPT ![np] = "UNUSED"]
        /\ newp' = [newp EXCEPT ![p] = None]
        /\ at' = [at EXCEPT ![p] = "user", ![np] = "none"]
        /\ UNCHANGED <<pid, parent, chan, killed, nextpid, ptlock, cpu, intena, on, idx, back>>
    BY DEF ProcInv, ProcTypeOK, ForkFail, At, locks
  <1>2. /\ np \in Slots /\ np # p /\ np # initproc /\ state[np] = "EMBRYO"
        /\ at[np] \in {"none", "forkret"} /\ back[np] = "user" /\ newp[np] = None
    BY <1>1, InFork DEF Forking
  <1>3. parent[np] = None
    BY <1>1, NoParentYet
  <1>4. ProcTypeOK'
    BY <1>1, <1>2 DEF ProcInv, ProcTypeOK, States
  <1>5. OnCpu' /\ InterruptsKept' /\ Stacks'
    BY <1>1, <1>2 DEF ProcInv, ProcTypeOK, OnCpu, InterruptsKept, holding, Stacks, Active, Alive
  <1>6. IntenaSaved' /\ Labels'
    BY <1>1, <1>2 DEF ProcInv, ProcTypeOK, OnCpu, IntenaSaved, Labels, Active, Alive
  <1>7. ForkOwns'
    BY <1>1, <1>2 DEF ProcInv, ProcTypeOK, ForkOwns, Doing, Forking, Alive
  <1>8. Unparented'
    BY <1>1, <1>2, <1>3 DEF ProcInv, ProcTypeOK, Unparented, Doing, Forking, Active, Alive
  <1>9. InitLives' /\ ParentAlive' /\ NoMissedChild'
    BY <1>1, <1>2 DEF ProcInv, ProcTypeOK, InitLives, ParentAlive, NoMissedChild, Active, Alive
  <1> QED
    BY <1>4, <1>5, <1>6, <1>7, <1>8, <1>9 DEF ProcInv

(* fork sets the parent of its slot. *)
LEMMA ForkCopyKeeps ==
  ASSUME ProcInv, NEW c \in CPUs, ForkCopy(c)
  PROVE  ProcInv'
  <1> DEFINE p == on[c]
             np == newp[p]
  <1>1. /\ p \in Slots /\ state[p] = "RUNNING" /\ at[p] = "stack"
        /\ parent' = [parent EXCEPT ![np] = p]
        /\ at' = [at EXCEPT ![p] = "publish"]
        /\ UNCHANGED <<state, pid, chan, killed, kstack, nextpid, ptlock, cpu, intena, on, idx, back, newp>>
    BY DEF ProcInv, ProcTypeOK, ForkCopy, At, locks
  <1>2. /\ np \in Slots /\ np # p /\ np # initproc /\ state[np] = "EMBRYO"
        /\ at[np] \in {"none", "forkret"} /\ back[np] = "user" /\ newp[np] = None
    BY <1>1, InFork DEF Forking
  <1>3. parent[np] = None
    BY <1>1, NoParentYet
  <1>4. ProcTypeOK'
    BY <1>1, <1>2 DEF ProcInv, ProcTypeOK, Forking
  <1>5. OnCpu' /\ InterruptsKept' /\ Stacks'
    BY <1>1 DEF ProcInv, ProcTypeOK, OnCpu, InterruptsKept, holding, Stacks
  <1>6. IntenaSaved' /\ Labels'
    BY <1>1, <1>2 DEF ProcInv, ProcTypeOK, IntenaSaved, Labels, Active, Alive
  <1>7. ForkOwns'
    BY <1>1, <1>2 DEF ProcInv, ProcTypeOK, ForkOwns, Doing, Forking
  <1>8. Unparented'
    BY <1>1, <1>2 DEF ProcInv, ProcTypeOK, Unparented, Doing, Forking
  <1>9. InitLives' /\ ParentAlive'
    BY <1>1, <1>2 DEF ProcInv, ProcTypeOK, InitLives, ParentAlive, Active, Alive
  <1>10. NoMissedChild'
    BY <1>1, <1>2, <1>3 DEF ProcInv, ProcTypeOK, NoMissedChild, Slots
  <1> QED
    BY <1>4, <1>5, <1>6, <1>7, <1>8, <1>9, <1>10 DEF ProcInv

(* fork makes the child runnable. *)
LEMMA ForkPublishKeeps ==
  ASSUME ProcInv, NEW c \in CPUs, ForkPublish(c)
  PROVE  ProcInv'
  <1> DEFINE p == on[c]
             np == newp[p]
             k == popcli(pushcli(cpu[c]))
  <1>1. p # None /\ at[p] = "publish" /\ Section(c)
    BY DEF ForkPublish, At
  <1>2. /\ ptlock = None /\ ptlock' = None /\ intena' = intena
        /\ p \in Slots /\ state[p] = "RUNNING"
        /\ cpu' = [cpu EXCEPT ![c] = k]
        /\ k \in CpuRecord /\ k.ncli = 0 /\ k.FL /\ k.intena
    BY <1>1, SectionStep
  <1>3. /\ state' = [state EXCEPT ![np] = "RUNNABLE"]
        /\ at' = [at EXCEPT ![p] = "user"]
        /\ newp' = [newp EXCEPT ![p] = None]
        /\ UNCHANGED <<pid, parent, chan, killed, kstack, nextpid, on, idx, back>>
    BY DEF ForkPublish
  <1> HIDE DEF k
  <1>4. /\ np \in Slots /\ np # p /\ np # initproc /\ state[np] = "EMBRYO"
        /\ at[np] \in {"none", "forkret"} /\ back[np] = "user" /\ newp[np] = None
    BY <1>1, <1>2, InFork DEF Forking
  <1>5. kstack[np] /\ parent[np] = p
    BY <1>1, <1>2, <1>4 DEF ProcInv, ForkOwns, Doing, Slots
  <1>6. ProcTypeOK'
    BY <1>2, <1>3, <1>4 DEF ProcInv, ProcTypeOK, States, Active, Alive
  <1>7. OnCpu' /\ InterruptsKept' /\ Stacks'
    BY <1>2, <1>3, <1>4, <1>5
    DEF ProcInv, ProcTypeOK, OnCpu, InterruptsKept, holding, Stacks, Active, Alive
  <1>8. IntenaSaved' /\ Labels'
    BY <1>1, <1>2, <1>3, <1>4 DEF ProcInv, ProcTypeOK, OnCpu, IntenaSaved, Labels, Active, Alive
  <1>9. ForkOwns'
    BY <1>1, <1>2, <1>3, <1>4 DEF ProcInv, ProcTypeOK, ForkOwns, Doing, Forking, Alive
  <1>10. Unparented'
    BY <1>1, <1>2, <1>3, <1>4 DEF ProcInv, ProcTypeOK, Unparented, Doing, Forking, Active, Alive
  <1>11. InitLives' /\ ParentAlive' /\ NoMissedChild'
    BY SMTT(30), <1>2, <1>3, <1>4, <1>5
    DEF ProcInv, ProcTypeOK, InitLives, ParentAlive, NoMissedChild, Active, Alive, Slots
  <1> QED
    BY <1>6, <1>7, <1>8, <1>9, <1>10, <1>11 DEF ProcInv

(* wait() finds interrupts on when it takes the lock. *)
LEMMA WaitCallKeeps ==
  ASSUME ProcInv, NEW c \in CPUs, WaitCall(c)
  PROVE  ProcInv'
  <1> DEFINE p == on[c]
  <1>1. ptlock = None /\ p # None /\ at[p] = "user"
    BY DEF WaitCall, acquire, At
  <1>2. /\ p \in Slots /\ state[p] = "RUNNING"
        /\ cpu[c] \in CpuRecord /\ cpu[c].ncli = 0 /\ cpu[c].FL
    BY <1>1, LockFree
  <1>3. /\ pushcli(cpu[c]) \in CpuRecord /\ pushcli(cpu[c]).ncli = 1
        /\ ~pushcli(cpu[c]).FL /\ pushcli(cpu[c]).intena
    BY <1>2, PushPop
  <1>4. /\ ptlock' = c
        /\ cpu' = [cpu EXCEPT ![c] = pushcli(cpu[c])]
        /\ at' = [at EXCEPT ![p] = "scan"]
        /\ UNCHANGED <<state, pid, parent, chan, killed, kstack, nextpid,
                       intena, on, idx, back, newp>>
    BY DEF WaitCall, acquire, table
  <1>5. ProcTypeOK'
    BY <1>2, <1>3, <1>4 DEF ProcInv, ProcTypeOK
  <1>6. OnCpu' /\ InterruptsKept'
    BY <1>1, <1>2, <1>3, <1>4 DEF ProcInv, ProcTypeOK, OnCpu, InterruptsKept, holding
  <1>7. IntenaSaved'
    BY <1>2, <1>3, <1>4 DEF ProcInv, ProcTypeOK, OnCpu, IntenaSaved
  <1>8. ForkOwns' /\ Unparented' /\ Labels'
    BY <1>1, <1>2, <1>4 DEF ProcInv, ProcTypeOK, ForkOwns, Unparented, Labels, Doing, Forking,
       Active, Alive
  <1>9. Stacks' /\ InitLives' /\ ParentAlive' /\ NoMissedChild'
    BY <1>4 DEF ProcInv, Stacks, InitLives, ParentAlive, NoMissedChild
  <1> QED
    BY <1>5, <1>6, <1>7, <1>8, <1>9 DEF ProcInv

(* The end of wait(): the interrupts that were on are on again. *)
LEMMA WaitRelease ==
  ASSUME ProcInv, NEW c \in CPUs, At(c, "scan"), holding(c)
  PROVE  /\ on[c] \in Slots
         /\ popcli(cpu[c]) \in CpuRecord
         /\ popcli(cpu[c]).ncli = 0
         /\ popcli(cpu[c]).FL
         /\ popcli(cpu[c]).intena
  <1>1. on[c] \in Slots /\ cpu[c].intena
    BY DEF ProcInv, ProcTypeOK, At, IntenaSaved
  <1>2. cpu[c] \in CpuRecord /\ cpu[c].ncli = 1
    BY LockHeld
  <1> QED
    BY <1>1, <1>2, PushPop

(* wait() frees a zombie, which is on no CPU. *)
LEMMA WaitReapKeeps ==
  ASSUME ProcInv, NEW c \in CPUs, WaitReap(c)
  PROVE  ProcInv'
  <1> DEFINE p == on[c]
             z == Min(Zombies(p))
             k == popcli(cpu[c])
  <1>1. At(c, "scan") /\ holding(c) /\ Zombies(p) # {}
    BY DEF WaitReap
  <1>2. /\ p \in Slots /\ k \in CpuRecord /\ k.ncli = 0 /\ k.FL /\ k.intena
    BY <1>1, WaitRelease
  <1>3. z \in Zombies(p)
    BY <1>1, MinIn DEF Zombies, Children
  <1>4. z \in Slots /\ state[z] = "ZOMBIE" /\ parent[z] = p
    BY <1>3 DEF Zombies, Children
  <1>5. /\ at[p] = "scan" /\ state[p] = "RUNNING" /\ ptlock = c
        /\ kstack' = [kstack EXCEPT ![z] = FALSE]
        /\ pid' = [pid EXCEPT ![z] = 0]
        /\ parent' = [parent EXCEPT ![z] = None]
        /\ killed' = [killed EXCEPT ![z] = FALSE]
        /\ state' = [state EXCEPT ![z] = "UNUSED"]
        /\ at' = [at EXCEPT ![p] = "user", ![z] = "none"]
        /\ ptlock' = None
        /\ cpu' = [cpu EXCEPT ![c] = k]
        /\ UNCHANGED <<chan, nextpid, intena, on, idx, back, newp>>
    BY DEF WaitReap, At, release, holding
  <1> HIDE DEF z, k
  <1>6. z # p /\ z # initproc /\ newp[z] = None /\ back[z] = "user"
    BY <1>2, <1>4, <1>5 DEF ProcInv, InitLives, ForkOwns, Labels, Alive
  <1>7. ASSUME NEW d \in CPUs PROVE on[d] # z
    <2>1. z # None
      BY <1>4 DEF Slots
    <2>2. on[d] # None /\ d # c => state[on[d]] = "RUNNING"
      BY <1>1, OthersRun
    <2> QED
      BY <1>4, <1>6, <2>1, <2>2
  <1>8. ProcTypeOK'
    BY <1>2, <1>4, <1>5 DEF ProcInv, ProcTypeOK, States
  <1>9. OnCpu' /\ InterruptsKept' /\ Stacks'
    BY <1>2, <1>4, <1>5, <1>7 DEF ProcInv, ProcTypeOK, OnCpu, InterruptsKept, holding, Stacks,
       Active, Alive
  <1>10. IntenaSaved' /\ Labels'
    BY <1>2, <1>4, <1>5, <1>6, <1>7 DEF ProcInv, ProcTypeOK, OnCpu, IntenaSaved, Labels, Active,
       Alive
  <1>11. ForkOwns'
    BY <1>2, <1>4, <1>5, <1>6 DEF ProcInv, ProcTypeOK, ForkOwns, Doing, Forking, Alive
  <1>12. Unparented'
    <2> SUFFICES ASSUME NEW s \in Slots, state'[s] \notin Active, parent'[s] # None
                 PROVE  \E q \in Slots : newp'[q] = s /\ Doing(q)' = "publish"
      BY DEF Unparented
    <2>1. state[s] \notin Active /\ parent[s] # None
      BY <1>4, <1>5 DEF ProcInv, ProcTypeOK
    <2>2. PICK q \in Slots : newp[q] = s /\ Doing(q) = "publish"
      BY <2>1 DEF ProcInv, Unparented
    <2>3. q # p /\ q # z
      BY <1>5, <1>6, <2>2 DEF Doing, Slots
    <2> QED
      BY <1>2, <1>5, <2>2, <2>3 DEF ProcInv, ProcTypeOK, Doing
  <1>13. InitLives' /\ ParentAlive' /\ NoMissedChild'
    BY <1>2, <1>4, <1>5, <1>6 DEF ProcInv, ProcTypeOK, InitLives, ParentAlive, NoMissedChild,
       Active, Alive
  <1> QED
    BY <1>8, <1>9, <1>10, <1>11, <1>12, <1>13 DEF ProcInv

(* wait() returns -1. *)
LEMMA WaitFailKeeps ==
  ASSUME ProcInv, NEW c \in CPUs, WaitFail(c)
  PROVE  ProcInv'
  <1> DEFINE p == on[c]
             k == popcli(cpu[c])
  <1>1. At(c, "scan") /\ holding(c)
    BY DEF WaitFail
  <1>2. /\ p \in Slots /\ k \in CpuRecord /\ k.ncli = 0 /\ k.FL /\ k.intena
    BY <1>1, WaitRelease
  <1>3. /\ at[p] = "scan" /\ state[p] = "RUNNING" /\ ptlock = c
        /\ ptlock' = None
        /\ cpu' = [cpu EXCEPT ![c] = k]
        /\ at' = [at EXCEPT ![p] = "user"]
        /\ UNCHANGED <<state, pid, parent, chan, killed, kstack, nextpid,
                       intena, on, idx, back, newp>>
    BY DEF WaitFail, At, release, holding, table
  <1> HIDE DEF k
  <1>4. ProcTypeOK'
    BY <1>2, <1>3 DEF ProcInv, ProcTypeOK
  <1>5. OnCpu' /\ InterruptsKept' /\ IntenaSaved'
    BY <1>2, <1>3 DEF ProcInv, ProcTypeOK, OnCpu, InterruptsKept, IntenaSaved, holding
  <1>6. ForkOwns' /\ Unparented' /\ Labels'
    BY <1>2, <1>3 DEF ProcInv, ProcTypeOK, ForkOwns, Unparented, Labels, Doing, Forking, Active,
       Alive
  <1>7. Stacks' /\ InitLives' /\ ParentAlive' /\ NoMissedChild'
    BY <1>3 DEF ProcInv, Stacks, InitLives, ParentAlive, NoMissedChild
  <1> QED
    BY <1>4, <1>5, <1>6, <1>7 DEF ProcInv

(* wait() sleeps on a child that has not exited, with the lock held. *)
LEMMA WaitSleepKeeps ==
  ASSUME ProcInv, NEW c \in CPUs, WaitSleep(c)
  PROVE  ProcInv'
  <1> DEFINE p == on[c]
  <1>1. At(c, "scan") /\ holding(c)
    BY DEF WaitSleep
  <1>2. p \in Slots /\ cpu[c].intena
    BY <1>1 DEF ProcInv, ProcTypeOK, IntenaSaved, At
  <1>3. /\ at[p] = "scan" /\ state[p] = "RUNNING"
        /\ state' = [state EXCEPT ![p] = "SLEEPING"]
        /\ chan' = [chan EXCEPT ![p] = p]
        /\ at' = [at EXCEPT ![p] = "sleeping"]
        /\ UNCHANGED <<pid, parent, killed, kstack, nextpid, ptlock, cpu, intena,
                       on, idx, back, newp>>
    BY DEF WaitSleep, At, locks
  <1>4. /\ \E s \in Slots : parent[s] = p
        /\ \A s \in Slots : parent[s] = p => state[s] # "ZOMBIE"
    BY DEF WaitSleep, Zombies, Children
  <1>5. ProcTypeOK'
    BY <1>2, <1>3 DEF ProcInv, ProcTypeOK, States, Active, Alive
  <1>6. OnCpu' /\ InterruptsKept' /\ Stacks'
    BY <1>1, <1>2, <1>3 DEF ProcInv, ProcTypeOK, OnCpu, InterruptsKept, holding, Stacks, Active,
       Alive
  <1>7. IntenaSaved'
    BY <1>2, <1>3 DEF ProcInv, ProcTypeOK, OnCpu, IntenaSaved
  <1>8. ForkOwns' /\ Unparented' /\ Labels'
    BY <1>2, <1>3 DEF ProcInv, ProcTypeOK, ForkOwns, Unparented, Labels, Doing, Forking, Active,
       Alive
  <1>9. InitLives' /\ ParentAlive'
    BY <1>2, <1>3 DEF ProcInv, ProcTypeOK, InitLives, ParentAlive, Active, Alive
  <1>10. NoMissedChild'
    BY <1>2, <1>3, <1>4 DEF ProcInv, ProcTypeOK, NoMissedChild
  <1> QED
    BY <1>5, <1>6, <1>7, <1>8, <1>9, <1>10 DEF ProcInv

(* exit() leaves its children to init and wakes whoever has to reap. *)
LEMMA ExitKeeps ==
  ASSUME ProcInv, NEW c \in CPUs, Exit(c)
  PROVE  ProcInv'
  <1> DEFINE p == on[c]
             wakes == {s \in Slots : state[s] = "SLEEPING" /\ chan[s] \in WokenByExit(p)}
  <1>1. ptlock = None /\ p # None /\ at[p] = "user" /\ p # initproc
    BY DEF Exit, acquire, At
  <1>2. /\ p \in Slots /\ state[p] = "RUNNING"
        /\ cpu[c] \in CpuRecord /\ cpu[c].ncli = 0
    BY <1>1, LockFree
  <1>3. /\ pushcli(cpu[c]) \in CpuRecord /\ pushcli(cpu[c]).ncli = 1
        /\ ~pushcli(cpu[c]).FL
    BY <1>2, PushPop
  <1>4. /\ ptlock' = c
        /\ cpu' = [cpu EXCEPT ![c] = pushcli(cpu[c])]
        /\ parent' = [s \in Slots |-> IF s \in Children(p) THEN initproc ELSE parent[s]]
        /\ state' = [s \in Slots |-> IF s = p THEN "ZOMBIE"
                                     ELSE IF s \in wakes THEN "RUNNABLE" ELSE state[s]]
        /\ at' = [at EXCEPT ![p] = "dying"]
        /\ UNCHANGED <<pid, chan, killed, kstack, nextpid, intena, on, idx, back, newp>>
    BY DEF Exit, acquire
  <1>5. ASSUME NEW s \in Slots
        PROVE  /\ s \in Children(p) <=> parent[s] = p
               /\ s \in wakes => state[s] = "SLEEPING" /\ at[s] = "sleeping"
               /\ state[s] = "SLEEPING" /\ s = parent[p] => s \in wakes
    BY DEF ProcInv, Labels, Children, WokenByExit
  <1>6. state[initproc] = "SLEEPING" /\ (\E s \in Slots : parent[s] = p /\ state[s] = "ZOMBIE")
          => initproc \in wakes
    BY DEF ProcInv, Labels, Children, WokenByExit, initproc, Slots
  <1>7. initproc \in Slots /\ parent[initproc] = None /\ state[initproc] \in Alive
    BY DEF ProcInv, InitLives, initproc, Slots
  <1>8. parent[p] \in Slots /\ parent[p] # p
    BY <1>1, <1>2 DEF ProcInv, ProcTypeOK, ParentAlive, Active, Alive
  <1> HIDE DEF wakes
  <1>9. ASSUME NEW s \in Slots, s # p
        PROVE  /\ state'[s] \in Alive <=> state[s] \in Alive
               /\ state'[s] \in Active <=> state[s] \in Active
               /\ state'[s] = "EMBRYO" <=> state[s] = "EMBRYO"
               /\ state'[s] = "RUNNING" <=> state[s] = "RUNNING"
               /\ state'[s] = "ZOMBIE" <=> state[s] = "ZOMBIE"
               /\ state'[s] = "SLEEPING" => state[s] = "SLEEPING" /\ s \notin wakes
    BY <1>4, <1>5, <1>9 DEF Alive, Active
  <1>10. ProcTypeOK'
    BY <1>2, <1>3, <1>4, <1>7 DEF ProcInv, ProcTypeOK, States, Active, Alive
  <1>11. state'[p] = "ZOMBIE"
    BY <1>2, <1>4
  <1>12. OnCpu' /\ InterruptsKept' /\ Stacks'
    <2>1. InterruptsKept'
      BY <1>1, <1>3, <1>4 DEF ProcInv, ProcTypeOK, InterruptsKept, holding
    <2>2. Stacks'
      BY <1>2, <1>4, <1>9 DEF ProcInv, Stacks, Active, Alive
    <2>3. OnCpu'
      BY <1>1, <1>2, <1>4, <1>9, <1>11 DEF ProcInv, ProcTypeOK, OnCpu, holding, Active, Alive
    <2> QED
      BY <2>1, <2>2, <2>3
  <1>13. IntenaSaved' /\ Labels'
    <2>1. Labels'
      BY <1>1, <1>2, <1>4, <1>9, <1>11 DEF ProcInv, ProcTypeOK, Labels, Active, Alive
    <2>2. ASSUME NEW d \in CPUs, on'[d] # None, on'[d] # p
          PROVE  state'[on'[d]] = "RUNNING" /\ at'[on'[d]] = at[on[d]] /\ d # c
      BY <1>1, <1>4, <1>9, <2>2, LockFree DEF ProcInv, ProcTypeOK
    <2>3. ASSUME NEW s \in Slots, at'[s] = "sleeping",
                 state'[s] = "RUNNING" \/ \A d \in CPUs : on'[d] # s
          PROVE  intena'[s]
      <3>1. s # p /\ at[s] = "sleeping"
        BY <1>2, <1>4, <2>3 DEF ProcInv, ProcTypeOK
      <3> QED
        BY <1>4, <1>9, <2>3, <3>1 DEF ProcInv, IntenaSaved
    <2>4. ASSUME NEW d \in CPUs, on'[d] # None,
                 \/ at'[on'[d]] = "scan"
                 \/ at'[on'[d]] = "sleeping" /\ state'[on'[d]] # "RUNNING"
          PROVE  cpu'[d].intena
      <3>1. on'[d] # p
        BY <1>2, <1>4, <2>4 DEF ProcInv, ProcTypeOK
      <3>2. at[on[d]] = "scan" /\ d # c /\ on[d] # None
        BY <1>4, <2>2, <2>4, <3>1
      <3> QED
        BY <1>4, <3>2 DEF ProcInv, ProcTypeOK, IntenaSaved
    <2>5. IntenaSaved'
      BY <2>3, <2>4 DEF IntenaSaved
    <2> QED
      BY <2>1, <2>5
  <1>14. ForkOwns'
    <2>1. newp[p] = None
      BY <1>1, <1>2 DEF ProcInv, ForkOwns, Doing, Forking
    <2>2. ASSUME NEW q \in Slots, q # p PROVE Doing(q)' = Doing(q)
      BY <1>4, <2>2 DEF ProcInv, ProcTypeOK, Doing
    <2>3. Doing(p)' = "dying"
      BY <1>2, <1>4 DEF ProcInv, ProcTypeOK, Doing
    <2>4. ASSUME NEW q \in Slots, newp[q] # None
          PROVE  q # p /\ newp[q] \in Slots /\ newp[q] # p /\ parent[newp[q]] # p
      <3>1. q # p /\ newp[q] \in Slots /\ state[newp[q]] = "EMBRYO"
        BY <2>1, <2>4 DEF ProcInv, ProcTypeOK, ForkOwns
      <3>2. newp[q] # p
        BY <1>2, <3>1
      <3>3. parent[newp[q]] # p
        <4> SUFFICES ASSUME parent[newp[q]] = p PROVE FALSE
          OBVIOUS
        <4>1. PICK r \in Slots : newp[r] = newp[q] /\ Doing(r) = "publish"
          BY <1>1, <3>1 DEF ProcInv, Unparented, Active, Alive
        <4>2. parent[newp[r]] = r
          BY <2>4, <4>1 DEF ProcInv, ForkOwns
        <4> QED
          BY <1>1, <4>1, <4>2 DEF Doing
      <3> QED
        BY <3>1, <3>2, <3>3
    <2>5. ASSUME NEW q \in Slots PROVE newp'[q] # None <=> Doing(q)' \in Forking
      BY <1>4, <2>1, <2>2, <2>3 DEF ProcInv, ForkOwns, Forking
    <2>6. ASSUME NEW q \in Slots, newp'[q] # None
          PROVE  /\ state'[q] \in Alive
                 /\ state'[newp'[q]] = "EMBRYO"
                 /\ \A r \in Slots : newp'[r] = newp'[q] => r = q
                 /\ Doing(q)' # "embryo" => kstack'[newp'[q]]
                 /\ Doing(q)' = "publish" => parent'[newp'[q]] = q
      <3>1. newp[q] # None
        BY <1>4, <2>6
      <3>2. q # p /\ newp[q] \in Slots /\ newp[q] # p /\ parent[newp[q]] # p
        BY <2>4, <3>1
      <3>3. state'[q] \in Alive /\ state'[newp[q]] = "EMBRYO"
        BY <1>9, <3>1, <3>2 DEF ProcInv, ForkOwns
      <3>4. parent'[newp[q]] = parent[newp[q]] /\ Doing(q)' = Doing(q)
        BY <1>4, <1>5, <2>2, <3>2
      <3> QED
        BY <1>4, <3>1, <3>3, <3>4 DEF ProcInv, ForkOwns
    <2> QED
      BY <2>5, <2>6 DEF ForkOwns
  <1>15. Unparented'
    <2> SUFFICES ASSUME NEW s \in Slots, state'[s] \notin Active, parent'[s] # None
                 PROVE  \E q \in Slots : newp'[q] = s /\ Doing(q)' = "publish"
      BY DEF Unparented
    <2>1. s # p
      BY <1>11 DEF Active
    <2>2. state[s] \notin Active /\ parent[s] # None
      BY <1>1, <1>4, <1>5, <1>9, <2>1
    <2>3. PICK q \in Slots : newp[q] = s /\ Doing(q) = "publish"
      BY <2>2 DEF ProcInv, Unparented
    <2>4. q # p
      BY <1>1, <2>3 DEF Doing
    <2> QED
      BY <1>2, <1>4, <2>3, <2>4 DEF ProcInv, ProcTypeOK, Doing
  <1>16. InitLives' /\ ParentAlive'
    <2>1. InitLives'
      BY <1>1, <1>4, <1>5, <1>7, <1>9 DEF InitLives
    <2>2. ASSUME NEW s \in Slots \ {initproc}, state'[s] \in Active
          PROVE  parent'[s] \notin {None, s} /\ state'[parent'[s]] \in Alive
      <3>1. state[s] \in Active
        BY <1>2, <1>9, <2>2 DEF Active, Alive
      <3>2. parent[s] \in Slots /\ parent[s] # s /\ state[parent[s]] \in Alive
        BY <3>1 DEF ProcInv, ProcTypeOK, ParentAlive
      <3>3. CASE parent[s] = p
        <4>1. parent'[s] = initproc
          BY <1>4, <1>5, <3>3
        <4> QED
          BY <1>1, <1>7, <1>9, <2>1, <4>1 DEF InitLives, Slots
      <3>4. CASE parent[s] # p
        <4>1. parent'[s] = parent[s]
          BY <1>4, <1>5, <3>4
        <4> QED
          BY <1>9, <3>2, <3>4, <4>1 DEF Slots
      <3> QED
        BY <3>3, <3>4
    <2> QED
      BY <2>1, <2>2 DEF ParentAlive
  <1>17. NoMissedChild'
    <2> SUFFICES ASSUME NEW q \in Slots, state'[q] = "SLEEPING"
                 PROVE  /\ \E s \in Slots : parent'[s] = q
                        /\ \A s \in Slots : parent'[s] = q => state'[s] # "ZOMBIE"
      BY DEF NoMissedChild
    <2>1. q # p /\ state[q] = "SLEEPING" /\ q \notin wakes
      BY <1>9, <1>11
    <2>2. /\ \E s \in Slots : parent[s] = q
          /\ \A s \in Slots : parent[s] = q => state[s] # "ZOMBIE"
      BY <2>1 DEF ProcInv, NoMissedChild
    <2>3. \E s \in Slots : parent'[s] = q
      BY <1>4, <1>5, <2>1, <2>2
    <2>4. ASSUME NEW s \in Slots, parent'[s] = q PROVE state'[s] # "ZOMBIE"
      <3>1. CASE s = p
        BY <1>4, <1>5, <1>8, <2>1, <2>4, <3>1
      <3>2. CASE s # p /\ parent[s] = p
        <4>1. q = initproc
          BY <1>4, <1>5, <2>4, <3>2
        <4> QED
          BY <1>6, <1>9, <2>1, <3>2, <4>1
      <3>3. CASE s # p /\ parent[s] # p
        BY <1>4, <1>5, <1>9, <2>2, <2>4, <3>3
      <3> QED
        BY <3>1, <3>2, <3>3
    <2> QED
      BY <2>3, <2>4
  <1> QED
    BY <1>10, <1>12, <1>13, <1>14, <1>15, <1>16, <1>17 DEF ProcInv

(* kill() may wake a sleeper, which is on no CPU. *)
LEMMA KillKeeps ==
  ASSUME ProcInv, NEW c \in CPUs, Kill(c)
  PROVE  ProcInv'
  <1> DEFINE p == on[c]
             k == popcli(pushcli(cpu[c]))
  <1>1. p # None /\ Section(c)
    BY DEF Kill, At
  <1>2. /\ ptlock = None /\ ptlock' = None /\ intena' = intena
        /\ p \in Slots /\ state[p] = "RUNNING"
        /\ cpu' = [cpu EXCEPT ![c] = k]
        /\ k \in CpuRecord /\ k.ncli = 0 /\ k.FL /\ k.intena
    BY <1>1, SectionStep
  <1>3. PICK n \in KillPids :
          LET found == {s \in Slots : pid[s] = n}
              v == Min(found)
          IN  /\ found # {}
              /\ killed' = [killed EXCEPT ![v] = TRUE]
              /\ state' = IF state[v] = "SLEEPING"
                          THEN [state EXCEPT ![v] = "RUNNABLE"] ELSE state
    BY DEF Kill
  <1> DEFINE v == Min({s \in Slots : pid[s] = n})
  <1>4. v \in Slots
    BY <1>3, MinIn
  <1>5. /\ killed' = [killed EXCEPT ![v] = TRUE]
        /\ state' = IF state[v] = "SLEEPING" THEN [state EXCEPT ![v] = "RUNNABLE"] ELSE state
        /\ UNCHANGED <<pid, parent, chan, kstack, nextpid, on, idx, at, back, newp>>
    BY <1>3 DEF Kill
  <1> HIDE DEF v, k
  <1>6. ProcTypeOK'
    BY <1>2, <1>4, <1>5 DEF ProcInv, ProcTypeOK, States, Active, Alive
  <1>7. OnCpu' /\ InterruptsKept' /\ Stacks'
    BY <1>2, <1>4, <1>5 DEF ProcInv, ProcTypeOK, OnCpu, InterruptsKept, holding, Stacks, Active,
       Alive
  <1>8. IntenaSaved' /\ Labels'
    BY <1>2, <1>4, <1>5 DEF ProcInv, ProcTypeOK, OnCpu, holding, IntenaSaved, Labels, Active, Alive
  <1>9. ForkOwns' /\ Unparented'
    BY <1>4, <1>5 DEF ProcInv, ProcTypeOK, ForkOwns, Unparented, Doing, Forking, Active, Alive
  <1>10. InitLives' /\ ParentAlive' /\ NoMissedChild'
    BY <1>4, <1>5 DEF ProcInv, ProcTypeOK, InitLives, ParentAlive, NoMissedChild, Active, Alive
  <1> QED
    BY <1>6, <1>7, <1>8, <1>9, <1>10 DEF ProcInv

LEMMA ProcStutterKeeps ==
  ASSUME ProcInv, UNCHANGED procVars
  PROVE  ProcInv'
  BY DEF procVars, table, locks, ProcInv, ProcTypeOK, OnCpu, Stacks, ForkOwns, Unparented, Labels,
         InterruptsKept, IntenaSaved, InitLives, ParentAlive, NoMissedChild, Doing, holding

(* The process table stays sound, for any number of slots and CPUs: every  *)
(* step of fork, exit, wait, kill, yield and the scheduler preserves ProcInv. *)
THEOREM ProcInvariance == ProcSpec => []ProcInv
  <1>1. ProcInv /\ [ProcNext]_procVars => ProcInv'
    <2> SUFFICES ASSUME ProcInv, [ProcNext]_procVars PROVE ProcInv'
      OBVIOUS
    <2>1. ASSUME NEW c \in CPUs, Kernel(c) PROVE ProcInv'
      BY <2>1, SchedAcquireKeeps, SchedPickKeeps, SchedEndKeeps, ResumeKeeps, SwtchKeeps,
         AllocStackKeeps, ForkFailKeeps, ForkCopyKeeps, ForkPublishKeeps, WaitReapKeeps,
         WaitFailKeeps, WaitSleepKeeps DEF Kernel
    <2>2. ASSUME NEW c \in CPUs, User(c) PROVE ProcInv'
      BY <2>2, YieldKeeps, ForkAllocKeeps, ExitKeeps, WaitCallKeeps, KillKeeps DEF User
    <2> QED
      BY <2>1, <2>2, ProcStutterKeeps DEF ProcNext
  <1> QED
    BY <1>1, InitProcInv, PTL DEF ProcSpec

(* A kernel stack is in use on one CPU at most, and only while its slot    *)
(* owns it: the lock held across swtch() protects it from wait().          *)
THEOREM StacksAreSafe == ProcSpec => []StackSafe
  <1>1. ProcInv => StackSafe
    BY DEF ProcInv, ProcTypeOK, OnCpu, Stacks, StackSafe
  <1> QED
    BY <1>1, ProcInvariance, PTL

(* The interrupt flag belongs to the thread, although pushcli and popcli   *)
(* count on the CPU.                                                       *)
THEOREM InterruptsAreKept == ProcSpec => []InterruptsKept
  <1>1. ProcInv => InterruptsKept
    BY DEF ProcInv
  <1> QED
    BY <1>1, ProcInvariance, PTL

-----------------------------------------------------------------------------
(***************************************************************************)
(* The log for any number of processes, blocks, calls and crashes and any  *)
(* size: IInv is inductive; as long as what is logged fits in the log,     *)
(* Contents is too, and groups of calls commit atomically; and it fits in  *)
(* a log of LOGSIZE data blocks.                                           *)
(***************************************************************************)

USE SizesAssumption

LEMMA ContainsAppend ==
  ASSUME NEW s \in Seq(Blocks), NEW b \in Blocks, NEW c \in Blocks
  PROVE  Contains(Append(s, b), c) <=> Contains(s, c) \/ c = b
  <1>1. Len(Append(s, b)) = Len(s) + 1 /\ Append(s, b)[Len(s) + 1] = b
    OBVIOUS
  <1>2. ASSUME NEW k \in 1..Len(s) PROVE Append(s, b)[k] = s[k]
    OBVIOUS
  <1> QED
    BY <1>1, <1>2 DEF Contains

LEMMA DistinctAppend ==
  ASSUME NEW s \in Seq(Blocks), NEW b \in Blocks, Distinct(s), ~Contains(s, b)
  PROVE  Distinct(Append(s, b))
  BY DEF Distinct, Contains

(* The calls in progress are finitely many, and so is what they reserve. *)
LEMMA Counts ==
  ASSUME TypeOK
  PROVE  /\ IsFiniteSet(Inside) /\ Cardinality(Inside) \in 0..Cardinality(Procs)
         /\ IsFiniteSet(Reserved) /\ Cardinality(Reserved) \in Nat
  <1>1. IsFiniteSet(Inside) /\ Cardinality(Inside) <= Cardinality(Procs)
    BY SetsAssumption, FS_Subset DEF Inside
  <1>2. IsFiniteSet(Inside \X (1..MAXOPBLOCKS))
    <2>1. IsFiniteSet(1..MAXOPBLOCKS)
      BY FS_Interval
    <2> QED
      BY <1>1, <2>1, FS_Product
  <1>3. IsFiniteSet(Reserved)
    BY <1>2, FS_Subset DEF Reserved
  <1> QED
    BY <1>1, <1>3, SetsAssumption, FS_CardinalityType

(* A step of a process that stays outside: the calls in progress and what  *)
(* they reserve are the same.                                              *)
LEMMA SameInside ==
  ASSUME TypeOK, UNCHANGED wrote,
         \A q \in Procs : pc'[q] \in {"in", "checked"} <=> pc[q] \in {"in", "checked"}
  PROVE  Inside' = Inside /\ Reserved' = Reserved
  <1>1. Inside' = Inside
    BY DEF Inside
  <1> QED
    BY <1>1 DEF Reserved

(* While a call is in progress nobody commits. *)
LEMMA NobodyCommits ==
  ASSUME IInv, NEW p \in Procs, pc[p] \in {"in", "checked"}
  PROVE  /\ ~committing /\ outstanding \in Nat /\ outstanding > 0
         /\ \A q \in Procs : ~Committing(q)
  <1>1. p \in Inside /\ IsFiniteSet(Inside)
    BY Counts DEF Inside, IInv
  <1>2. Cardinality(Inside) # 0 /\ Cardinality(Inside) \in Nat
    BY <1>1, FS_EmptySet, FS_CardinalityType
  <1> QED
    BY <1>2 DEF IInv, CommitAlone

(* During a commit no call is in progress. *)
LEMMA NobodyInside ==
  ASSUME IInv, committing
  PROVE  Inside = {} /\ outstanding = 0 /\ \A q \in Procs : pc[q] \notin {"in", "checked"}
  <1>1. IsFiniteSet(Inside) /\ Cardinality(Inside) = 0 /\ outstanding = 0
    BY Counts DEF IInv, CommitAlone
  <1>2. Inside = {}
    BY <1>1, FS_EmptySet
  <1> QED
    BY <1>1, <1>2 DEF Inside

(* What is reserved fits in LOGSIZE blocks, and so does what is logged. *)
LEMMA RoomKept ==
  ASSUME TypeOK', LogFits', nlog > LOGSIZE => mode' # "panicked"
  PROVE  Roomy'
  <1>1. IsFiniteSet(Inside')
    BY SetsAssumption, FS_Subset DEF Inside
  <1>2. IsFiniteSet(Reserved')
    <2>1. IsFiniteSet(1..MAXOPBLOCKS)
      BY FS_Interval
    <2>2. IsFiniteSet(Inside' \X (1..MAXOPBLOCKS))
      BY <1>1, <2>1, FS_Product
    <2> QED
      BY <2>2, FS_Subset DEF Reserved
  <1>3. Cardinality(Reserved') \in Nat
    BY <1>2, FS_CardinalityType
  <1>4. Len(lh') \in Nat /\ Len(header') \in Nat /\ Len(header') <= LOGSIZE
    BY DEF TypeOK
  <1>5. Len(lh') <= LOGSIZE
    BY <1>3, <1>4 DEF LogFits
  <1> QED
    BY <1>4, <1>5 DEF Roomy, Fits, AdmittedNeverPanics

LEMMA InitIInv == Init => IInv /\ Contents
  <1> SUFFICES ASSUME Init PROVE IInv /\ Contents
    OBVIOUS
  <1> USE DEF Init, Clean
  <1>1. Inside = {} /\ Reserved = {}
    BY DEF Inside, Reserved
  <1>2. Cardinality(Inside) = 0 /\ Cardinality(Reserved) = 0
    BY <1>1, FS_EmptySet
  <1>3. Cardinality(Procs) \in Nat
    BY SetsAssumption, FS_CardinalityType
  <1>4. TypeOK
    <2>1. home \in [Blocks -> Values] /\ cache \in [Blocks -> Values]
      BY DEF Values
    <2>2. logDisk \in [1..(nlog - 1) -> Values] /\ op \in [Procs -> Values]
      BY DEF Values
    <2>3. header \in Seq(Blocks) /\ lh \in Seq(Blocks) /\ Len(header) = 0
      OBVIOUS
    <2>4. outstanding \in 0..Cardinality(Procs) /\ tail \in 1..(LOGSIZE + 1)
      BY <1>3
    <2>5. ops \in Values /\ crashes \in 0..MaxCrashes
      BY DEF Values
    <2>6. /\ pc \in [Procs -> {"idle", "begin", "asleep", "in", "checked", "log",
                               "install", "committed"}]
          /\ wrote \in [Procs -> SUBSET Blocks]
          /\ mode \in {"up", "panicked", "boot", "recover"}
          /\ dirty \subseteq Blocks /\ committing \in BOOLEAN
      OBVIOUS
    <2> QED
      BY <2>1, <2>2, <2>3, <2>4, <2>5, <2>6 DEF TypeOK
  <1>5. CommitAlone /\ NoLostSleeper
    BY <1>2 DEF CommitAlone, NoLostSleeper, Committing
  <1>6. LogFits
    BY <1>1, <1>2 DEF LogFits, Distinct
  <1>7. Phases /\ Contents /\ Roomy
    BY DEF Phases, Contents, Booting, Roomy, Fits, AdmittedNeverPanics
  <1> QED
    BY <1>4, <1>5, <1>6, <1>7 DEF IInv

LEMMA StutterKeeps ==
  ASSUME IInv, UNCHANGED vars
  PROVE  IInv' /\ (Contents => Contents')
  <1> USE DEF vars, disk, logState
  <1>1. Inside' = Inside /\ Reserved' = Reserved
    BY SameInside DEF IInv
  <1> QED
    BY <1>1 DEF IInv, TypeOK, CommitAlone, Committing, NoLostSleeper, LogFits, Phases, Contents,
                Booting, Roomy, Fits, AdmittedNeverPanics

(* A system call is made. *)
LEMMA CallKeeps ==
  ASSUME IInv, NEW p \in Procs, Call(p)
  PROVE  IInv' /\ (Contents => Contents')
  <1> USE DEF Call, disk, logState, Goto
  <1>1. /\ pc[p] = "idle" /\ pc' = [pc EXCEPT ![p] = "begin"] /\ mode = "up"
        /\ pc \in [Procs -> {"idle", "begin", "asleep", "in", "checked", "log", "install", "committed"}]
        /\ wrote' = [wrote EXCEPT ![p] = {}] /\ wrote \in [Procs -> SUBSET Blocks]
    BY DEF IInv, TypeOK
  <1>2. TypeOK'
    BY DEF IInv, TypeOK, Values
  <1>3. Inside' = Inside /\ p \notin Inside
    BY <1>1 DEF Inside
  <1>4. Reserved' = Reserved
    BY <1>1, <1>3 DEF Reserved, Inside
  <1>5. CommitAlone' /\ NoLostSleeper'
    BY <1>1, <1>3 DEF IInv, CommitAlone, NoLostSleeper, Committing
  <1>6. LogFits'
    BY <1>1, <1>3, <1>4 DEF IInv, LogFits, Inside
  <1>7. Phases'
    BY <1>1, <1>3 DEF IInv, Phases, Booting
  <1>7r. Roomy'
    BY <1>1, <1>2, <1>6, RoomKept
  <1>7c. Contents => Contents'
    BY <1>1, <1>3 DEF IInv, TypeOK, Contents, Booting
  <1> QED
    BY <1>2, <1>5, <1>6, <1>7, <1>7r, <1>7c DEF IInv

(* begin_op lets a call in: what all the calls inside may still log fits,  *)
(* since it is at most MAXOPBLOCKS blocks for each.                        *)
LEMMA BeginOpKeeps ==
  ASSUME IInv, NEW p \in Procs, BeginOp(p)
  PROVE  IInv' /\ (Contents => Contents')
  <1>1. /\ pc[p] = "begin" /\ pc' = [pc EXCEPT ![p] = "in"] /\ mode = "up" /\ ~committing
        /\ pc \in [Procs -> {"idle", "begin", "asleep", "in", "checked", "log", "install", "committed"}]
        /\ outstanding' = outstanding + 1
        /\ UNCHANGED <<home, logDisk, header, cache, dirty, lh, committing, tail, wrote, op, mode, ops, crashes>>
        /\ Len(lh) + (outstanding + 1) * MAXOPBLOCKS <= LOGSIZE
    BY DEF IInv, TypeOK, BeginOp, Goto, MayBegin, disk
  <1>2. Inside' = Inside \cup {p} /\ p \notin Inside
    BY <1>1 DEF Inside
  <1>3. /\ IsFiniteSet(Inside') /\ Cardinality(Inside') = outstanding + 1
        /\ outstanding \in Nat /\ outstanding' \in 0..Cardinality(Procs)
    <2>1. IsFiniteSet(Inside) /\ Cardinality(Inside) = outstanding /\ outstanding \in Nat
      BY Counts DEF IInv, CommitAlone
    <2>2. IsFiniteSet(Inside') /\ Cardinality(Inside') = outstanding + 1
      BY <1>2, <2>1, FS_AddElement
    <2>3. Cardinality(Inside') <= Cardinality(Procs) /\ Cardinality(Procs) \in Nat
      <3>1. Inside' \in SUBSET Procs
        BY DEF Inside
      <3> QED
        BY <3>1, SetsAssumption, FS_Subset, FS_CardinalityType
    <2> QED
      BY <1>1, <2>1, <2>2, <2>3
  <1>4. TypeOK'
    BY <1>1, <1>3 DEF IInv, TypeOK
  <1>5. Cardinality(Reserved') \in Nat /\ Cardinality(Reserved') <= (outstanding + 1) * MAXOPBLOCKS
    <2>1. IsFiniteSet(1..MAXOPBLOCKS) /\ Cardinality(1..MAXOPBLOCKS) = MAXOPBLOCKS
      BY FS_Interval
    <2>2. /\ IsFiniteSet(Inside' \X (1..MAXOPBLOCKS))
          /\ Cardinality(Inside' \X (1..MAXOPBLOCKS)) = (outstanding + 1) * MAXOPBLOCKS
      BY ZenonT(60), <1>3, <2>1, FS_Product
    <2>3. Reserved' \in SUBSET (Inside' \X (1..MAXOPBLOCKS))
      BY DEF Reserved
    <2> QED
      BY <2>2, <2>3, FS_Subset, FS_CardinalityType
  <1>6. Len(lh) \in Nat
    BY DEF IInv, TypeOK
  <1>7. CommitAlone' /\ NoLostSleeper'
    BY SMTT(30), <1>1, <1>3 DEF IInv, CommitAlone, NoLostSleeper, Committing
  <1>8. LogFits'
    <2>1. wrote[p] = {} /\ Cardinality({}) = 0
      BY <1>1, FS_EmptySet DEF IInv, LogFits
    <2>2. Len(lh) + Cardinality(Reserved') <= LOGSIZE
      <3>1. (outstanding + 1) * MAXOPBLOCKS \in Int
        BY <1>3
      <3> HIDE DEF Reserved
      <3> QED
        BY <1>1, <1>5, <1>6, <3>1
    <2>3. ASSUME NEW q \in Inside'
          PROVE  /\ \A b \in wrote'[q] : Contains(lh', b)
                 /\ Cardinality(wrote'[q]) <= MAXOPBLOCKS
                 /\ pc'[q] = "checked" => Cardinality(wrote'[q]) < MAXOPBLOCKS
      <3>1. CASE q = p
        <4>1. wrote'[q] = {} /\ pc'[q] = "in"
          BY <1>1, <2>1, <3>1
        <4> QED
          BY <2>1, <4>1
      <3>2. CASE q # p
        BY <1>1, <1>2, <3>2 DEF IInv, LogFits, Inside
      <3> QED
        BY <3>1, <3>2
    <2>4. \A q \in Procs : pc'[q] \in {"begin", "asleep"} => wrote'[q] = {}
      BY <1>1 DEF IInv, LogFits
    <2> QED
      BY <1>1, <2>2, <2>3, <2>4 DEF IInv, LogFits
  <1>9. Phases'
    BY <1>1, <1>2 DEF IInv, Phases, Booting
  <1>9r. Roomy'
    BY <1>1, <1>4, <1>8, RoomKept
  <1>9c. Contents => Contents'
    BY <1>1, <1>2 DEF IInv, TypeOK, Contents, Booting
  <1> QED
    BY <1>4, <1>7, <1>8, <1>9, <1>9r, <1>9c DEF IInv

(* begin_op has to wait. *)
LEMMA BeginSleepKeeps ==
  ASSUME IInv, NEW p \in Procs, BeginSleep(p)
  PROVE  IInv' /\ (Contents => Contents')
  <1>1. /\ pc[p] = "begin" /\ pc' = [pc EXCEPT ![p] = "asleep"] /\ mode = "up"
        /\ UNCHANGED <<home, logDisk, header, cache, dirty, lh, outstanding, committing,
                       tail, wrote, op, mode, ops, crashes>>
        /\ pc \in [Procs -> {"idle", "begin", "asleep", "in", "checked", "log", "install", "committed"}]
    BY DEF IInv, TypeOK, BeginSleep, Goto, disk, logState
  <1>2. Inside' = Inside /\ Reserved' = Reserved
    BY <1>1, SameInside DEF IInv
  <1>3. TypeOK'
    BY <1>1 DEF IInv, TypeOK
  <1>4. CommitAlone'
    BY <1>1, <1>2 DEF IInv, CommitAlone, Committing
  <1>5. NoLostSleeper'
    <2>1. SUFFICES ASSUME ~committing, outstanding = 0 PROVE MayBegin
      BY <1>1 DEF NoLostSleeper, BeginSleep, IInv, TypeOK
    <2>2. Inside = {}
      BY <2>1, Counts, FS_EmptySet DEF IInv, CommitAlone
    <2>3. \A q \in Procs : pc[q] \notin {"log", "install"}
      BY <2>1 DEF IInv, CommitAlone, Committing
    <2>4. lh = <<>>
      BY <1>1, <2>2, <2>3 DEF IInv, Phases, Booting
    <2> QED
      BY <2>1, <2>4 DEF MayBegin
  <1>6. LogFits'
    BY <1>1, <1>2 DEF IInv, LogFits
  <1>7. Phases'
    BY <1>1, <1>2 DEF IInv, Phases, Booting
  <1>7r. Roomy'
    BY <1>1, <1>3, <1>6, RoomKept
  <1>7c. Contents => Contents'
    BY <1>1, <1>2 DEF IInv, TypeOK, Contents, Booting
  <1> QED
    BY <1>3, <1>4, <1>5, <1>6, <1>7, <1>7r, <1>7c DEF IInv

(* log_write has room, or panics. *)
LEMMA WriteCheckKeeps ==
  ASSUME IInv, NEW p \in Procs, WriteCheck(p)
  PROVE  IInv' /\ (Contents => Contents')
  <1>1. /\ pc[p] = "in" /\ mode = "up" /\ Cardinality(wrote[p]) < MAXOPBLOCKS
        /\ mode' \in {"up", "panicked"}
        /\ pc' = pc \/ pc' = [pc EXCEPT ![p] = "checked"]
        /\ UNCHANGED <<home, logDisk, header, cache, dirty, lh, outstanding, committing,
                       tail, wrote, op, ops, crashes>>
        /\ pc \in [Procs -> {"idle", "begin", "asleep", "in", "checked", "log", "install", "committed"}]
    BY DEF IInv, TypeOK, WriteCheck, Goto, disk, logState
  <1>2. Inside' = Inside /\ Reserved' = Reserved
    BY <1>1, SameInside DEF IInv
  <1>3. TypeOK'
    BY <1>1 DEF IInv, TypeOK
  <1>4. CommitAlone' /\ NoLostSleeper'
    BY <1>1, <1>2 DEF IInv, CommitAlone, Committing, NoLostSleeper
  <1>5. LogFits'
    <2>1. ASSUME NEW q \in Inside'
          PROVE  /\ \A b \in wrote'[q] : Contains(lh', b)
                 /\ Cardinality(wrote'[q]) <= MAXOPBLOCKS
                 /\ pc'[q] = "checked" => Cardinality(wrote'[q]) < MAXOPBLOCKS
      BY <1>1, <1>2 DEF IInv, LogFits, Inside
    <2>2. \A q \in Procs : pc'[q] \in {"begin", "asleep"} => wrote'[q] = {}
      BY <1>1 DEF IInv, LogFits
    <2> QED
      BY <1>1, <1>2, <2>1, <2>2 DEF IInv, LogFits
  <1>5p. nlog > LOGSIZE => mode' # "panicked"
    <2>1. p \in Inside /\ Cardinality(wrote[p]) < MAXOPBLOCKS
      BY <1>1 DEF Inside
    <2>2. <<p, MAXOPBLOCKS>> \in Reserved
      BY <2>1 DEF Reserved
    <2>3. Cardinality(Reserved) # 0 /\ Cardinality(Reserved) \in Nat
      BY <2>2, Counts, FS_EmptySet DEF IInv
    <2>4. Len(lh) \in Nat /\ Len(lh) + Cardinality(Reserved) <= LOGSIZE
      BY DEF IInv, TypeOK, LogFits
    <2>5. nlog > LOGSIZE => ~TooBig
      BY <2>3, <2>4 DEF TooBig
    <2> QED
      BY <1>1, <2>5 DEF WriteCheck
  <1>6. Phases'
    BY <1>1, <1>2 DEF IInv, Phases, Booting
  <1>6r. Roomy'
    BY <1>5p, <1>3, <1>5, RoomKept
  <1>6c. Contents => Contents'
    BY <1>1, <1>2 DEF IInv, TypeOK, Contents, Booting
  <1> QED
    BY <1>3, <1>4, <1>5, <1>6, <1>6r, <1>6c DEF IInv

(* log_write absorbs a block that is in the log already; a new one uses up *)
(* one of the blocks its call has reserved.                                *)
LEMMA WriteKeeps ==
  ASSUME IInv, NEW p \in Procs, NEW b \in Blocks, Write(p, b)
  PROVE  IInv' /\ (Contents => Contents')
  <1>1. /\ pc[p] = "checked" /\ mode = "up" /\ mode' = "up"
        /\ pc' = [pc EXCEPT ![p] = "in"]
        /\ cache' = [cache EXCEPT ![b] = op[p]]
        /\ lh' = IF Contains(lh, b) THEN lh ELSE Append(lh, b)
        /\ dirty' = dirty \cup {b}
        /\ wrote' = [wrote EXCEPT ![p] = wrote[p] \cup {b}]
        /\ UNCHANGED <<home, logDisk, header, outstanding, committing, tail, op, ops, crashes>>
    BY DEF Write, Goto, disk
  <1>2. /\ pc \in [Procs -> {"idle", "begin", "asleep", "in", "checked", "log", "install", "committed"}]
        /\ cache \in [Blocks -> Values] /\ op[p] \in Values
        /\ wrote \in [Procs -> SUBSET Blocks] /\ lh \in Seq(Blocks) /\ Len(lh) \in Nat
    BY DEF IInv, TypeOK
  <1>3. TypeOK'
    BY <1>1, <1>2 DEF IInv, TypeOK
  <1>4. Inside' = Inside /\ p \in Inside
    BY <1>1, <1>2 DEF Inside
  <1>5. CommitAlone' /\ NoLostSleeper'
    BY <1>1, <1>2, <1>4 DEF IInv, CommitAlone, Committing, NoLostSleeper
  <1>6. ASSUME NEW c \in Blocks PROVE Contains(lh', c) <=> Contains(lh, c) \/ c = b
    BY <1>1, <1>2, ContainsAppend
  <1>7. Distinct(lh')
    BY <1>1, <1>2, DistinctAppend DEF IInv, LogFits
  <1> DEFINE n == Cardinality(wrote[p])
  <1>8. n \in Nat /\ n < MAXOPBLOCKS /\ IsFiniteSet(wrote[p])
    BY <1>1, <1>2, <1>4, SetsAssumption, FS_Subset, FS_CardinalityType DEF IInv, LogFits
  <1>9. /\ Len(lh') + Cardinality(Reserved') <= LOGSIZE
        /\ Cardinality(wrote'[p]) <= MAXOPBLOCKS
    <2>0. Len(lh) + Cardinality(Reserved) <= LOGSIZE /\ Cardinality(Reserved) \in Nat
      BY Counts DEF IInv, LogFits
    <2>1. CASE b \in wrote[p]
      <3>1. Contains(lh, b) /\ wrote' = wrote
        BY <1>1, <1>2, <1>4, <2>1 DEF IInv, LogFits
      <3>2. Reserved' = Reserved
        BY <1>4, <3>1 DEF Reserved
      <3>3. Cardinality(wrote'[p]) <= MAXOPBLOCKS
        BY <1>8, <3>1
      <3>4. lh' = lh
        BY <1>1, <3>1
      <3> QED
        BY <2>0, <3>2, <3>3, <3>4
    <2>2. CASE b \notin wrote[p]
      <3>1. Cardinality(wrote'[p]) = n + 1
        BY <1>1, <1>2, <1>8, <2>2, FS_AddElement
      <3>2. Reserved' = Reserved \ {<<p, n + 1>>}
        <4>1. ASSUME NEW q \in Inside, NEW k \in 1..MAXOPBLOCKS
              PROVE  k > Cardinality(wrote'[q]) <=> k > Cardinality(wrote[q]) /\ <<q, k>> # <<p, n + 1>>
          <5>1. CASE q = p
            BY <1>8, <3>1, <5>1
          <5>2. CASE q # p
            BY <1>1, <1>2, <5>2 DEF Inside
          <5> QED
            BY <5>1, <5>2
        <4> HIDE DEF n
        <4> QED
          BY <1>4, <4>1 DEF Reserved
      <3>3. <<p, n + 1>> \in Reserved
        BY <1>4, <1>8 DEF Reserved
      <3>4. Cardinality(Reserved') = Cardinality(Reserved) - 1
        <4> HIDE DEF n
        <4> DEFINE x == <<p, n + 1>>
        <4>1. IsFiniteSet(Reserved) /\ x \in Reserved /\ Reserved' = Reserved \ {x}
          BY <3>2, <3>3, Counts DEF IInv
        <4> HIDE DEF x
        <4> QED
          BY <4>1, FS_RemoveElement
      <3>5. Len(lh') \in Nat /\ Len(lh') <= Len(lh) + 1
        BY <1>1, <1>2
      <3> QED
        BY <1>2, <1>8, <2>0, <3>1, <3>4, <3>5
    <2> QED
      BY <2>1, <2>2
  <1>10. LogFits'
    <2>1. ASSUME NEW q \in Inside'
          PROVE  /\ \A c \in wrote'[q] : Contains(lh', c)
                 /\ Cardinality(wrote'[q]) <= MAXOPBLOCKS
                 /\ pc'[q] = "checked" => Cardinality(wrote'[q]) < MAXOPBLOCKS
      <3>1. CASE q = p
        BY <1>1, <1>2, <1>4, <1>6, <1>9, <3>1 DEF IInv, LogFits
      <3>2. CASE q # p
        <4>1. q \in Procs /\ q \in Inside /\ wrote'[q] = wrote[q] /\ pc'[q] = pc[q]
          BY <1>1, <1>2, <1>4, <3>2 DEF Inside
        <4> QED
          BY <1>2, <1>6, <4>1 DEF IInv, LogFits
      <3> QED
        BY <3>1, <3>2
    <2>2. ASSUME NEW q \in Procs, pc'[q] \in {"begin", "asleep"} PROVE wrote'[q] = {}
      BY <1>1, <1>2, <2>2 DEF IInv, LogFits
    <2> QED
      BY <1>1, <1>7, <1>9, <2>1, <2>2 DEF IInv, LogFits
  <1>11. Phases'
    <2>1. \A q \in Procs : ~Committing(q)
      BY <1>1, NobodyCommits
    <2>2. \A q \in Procs : pc'[q] \notin {"log", "install"} /\ pc[q] \notin {"log", "install"}
      BY <1>1, <1>2, <2>1 DEF Committing
    <2>3. header' = <<>>
      BY <1>1, <2>2 DEF IInv, Phases, Booting
    <2>4. Inside' # {}
      BY <1>4
    <2> QED
      BY <1>1, <2>2, <2>3, <2>4 DEF Phases, Booting
  <1>12. ASSUME Contents PROVE Contents'
    <2>1. \A q \in Procs : ~Committing(q)
      BY <1>1, NobodyCommits
    <2>2. \A q \in Procs : pc'[q] \notin {"log", "install"}
      BY <1>1, <1>2, <2>1 DEF Committing
    <2>3. ASSUME NEW c \in Blocks, ~Contains(lh', c) PROVE cache'[c] = home'[c]
      BY <1>1, <1>2, <1>6, <1>12, <2>3 DEF Contents, Booting
    <2> QED
      BY <1>1, <2>2, <2>3 DEF Contents, Booting
  <1>13. Roomy'
    BY <1>1, <1>3, <1>10, RoomKept
  <1> QED
    BY <1>3, <1>5, <1>10, <1>11, <1>12, <1>13 DEF IInv

(* The last end_op begins a commit, the others wake who waits for space. *)
LEMMA EndOpKeeps ==
  ASSUME IInv, NEW p \in Procs, EndOp(p)
  PROVE  IInv' /\ (Contents => Contents')
  <1>1. /\ pc[p] = "in" /\ mode = "up" /\ outstanding' = outstanding - 1
        /\ UNCHANGED <<home, logDisk, header, cache, dirty, lh, wrote, op, ops, crashes>>
        /\ pc \in [Procs -> {"idle", "begin", "asleep", "in", "checked", "log", "install", "committed"}]
        /\ lh \in Seq(Blocks)
    BY DEF IInv, TypeOK, EndOp, disk
  <1>2. /\ ~committing /\ outstanding \in Nat /\ outstanding > 0
        /\ \A q \in Procs : pc[q] \notin {"log", "install", "committed"}
    BY <1>1, NobodyCommits DEF Committing
  <1>3. mode' = "up"
    BY <1>2 DEF EndOp
  <1>4. header = <<>>
    BY <1>1, <1>2 DEF IInv, Phases, Booting
  <1>5. p \in Inside /\ Inside \in SUBSET Procs /\ IsFiniteSet(Inside) /\ Cardinality(Inside) = outstanding
    BY <1>1, Counts DEF Inside, IInv, CommitAlone
  <1>6. IsFiniteSet(Inside \ {p}) /\ Cardinality(Inside \ {p}) = outstanding - 1
    BY <1>5, FS_RemoveElement
  <1>7. ASSUME Inside' = Inside \ {p},
               \A q \in Procs : pc'[q] \in {"begin", "asleep"} => pc[q] \in {"begin", "asleep"},
               \A q \in Inside \ {p} : pc'[q] = pc[q]
        PROVE  LogFits'
    <2>1. Reserved' \in SUBSET Reserved
      BY <1>1, <1>7 DEF Reserved
    <2>2. Cardinality(Reserved') <= Cardinality(Reserved) /\ Cardinality(Reserved') \in Nat
      BY <2>1, Counts, FS_Subset, FS_CardinalityType DEF IInv
    <2>3. Len(lh') + Cardinality(Reserved') <= LOGSIZE
      BY <1>1, <2>2, Counts DEF IInv, LogFits
    <2> QED
      BY <1>1, <1>7, <2>3 DEF IInv, LogFits
  <1>8. outstanding' \in 0..Cardinality(Procs)
    <2>1. outstanding \in 0..Cardinality(Procs) /\ Cardinality(Procs) \in Nat
      BY SetsAssumption, FS_CardinalityType DEF IInv, TypeOK
    <2> QED
      BY <1>1, <1>2, <2>1
  <1>9. CASE outstanding = 1
    <2>1. /\ committing' = TRUE /\ tail' = 1
          /\ pc' = [pc EXCEPT ![p] = IF lh = <<>> THEN "committed" ELSE "log"]
      BY <1>9 DEF EndOp, Goto
    <2>2. Inside \ {p} = {}
      BY <1>6, <1>9, FS_EmptySet
    <2>3. Inside' = {} /\ Inside' = Inside \ {p}
      BY <1>1, <2>1, <2>2 DEF Inside
    <2>4. Cardinality(Inside') = 0
      BY <2>3, FS_EmptySet
    <2>5. TypeOK'
      <3>1. pc' \in [Procs -> {"idle", "begin", "asleep", "in", "checked", "log", "install", "committed"}]
        BY <1>1, <2>1
      <3>2. outstanding' \in 0..Cardinality(Procs) /\ tail' \in 1..(LOGSIZE + 1)
        BY <1>8, <2>1
      <3> QED
        BY <1>1, <1>3, <2>1, <3>1, <3>2 DEF IInv, TypeOK
    <2>6. CommitAlone' /\ NoLostSleeper'
      BY <1>1, <1>2, <1>9, <2>1, <2>4 DEF CommitAlone, NoLostSleeper, Committing
    <2>7. LogFits'
      BY <1>1, <1>7, <2>1, <2>3
    <2>8. Phases'
      <3>1. \A q \in Procs : pc'[q] # "install"
        BY <1>1, <1>2, <2>1
      <3>2. (\A q \in Procs : pc'[q] \notin {"log", "install"}) => lh' = <<>>
        BY <1>1, <2>1
      <3>3. tail' <= Len(lh') + 1
        BY <1>1, <2>1
      <3> QED
        BY <1>1, <1>3, <1>4, <3>1, <3>2, <3>3 DEF Phases, Booting
    <2>9. ASSUME Contents PROVE Contents'
      <3>1. \A q \in Procs : pc'[q] # "install"
        BY <1>1, <1>2, <2>1
      <3>2. 1..(tail' - 1) = {}
        BY <2>1
      <3>3. \A b \in Blocks : ~Contains(lh', b) => cache'[b] = home'[b]
        BY <1>1, <2>9 DEF Contents, Booting
      <3> QED
        BY <1>3, <3>1, <3>2, <3>3 DEF Contents, Booting
    <2>10. Roomy'
      BY <1>3, <2>5, <2>7, RoomKept
    <2> QED
      BY <2>5, <2>6, <2>7, <2>8, <2>9, <2>10 DEF IInv
  <1>10. CASE outstanding # 1
    <2>1. /\ UNCHANGED <<committing, tail>>
          /\ pc' = [Awake EXCEPT ![p] = "idle"]
      BY <1>10 DEF EndOp
    <2>2. pc' = [q \in Procs |-> IF q = p THEN "idle" ELSE IF pc[q] = "asleep" THEN "begin" ELSE pc[q]]
      BY <2>1 DEF Awake
    <2>3. Inside' = Inside \ {p}
      BY <1>1, <2>2 DEF Inside
    <2>4. Inside' # {} /\ Cardinality(Inside') = outstanding'
      BY <1>1, <1>2, <1>6, <1>10, <2>3, FS_EmptySet
    <2>5. TypeOK'
      <3>1. pc' \in [Procs -> {"idle", "begin", "asleep", "in", "checked", "log", "install", "committed"}]
        BY <1>1, <2>2
      <3> QED
        BY <1>1, <1>3, <1>8, <2>1, <3>1 DEF IInv, TypeOK
    <2>6. CommitAlone' /\ NoLostSleeper'
      BY <1>1, <1>2, <2>1, <2>2, <2>4 DEF CommitAlone, NoLostSleeper, Committing
    <2>7. LogFits'
      <3>1. \A q \in Procs : pc'[q] \in {"begin", "asleep"} => pc[q] \in {"begin", "asleep"}
        BY <2>2
      <3>2. \A q \in Inside \ {p} : pc'[q] = pc[q]
        BY <2>2 DEF Inside
      <3> QED
        BY <1>7, <2>3, <3>1, <3>2
    <2>8. \A q \in Procs : pc'[q] \notin {"log", "install"}
      BY <1>1, <1>2, <2>2
    <2>9. Phases'
      BY <1>1, <1>3, <1>4, <2>4, <2>8 DEF Phases, Booting
    <2>10. ASSUME Contents PROVE Contents'
      <3>1. \A b \in Blocks : ~Contains(lh', b) => cache'[b] = home'[b]
        BY <1>1, <2>10 DEF Contents, Booting
      <3> QED
        BY <1>3, <2>8, <3>1 DEF Contents, Booting
    <2>11. Roomy'
      BY <1>3, <2>5, <2>7, RoomKept
    <2> QED
      BY <2>5, <2>6, <2>7, <2>9, <2>10, <2>11 DEF IInv
  <1> QED
    BY <1>9, <1>10

(* A step of the committer, which is alone. *)
LEMMA CommitterAlone ==
  ASSUME IInv, NEW p \in Procs, Committing(p)
  PROVE  /\ committing /\ outstanding = 0 /\ Inside = {}
         /\ \A q \in Procs : pc[q] \notin {"in", "checked"}
         /\ \A q \in Procs : q # p => pc[q] \notin {"log", "install", "committed"}
  <1>1. committing
    BY DEF IInv, CommitAlone
  <1> QED
    BY <1>1, NobodyInside DEF IInv, CommitAlone, Committing

(* The block after the last one of the log is a block that calls write. *)
LEMMA LogBlockIs ==
  ASSUME TypeOK, NEW k \in 1..LOGSIZE
  PROVE  LogBlock(k) \in Values /\ (k < nlog => LogBlock(k) = logDisk[k])
  <1>1. CASE k < nlog
    BY <1>1 DEF TypeOK, LogBlock
  <1>2. CASE ~(k < nlog)
    <2>1. k \in Blocks
      BY <1>2, LayoutAssumption
    <2> QED
      BY <1>2, <2>1 DEF TypeOK, LogBlock
  <1> QED
    BY <1>1, <1>2

(* write_log. *)
LEMMA WriteLogKeeps ==
  ASSUME IInv, NEW p \in Procs, WriteLog(p)
  PROVE  IInv'
  <1>1. /\ pc[p] = "log" /\ mode = "up" /\ tail <= Len(lh)
        /\ tail' = tail + 1
        /\ UNCHANGED <<header, lh, outstanding, committing, pc, wrote, op, mode, ops, crashes>>
    BY DEF WriteLog, logState
  <1>2. /\ lh \in Seq(Blocks) /\ Len(lh) \in Nat /\ Len(lh) <= LOGSIZE
        /\ tail \in 1..LOGSIZE /\ lh[tail] \in Blocks
        /\ cache \in [Blocks -> Values] /\ cache[lh[tail]] \in Values
    BY <1>1, Counts DEF IInv, TypeOK, LogFits
  <1>3. Inside' = Inside /\ Reserved' = Reserved
    BY <1>1, SameInside DEF IInv
  <1>4. TypeOK'
    <2>1. /\ home' \in [Blocks -> Values] /\ cache' \in [Blocks -> Values]
          /\ logDisk' \in [1..(nlog - 1) -> Values] /\ dirty' \subseteq Blocks
      BY <1>2 DEF IInv, TypeOK, WriteLog
    <2> QED
      BY <1>1, <1>2, <2>1 DEF IInv, TypeOK
  <1>5. CommitAlone' /\ NoLostSleeper' /\ LogFits'
    BY <1>1, <1>3 DEF IInv, CommitAlone, NoLostSleeper, Committing, LogFits
  <1>6. Phases'
    BY <1>1, <1>2, <1>3 DEF IInv, Phases, Booting
  <1>7. Roomy'
    BY <1>1, <1>4, <1>5, RoomKept
  <1> QED
    BY <1>4, <1>5, <1>6, <1>7 DEF IInv

LEMMA WriteLogContents ==
  ASSUME IInv, Contents, Fits, NEW p \in Procs, WriteLog(p)
  PROVE  Contents'
  <1>1. /\ pc[p] = "log" /\ mode = "up" /\ tail <= Len(lh)
        /\ tail' = tail + 1
        /\ UNCHANGED <<lh, pc, mode>>
    BY DEF WriteLog, logState
  <1>2. /\ lh \in Seq(Blocks) /\ Len(lh) \in Nat /\ tail \in 1..Len(lh) /\ tail < nlog
        /\ logDisk \in [1..(nlog - 1) -> Values]
    BY <1>1 DEF IInv, TypeOK, Fits
  <1>3. logDisk' = [logDisk EXCEPT ![tail] = cache[lh[tail]]] /\ UNCHANGED <<home, cache>>
    BY <1>2 DEF WriteLog
  <1>4. \A q \in Procs : q # p => pc[q] \notin {"log", "install", "committed"}
    BY <1>1, CommitterAlone DEF Committing
  <1>5. ASSUME NEW k \in 1..(tail' - 1) PROVE logDisk'[k] = cache'[lh'[k]]
    <2>1. CASE k = tail
      BY <1>1, <1>2, <1>3, <2>1
    <2>2. CASE k # tail
      <3>1. k \in 1..(tail - 1)
        BY <1>1, <1>2, <2>2
      <3>2. logDisk[k] = cache[lh[k]]
        BY <1>1, <3>1 DEF Contents, Booting
      <3> QED
        BY <1>1, <1>2, <1>3, <2>2, <3>1, <3>2
    <2> QED
      BY <2>1, <2>2
  <1>6. \A b \in Blocks : ~Contains(lh', b) => cache'[b] = home'[b]
    BY <1>1, <1>3 DEF Contents, Booting
  <1> QED
    BY <1>1, <1>4, <1>5, <1>6 DEF Contents, Booting

(* The header is written: every logged block is in the log. *)
LEMMA WriteHeadKeeps ==
  ASSUME IInv, NEW p \in Procs, WriteHead(p)
  PROVE  IInv' /\ (Contents => Contents')
  <1>1. /\ pc[p] = "log" /\ mode = "up" /\ tail > Len(lh)
        /\ header' = lh /\ tail' = 1 /\ pc' = [pc EXCEPT ![p] = "install"]
        /\ UNCHANGED <<home, logDisk, cache, dirty, lh, outstanding, committing,
                       wrote, op, mode, ops, crashes>>
    BY DEF WriteHead, logState, Goto
  <1>2. /\ lh \in Seq(Blocks) /\ Len(lh) \in Nat /\ Len(lh) <= LOGSIZE /\ tail \in Nat
        /\ pc \in [Procs -> {"idle", "begin", "asleep", "in", "checked", "log", "install", "committed"}]
    BY <1>1, Counts DEF IInv, TypeOK, LogFits
  <1>3. Inside' = Inside /\ Reserved' = Reserved
    BY <1>1, <1>2, SameInside DEF IInv
  <1>4. TypeOK'
    BY <1>1, <1>2 DEF IInv, TypeOK
  <1>5. CommitAlone' /\ NoLostSleeper'
    BY <1>1, <1>2, <1>3 DEF IInv, CommitAlone, NoLostSleeper, Committing
  <1>6. LogFits'
    BY <1>1, <1>2, <1>3 DEF IInv, LogFits, Inside
  <1>7. /\ \A q \in Procs : q # p => pc'[q] \notin {"log", "install", "committed"}
        /\ pc'[p] = "install" /\ tail' <= Len(lh') + 1 /\ 1..(tail' - 1) = {}
    BY <1>1, <1>2, CommitterAlone DEF Committing
  <1>8. Phases'
    BY <1>1, <1>7 DEF Phases, Booting
  <1>9. ASSUME Contents PROVE Contents'
    <2>1. ASSUME NEW k \in 1..Len(lh') PROVE logDisk'[k] = cache'[lh'[k]]
      <3>1. k \in 1..(tail - 1)
        BY <1>1, <1>2
      <3> QED
        BY <1>1, <1>9, <3>1 DEF Contents, Booting
    <2>2. \A b \in Blocks : ~Contains(lh', b) => cache'[b] = home'[b]
      BY <1>1, <1>9 DEF Contents, Booting
    <2> QED
      BY <1>1, <1>7, <2>1, <2>2 DEF Contents, Booting
  <1>10. Roomy'
    BY <1>1, <1>4, <1>6, RoomKept
  <1> QED
    BY <1>4, <1>5, <1>6, <1>8, <1>9, <1>10 DEF IInv

LEMMA InstallKeeps ==
  ASSUME IInv, NEW p \in Procs, Install(p)
  PROVE  IInv'
  <1>1. /\ pc[p] = "install" /\ mode = "up" /\ tail <= Len(lh)
        /\ home' = [home EXCEPT ![lh[tail]] = LogBlock(tail)]
        /\ cache' = [cache EXCEPT ![lh[tail]] = LogBlock(tail)]
        /\ UNCHANGED <<logDisk, header, lh, outstanding, committing, pc,
                       wrote, op, mode, ops, crashes>>
        /\ tail' = tail + 1 /\ dirty' = dirty \ {lh[tail]}
    BY DEF Install, logState
  <1>2. /\ lh \in Seq(Blocks) /\ Len(lh) \in Nat /\ Len(lh) <= LOGSIZE
        /\ tail \in 1..Len(lh) /\ LogBlock(tail) \in Values
    <2>1. /\ lh \in Seq(Blocks) /\ Len(lh) \in Nat /\ Len(lh) <= LOGSIZE
          /\ tail \in 1..Len(lh)
      BY <1>1, Counts DEF IInv, TypeOK, LogFits
    <2> QED
      BY <2>1, LogBlockIs DEF IInv
  <1>3. Inside' = Inside /\ Reserved' = Reserved
    BY <1>1, SameInside DEF IInv
  <1>4. TypeOK'
    <2>1. /\ home' \in [Blocks -> Values] /\ cache' \in [Blocks -> Values]
          /\ tail' \in 1..(LOGSIZE + 1) /\ dirty' \subseteq Blocks
      BY <1>1, <1>2 DEF IInv, TypeOK
    <2> QED
      BY <1>1, <2>1 DEF IInv, TypeOK
  <1>5. CommitAlone' /\ NoLostSleeper' /\ LogFits'
    BY <1>1, <1>3 DEF IInv, CommitAlone, NoLostSleeper, Committing, LogFits
  <1>6. Phases'
    BY <1>1, <1>2, <1>3 DEF IInv, Phases, Booting
  <1>7. Roomy'
    BY <1>1, <1>4, <1>5, RoomKept
  <1> QED
    BY <1>4, <1>5, <1>6, <1>7 DEF IInv

(* install_trans copies what the cache holds already. *)
LEMMA InstallIs ==
  ASSUME IInv, Contents, Fits, NEW p \in Procs, Install(p)
  PROVE  /\ pc[p] = "install" /\ mode = "up" /\ tail \in 1..Len(lh) /\ header = lh
         /\ lh[tail] \in Blocks /\ logDisk[tail] = cache[lh[tail]]
         /\ home' = [home EXCEPT ![lh[tail]] = logDisk[tail]]
         /\ UNCHANGED <<logDisk, header, cache, lh, outstanding, pc, mode>>
         /\ tail' = tail + 1
  <1>1. /\ pc[p] = "install" /\ mode = "up" /\ tail <= Len(lh)
        /\ home' = [home EXCEPT ![lh[tail]] = LogBlock(tail)]
        /\ cache' = [cache EXCEPT ![lh[tail]] = LogBlock(tail)]
        /\ UNCHANGED <<logDisk, header, lh, outstanding, pc, mode>>
        /\ tail' = tail + 1
    BY DEF Install, logState
  <1>2. /\ lh \in Seq(Blocks) /\ Len(lh) \in Nat /\ tail \in 1..(LOGSIZE + 1)
        /\ cache \in [Blocks -> Values]
    BY DEF IInv, TypeOK
  <1>3. tail \in 1..Len(lh) /\ lh[tail] \in Blocks /\ tail < nlog
    BY <1>1, <1>2 DEF Fits
  <1>4. logDisk[tail] = cache[lh[tail]] /\ header = lh
    BY <1>1, <1>3 DEF IInv, Phases, Contents, Booting
  <1>5. LogBlock(tail) = logDisk[tail]
    BY <1>3 DEF LogBlock
  <1>6. cache' = cache
    BY <1>1, <1>2, <1>3, <1>4, <1>5
  <1> QED
    BY <1>1, <1>3, <1>4, <1>5, <1>6

LEMMA InstallContents ==
  ASSUME IInv, Contents, Fits, NEW p \in Procs, Install(p)
  PROVE  Contents'
  <1>1. /\ pc[p] = "install" /\ mode = "up" /\ tail \in 1..Len(lh) /\ header = lh
        /\ lh[tail] \in Blocks /\ logDisk[tail] = cache[lh[tail]]
        /\ home' = [home EXCEPT ![lh[tail]] = logDisk[tail]]
        /\ UNCHANGED <<logDisk, header, cache, lh, outstanding, pc, mode>>
        /\ tail' = tail + 1
    BY InstallIs
  <1>2. lh \in Seq(Blocks) /\ Len(lh) \in Nat /\ home \in [Blocks -> Values]
    BY DEF IInv, TypeOK
  <1>3. \A q \in Procs : q # p => pc[q] \notin {"log", "install", "committed"}
    BY <1>1, CommitterAlone DEF Committing
  <1>4. ASSUME NEW b \in Blocks, ~Contains(lh', b) PROVE cache'[b] = home'[b]
    <2>1. cache[b] = home[b]
      BY <1>1, <1>4 DEF Contents, Booting
    <2>2. b # lh[tail]
      BY <1>1, <1>4 DEF Contains
    <2> QED
      BY <1>1, <1>2, <2>1, <2>2
  <1>5. ASSUME NEW k \in 1..(tail' - 1) PROVE home'[lh'[k]] = cache'[lh'[k]]
    <2>1. k \in 1..Len(lh) /\ lh[k] \in Blocks
      BY <1>1, <1>2
    <2>2. CASE lh[k] = lh[tail]
      BY <1>1, <1>2, <2>1, <2>2
    <2>3. CASE lh[k] # lh[tail]
      <3>1. k \in 1..(tail - 1)
        BY <1>1, <1>2, <2>3
      <3>2. home[lh[k]] = cache[lh[k]]
        BY <1>1, <3>1 DEF Contents, Booting
      <3> QED
        BY <1>1, <1>2, <2>1, <2>3, <3>2
    <2> QED
      BY <2>2, <2>3
  <1>6. \A k \in 1..Len(lh') : logDisk'[k] = cache'[lh'[k]]
    BY <1>1 DEF Contents, Booting
  <1> QED
    BY <1>1, <1>3, <1>4, <1>5, <1>6 DEF Contents, Booting

(* When every block is installed, the homes hold what the cache holds. *)
LEMMA HomesAreCurrent ==
  ASSUME IInv, Contents, NEW p \in Procs, pc[p] = "install", mode = "up", Installed
  PROVE  cache = home
  <1>1. /\ lh \in Seq(Blocks) /\ Len(lh) \in Nat /\ tail \in Nat /\ tail > Len(lh)
        /\ home \in [Blocks -> Values] /\ cache \in [Blocks -> Values]
    BY DEF IInv, TypeOK, Installed
  <1>2. ASSUME NEW b \in Blocks PROVE cache[b] = home[b]
    <2>1. CASE Contains(lh, b)
      <3>1. PICK k \in 1..Len(lh) : lh[k] = b
        BY <2>1 DEF Contains
      <3>2. k \in 1..(tail - 1)
        BY <1>1
      <3>3. home[lh[k]] = cache[lh[k]]
        BY <3>2 DEF Contents, Booting
      <3> QED
        BY <3>1, <3>3
    <2>2. CASE ~Contains(lh, b)
      BY <2>2 DEF Contents, Booting
    <2> QED
      BY <2>1, <2>2
  <1> QED
    BY <1>1, <1>2

(* The transaction is erased. *)
LEMMA EraseKeeps ==
  ASSUME IInv, NEW p \in Procs, Erase(p)
  PROVE  IInv' /\ (Contents => Contents')
  <1>1. /\ pc[p] = "install" /\ mode = "up"
        /\ header' = <<>> /\ lh' = <<>> /\ pc' = [pc EXCEPT ![p] = "committed"]
        /\ UNCHANGED <<home, logDisk, cache, dirty, outstanding, committing, tail,
                       wrote, op, mode, ops, crashes>>
        /\ pc \in [Procs -> {"idle", "begin", "asleep", "in", "checked", "log", "install", "committed"}]
    BY DEF Erase, Goto, IInv, TypeOK
  <1>2. Inside' = Inside /\ Reserved' = Reserved /\ Inside = {}
    BY <1>1, SameInside, CommitterAlone DEF IInv, Committing
  <1>3. TypeOK'
    BY <1>1 DEF IInv, TypeOK
  <1>4. CommitAlone' /\ NoLostSleeper'
    BY <1>1, <1>2 DEF IInv, CommitAlone, NoLostSleeper, Committing
  <1>5. LogFits'
    <2>1. Cardinality(Reserved) \in Nat /\ Cardinality(Reserved) <= LOGSIZE
      BY Counts DEF IInv, LogFits, TypeOK
    <2>2. Distinct(<<>>)
      BY DEF Distinct
    <2>3. \A q \in Procs : pc'[q] \in {"begin", "asleep"} => wrote'[q] = {}
      BY <1>1 DEF IInv, LogFits
    <2> QED
      BY <1>1, <1>2, <2>1, <2>2, <2>3 DEF LogFits
  <1>6. \A q \in Procs : pc'[q] \notin {"log", "install"}
    BY <1>1, CommitterAlone DEF Committing
  <1>7. Phases'
    BY <1>1, <1>6 DEF Phases, Booting
  <1>8. ASSUME Contents PROVE Contents'
    <2>1. cache = home
      BY <1>1, <1>8, HomesAreCurrent DEF Erase
    <2> QED
      BY <1>1, <1>6, <2>1 DEF Contents, Booting
  <1>9. Roomy'
    BY <1>1, <1>3, <1>5, RoomKept
  <1> QED
    BY <1>3, <1>4, <1>5, <1>7, <1>8, <1>9 DEF IInv

(* The commit is over. *)
LEMMA CommittedKeeps ==
  ASSUME IInv, NEW p \in Procs, Committed(p)
  PROVE  IInv' /\ (Contents => Contents')
  <1>1. /\ pc[p] = "committed" /\ mode = "up" /\ committing' = FALSE
        /\ pc' = [q \in Procs |-> IF q = p THEN "idle" ELSE IF pc[q] = "asleep" THEN "begin" ELSE pc[q]]
        /\ UNCHANGED <<home, logDisk, header, cache, dirty, lh, outstanding, tail,
                       wrote, op, mode, ops, crashes>>
        /\ pc \in [Procs -> {"idle", "begin", "asleep", "in", "checked", "log", "install", "committed"}]
    BY DEF Committed, Awake, IInv, TypeOK, disk
  <1>2. /\ Inside = {} /\ outstanding = 0
        /\ \A q \in Procs : q # p => pc[q] \notin {"log", "install", "committed"}
    BY <1>1, CommitterAlone DEF Committing
  <1>3. Inside' = Inside /\ Reserved' = Reserved
    BY <1>1, SameInside DEF IInv
  <1>4. TypeOK'
    BY <1>1 DEF IInv, TypeOK
  <1>5. CommitAlone' /\ NoLostSleeper'
    BY <1>1, <1>2, <1>3 DEF IInv, CommitAlone, NoLostSleeper, Committing
  <1>6. LogFits'
    <2>1. \A q \in Procs : pc'[q] \in {"begin", "asleep"} => wrote'[q] = {}
      BY <1>1 DEF IInv, LogFits
    <2> QED
      BY <1>1, <1>2, <1>3, <2>1 DEF IInv, LogFits
  <1>7. \A q \in Procs : pc[q] \notin {"log", "install"} /\ pc'[q] \notin {"log", "install"}
    BY <1>1, <1>2
  <1>8. Phases'
    <2>1. header = <<>> /\ lh = <<>>
      BY <1>1, <1>2, <1>7 DEF IInv, Phases, Booting
    <2> QED
      BY <1>1, <1>7, <2>1 DEF Phases, Booting
  <1>9. Contents => Contents'
    BY <1>1, <1>7 DEF Contents, Booting
  <1>10. Roomy'
    BY <1>1, <1>4, <1>6, RoomKept
  <1> QED
    BY <1>4, <1>5, <1>6, <1>8, <1>9, <1>10 DEF IInv

(* Memory is lost, whatever was going on. *)
LEMMA CrashKeeps ==
  ASSUME IInv, Crash
  PROVE  IInv' /\ Contents'
  <1>1. /\ mode' = "boot" /\ cache' = home /\ dirty' = {} /\ lh' = <<>>
        /\ outstanding' = 0 /\ committing' = FALSE /\ tail' = 1
        /\ pc' = [p \in Procs |-> "idle"]
        /\ wrote' = [p \in Procs |-> {}] /\ op' = [p \in Procs |-> 0]
        /\ crashes' = crashes + 1 /\ crashes < MaxCrashes
        /\ UNCHANGED <<home, logDisk, header, ops>>
    BY DEF Crash, disk
  <1>2. Inside' = {} /\ Reserved' = {}
    BY <1>1 DEF Inside, Reserved
  <1>3. Cardinality(Inside') = 0 /\ Cardinality(Reserved') = 0
    BY <1>2, FS_EmptySet
  <1>4. TypeOK'
    <2>1. /\ crashes' \in 0..MaxCrashes /\ 0 \in Values
          /\ tail' \in 1..(LOGSIZE + 1)
      BY <1>1 DEF IInv, TypeOK, Values
    <2>2. outstanding' \in 0..Cardinality(Procs)
      BY <1>1, SetsAssumption, FS_CardinalityType
    <2>3. /\ op' \in [Procs -> Values] /\ wrote' \in [Procs -> SUBSET Blocks]
          /\ pc' \in [Procs -> {"idle", "begin", "asleep", "in", "checked", "log", "install", "committed"}]
      BY <1>1, <2>1
    <2>4. lh' \in Seq(Blocks) /\ dirty' \subseteq Blocks
      BY <1>1
    <2> QED
      BY <1>1, <2>1, <2>2, <2>3, <2>4 DEF IInv, TypeOK
  <1>5. CommitAlone' /\ NoLostSleeper'
    BY <1>1, <1>3 DEF CommitAlone, NoLostSleeper, Committing
  <1>6. LogFits'
    BY <1>1, <1>2, <1>3 DEF IInv, LogFits, Distinct
  <1>7. Phases' /\ Contents'
    BY <1>1 DEF Phases, Contents, Booting
  <1>8. Roomy'
    BY <1>1, <1>4, <1>6, RoomKept
  <1> QED
    BY <1>4, <1>5, <1>6, <1>7, <1>8 DEF IInv

(* A step of recovery, during which no process runs. *)
LEMMA RecoveryFrame ==
  ASSUME IInv, Booting,
         UNCHANGED <<dirty, outstanding, committing, pc, wrote, op, ops, crashes>>,
         Distinct(lh'), Distinct(header'), Len(lh') \in Nat, Len(lh') <= LOGSIZE
  PROVE  CommitAlone' /\ NoLostSleeper' /\ LogFits'
  <1>1. Inside' = Inside /\ Reserved' = Reserved
    BY SameInside DEF IInv
  <1>2. Inside = {} /\ Reserved = {}
    BY DEF Inside, Reserved, IInv, Phases
  <1>3. Cardinality(Reserved) = 0
    BY <1>2, FS_EmptySet
  <1>4. CommitAlone' /\ NoLostSleeper'
    BY <1>1 DEF IInv, CommitAlone, NoLostSleeper, Committing
  <1>5. \A q \in Procs : pc'[q] \in {"begin", "asleep"} => wrote'[q] = {}
    BY DEF IInv, LogFits
  <1> QED
    BY <1>1, <1>2, <1>3, <1>4, <1>5 DEF LogFits

LEMMA ReadHeadKeeps ==
  ASSUME IInv, ReadHead
  PROVE  IInv' /\ (Contents => Contents')
  <1>1. /\ mode = "boot" /\ mode' = "recover" /\ lh' = header
        /\ UNCHANGED <<home, logDisk, header, cache, dirty, outstanding, committing, tail,
                       pc, wrote, op, ops, crashes>>
    BY DEF ReadHead, disk
  <1>2. Booting /\ Booting'
    BY <1>1 DEF Booting
  <1>3. TypeOK'
    BY <1>1 DEF IInv, TypeOK
  <1>4. CommitAlone' /\ NoLostSleeper' /\ LogFits'
    <2>1. Distinct(lh') /\ Distinct(header') /\ Len(lh') \in Nat /\ Len(lh') <= LOGSIZE
      BY <1>1 DEF IInv, TypeOK, LogFits
    <2> QED
      BY <1>1, <1>2, <2>1, RecoveryFrame
  <1>5. tail = 1 /\ ~committing /\ \A q \in Procs : pc[q] = "idle"
    BY <1>1, <1>2 DEF IInv, Phases
  <1>6. tail' <= Len(lh') + 1 /\ 1..(tail' - 1) = {}
    BY <1>1, <1>5 DEF IInv, TypeOK
  <1>7. Phases'
    BY <1>1, <1>2, <1>5, <1>6 DEF Phases
  <1>8. Contents => Contents'
    BY <1>1, <1>2, <1>6 DEF Contents
  <1>9. Roomy'
    BY <1>1, <1>3, <1>4, RoomKept
  <1> QED
    BY <1>3, <1>4, <1>7, <1>8, <1>9 DEF IInv

LEMMA RecoverInstallKeeps ==
  ASSUME IInv, RecoverInstall
  PROVE  IInv'
  <1>1. /\ mode = "recover" /\ tail <= Len(lh)
        /\ home' = [home EXCEPT ![lh[tail]] = LogBlock(tail)]
        /\ cache' = [cache EXCEPT ![lh[tail]] = LogBlock(tail)]
        /\ tail' = tail + 1
        /\ UNCHANGED <<logDisk, header, dirty, lh, outstanding, committing, pc,
                       wrote, op, mode, ops, crashes>>
    BY DEF RecoverInstall, logState
  <1>2. /\ Booting /\ Booting' /\ lh = header
        /\ lh \in Seq(Blocks) /\ Len(lh) \in Nat /\ Len(lh) <= LOGSIZE
        /\ tail \in 1..Len(lh) /\ Distinct(lh)
    BY <1>1 DEF IInv, TypeOK, Phases, Booting, LogFits
  <1>3. TypeOK'
    <2>1. LogBlock(tail) \in Values
      BY <1>2, LogBlockIs DEF IInv
    <2>2. /\ home' \in [Blocks -> Values] /\ cache' \in [Blocks -> Values]
          /\ tail' \in 1..(LOGSIZE + 1)
      BY <1>1, <1>2, <2>1 DEF IInv, TypeOK
    <2> QED
      BY <1>1, <2>2 DEF IInv, TypeOK
  <1>4. CommitAlone' /\ NoLostSleeper' /\ LogFits'
    BY <1>1, <1>2, RecoveryFrame
  <1>5. Phases'
    BY <1>1, <1>2 DEF IInv, Phases
  <1>6. Roomy'
    BY <1>1, <1>3, <1>4, RoomKept
  <1> QED
    BY <1>3, <1>4, <1>5, <1>6 DEF IInv

LEMMA RecoverInstallContents ==
  ASSUME IInv, Contents, Fits, RecoverInstall
  PROVE  Contents'
  <1>1. /\ mode = "recover" /\ tail <= Len(lh)
        /\ home' = [home EXCEPT ![lh[tail]] = LogBlock(tail)]
        /\ cache' = [cache EXCEPT ![lh[tail]] = LogBlock(tail)]
        /\ tail' = tail + 1
        /\ UNCHANGED <<logDisk, lh, mode>>
    BY DEF RecoverInstall, logState
  <1>2. /\ Booting /\ Booting' /\ cache = home
        /\ lh \in Seq(Blocks) /\ Len(lh) \in Nat
        /\ tail \in 1..Len(lh) /\ lh[tail] \in Blocks /\ tail < nlog
        /\ home \in [Blocks -> Values] /\ Distinct(lh)
    BY <1>1 DEF IInv, TypeOK, Contents, Booting, LogFits, Fits
  <1>3. LogBlock(tail) = logDisk[tail]
    BY <1>2 DEF LogBlock
  <1>4. ASSUME NEW k \in 1..(tail' - 1) PROVE home'[lh'[k]] = logDisk'[k]
    <2>1. k \in 1..Len(lh) /\ lh[k] \in Blocks
      BY <1>1, <1>2
    <2>2. CASE k = tail
      BY <1>1, <1>2, <1>3, <2>1, <2>2
    <2>3. CASE k # tail
      <3>1. k \in 1..(tail - 1) /\ lh[k] # lh[tail]
        BY <1>1, <1>2, <2>1, <2>3 DEF Distinct
      <3>2. home[lh[k]] = logDisk[k]
        BY <1>1, <3>1 DEF Contents
      <3> QED
        BY <1>1, <1>2, <2>1, <3>1, <3>2
    <2> QED
      BY <2>2, <2>3
  <1>5. cache' = home'
    BY <1>1, <1>2
  <1> QED
    BY <1>2, <1>4, <1>5 DEF Contents

LEMMA RecoverClearKeeps ==
  ASSUME IInv, RecoverClear
  PROVE  IInv' /\ (Contents => Contents')
  <1>1. /\ mode = "recover" /\ mode' = "up" /\ lh' = <<>> /\ header' = <<>>
        /\ UNCHANGED <<home, logDisk, cache, dirty, outstanding, committing, tail,
                       pc, wrote, op, ops, crashes>>
    BY DEF RecoverClear
  <1>2. Booting /\ ~Booting'
    BY <1>1 DEF Booting
  <1>3. ~committing /\ \A q \in Procs : pc[q] = "idle"
    BY <1>2 DEF IInv, Phases
  <1>4. TypeOK'
    BY <1>1 DEF IInv, TypeOK
  <1>5. CommitAlone' /\ NoLostSleeper' /\ LogFits'
    <2>1. Distinct(lh') /\ Distinct(header') /\ Len(lh') \in Nat /\ Len(lh') <= LOGSIZE
      BY <1>1 DEF Distinct
    <2> QED
      BY <1>1, <1>2, <2>1, RecoveryFrame
  <1>6. Phases'
    BY <1>1, <1>2, <1>3 DEF Phases
  <1>7. Contents => Contents'
    BY <1>1, <1>2, <1>3 DEF Contents
  <1>8. Roomy'
    BY <1>1, <1>4, <1>5, RoomKept
  <1> QED
    BY <1>4, <1>5, <1>6, <1>7, <1>8 DEF IInv

(* For any number of processes, blocks, calls and crashes and a log of any *)
(* size: commit() runs alone although it holds no lock, lh.block[] never   *)
(* overflows, and whoever waits in begin_op waits for somebody.            *)
THEOREM Invariance == Spec => []IInv
  <1>1. IInv /\ [Next]_vars => IInv'
    <2> SUFFICES ASSUME IInv, [Next]_vars PROVE IInv'
      OBVIOUS
    <2>1. ASSUME NEW p \in Procs, Step(p) PROVE IInv'
      BY <2>1, BeginOpKeeps, BeginSleepKeeps, WriteCheckKeeps, EndOpKeeps, WriteLogKeeps,
         WriteHeadKeeps, InstallKeeps, EraseKeeps, CommittedKeeps, WriteKeeps DEF Step
    <2>2. CASE Recovery
      BY <2>2, ReadHeadKeeps, RecoverInstallKeeps, RecoverClearKeeps DEF Recovery
    <2> QED
      BY <2>1, <2>2, CallKeeps, CrashKeeps, StutterKeeps DEF Next
  <1> QED
    BY <1>1, InitIInv, PTL DEF Spec

(* As long as what is logged fits in the log, the contents are in every    *)
(* phase of commit and recovery where the next step looks for them.        *)
LEMMA ContentsKept == Spec /\ []Fits => []Contents
  <1>1. IInv /\ Fits /\ Contents /\ [Next]_vars => Contents'
    <2> SUFFICES ASSUME IInv, Fits, Contents, [Next]_vars PROVE Contents'
      OBVIOUS
    <2>1. ASSUME NEW p \in Procs, Step(p) PROVE Contents'
      BY <2>1, BeginOpKeeps, BeginSleepKeeps, WriteCheckKeeps, EndOpKeeps, WriteLogContents,
         WriteHeadKeeps, InstallContents, EraseKeeps, CommittedKeeps, WriteKeeps DEF Step
    <2>2. CASE Recovery
      BY <2>2, ReadHeadKeeps, RecoverInstallContents, RecoverClearKeeps DEF Recovery
    <2> QED
      BY <2>1, <2>2, CallKeeps, CrashKeeps, StutterKeeps DEF Next
  <1> QED
    BY <1>1, InitIInv, Invariance, PTL DEF Spec

(* With room for LOGSIZE blocks after the header, which is what param.h    *)
(* says the log has, no call that begin_op let in panics in log_write, and *)
(* write_log stays within the log.  The log that mkfs makes has one block  *)
(* less.                                                                   *)
THEOREM RoomForAll ==
  ASSUME nlog > LOGSIZE
  PROVE  Spec => []AdmittedNeverPanics /\ []Fits
  <1>1. IInv => AdmittedNeverPanics /\ Fits
    BY DEF IInv, Roomy
  <1> QED
    BY <1>1, Invariance, PTL

-----------------------------------------------------------------------------
LEMMA IndexOf ==
  ASSUME NEW s \in Seq(Blocks), Distinct(s), NEW k \in 1..Len(s)
  PROVE  /\ s[k] \in Blocks /\ Contains(s, s[k])
         /\ (CHOOSE j \in DOMAIN s : s[j] = s[k]) = k
  <1>1. DOMAIN s = 1..Len(s)
    OBVIOUS
  <1> QED
    BY <1>1 DEF Contains, Distinct

(* What recovery would install: the log's copy of a block in the header,   *)
(* and what is in its home for the others.                                 *)
LEMMA RecoveredLogged ==
  ASSUME IInv, Fits, NEW k \in 1..Len(header)
  PROVE  header[k] \in Blocks /\ recovered[header[k]] = logDisk[k]
  <1>1. header \in Seq(Blocks) /\ Distinct(header)
    BY DEF IInv, TypeOK, LogFits
  <1>2. k < nlog
    BY <1>1 DEF Fits
  <1>3. DiskBlock(k) = logDisk[k]
    BY <1>2 DEF DiskBlock
  <1> QED
    BY <1>1, <1>3, IndexOf DEF recovered

LEMMA RecoveredHome ==
  ASSUME NEW b \in Blocks, ~Contains(header, b)
  PROVE  recovered[b] = home[b]
  BY DEF recovered

(* With an empty header the homes are what counts. *)
LEMMA NothingToRecover ==
  ASSUME TypeOK, header = <<>>
  PROVE  recovered = home
  BY DEF TypeOK, recovered, Contains

(* The homes hold what recovery would install. *)
LEMMA AllInstalled ==
  ASSUME IInv, Fits, \A k \in 1..Len(header) : home[header[k]] = logDisk[k]
  PROVE  recovered = home
  <1>1. ASSUME NEW b \in Blocks PROVE recovered[b] = home[b]
    <2>1. CASE Contains(header, b)
      <3>1. PICK k \in 1..Len(header) : header[k] = b
        BY <2>1 DEF Contains
      <3> QED
        BY <3>1, RecoveredLogged
    <2>2. CASE ~Contains(header, b)
      BY <2>2, RecoveredHome
    <2> QED
      BY <2>1, <2>2
  <1>2. home = [b \in Blocks |-> home[b]] /\ recovered = [b \in Blocks |-> recovered[b]]
    BY DEF IInv, TypeOK, recovered
  <1> QED
    BY <1>1, <1>2

(* Writing the home of a block of the header changes nothing. *)
LEMMA InstallHidden ==
  ASSUME TypeOK, Fits, NEW c \in Blocks, NEW v, Contains(header, c),
         home' = [home EXCEPT ![c] = v], UNCHANGED <<logDisk, header>>
  PROVE  recovered' = recovered
  <1>1. ASSUME NEW b \in Blocks, ~Contains(header, b) PROVE home'[b] = home[b]
    BY <1>1 DEF TypeOK
  <1>2. ASSUME NEW b \in Blocks, Contains(header, b)
        PROVE  (CHOOSE j \in DOMAIN header : header[j] = b) < nlog
    <2> DEFINE k == CHOOSE j \in DOMAIN header : header[j] = b
    <2>1. k \in 1..Len(header)
      BY <1>2 DEF Contains, TypeOK
    <2> HIDE DEF k
    <2>2. k < nlog
      BY <2>1 DEF Fits, TypeOK
    <2> QED
      BY <2>2 DEF k
  <1>3. ASSUME NEW b \in Blocks PROVE recovered'[b] = recovered[b]
    <2>1. CASE Contains(header, b)
      BY <1>2, <2>1 DEF recovered, DiskBlock
    <2>2. CASE ~Contains(header, b)
      BY <1>1, <2>2 DEF recovered
    <2> QED
      BY <2>1, <2>2
  <1>4. recovered = [b \in Blocks |-> recovered[b]] /\ recovered' = [b \in Blocks |-> recovered'[b]]
    BY DEF recovered
  <1> QED
    BY <1>3, <1>4

(* A step that leaves the disk, the cache and the calls alone. *)
LEMMA Quiet ==
  ASSUME UNCHANGED <<home, logDisk, header, cache, outstanding>>, Booting' <=> Booting
  PROVE  UNCHANGED Abs!absVars
  <1>1. recovered' = recovered
    BY DEF recovered, DiskBlock
  <1> QED
    BY <1>1 DEF seen, Abs!absVars

(* write_head makes durable what the cache holds. *)
LEMMA WriteHeadCommits ==
  ASSUME IInv, Contents, Fits, NEW p \in Procs, WriteHead(p)
  PROVE  Abs!Commit
  <1>1. /\ pc[p] = "log" /\ mode = "up" /\ mode' = "up" /\ tail > Len(lh)
        /\ header' = lh
        /\ UNCHANGED <<home, logDisk, cache, lh, outstanding>>
    BY DEF WriteHead, logState
  <1>2. outstanding = 0 /\ ~Booting /\ ~Booting'
    BY <1>1, CommitterAlone DEF Committing, Booting
  <1>3. lh \in Seq(Blocks) /\ Distinct(lh)
    BY DEF IInv, TypeOK, LogFits
  <1>4. ASSUME NEW b \in Blocks PROVE recovered'[b] = cache[b]
    <2>1. CASE Contains(lh, b)
      <3>1. PICK k \in 1..Len(lh) : lh[k] = b
        BY <2>1 DEF Contains
      <3>2. k \in 1..(tail - 1)
        BY <1>1 DEF IInv, TypeOK
      <3>3. logDisk[k] = cache[lh[k]]
        BY <1>1, <1>2, <3>2 DEF Contents
      <3>4. recovered'[b] = logDisk[k]
        <4>1. Contains(lh, b) /\ (CHOOSE j \in DOMAIN lh : lh[j] = b) = k
          BY <1>3, <3>1, IndexOf
        <4>2. recovered' = [c \in Blocks |-> IF Contains(lh, c)
                                             THEN DiskBlock(CHOOSE j \in DOMAIN lh : lh[j] = c)
                                             ELSE home[c]]
          BY <1>1 DEF recovered, DiskBlock
        <4>3. DiskBlock(k) = logDisk[k]
          BY <1>3 DEF DiskBlock, Fits
        <4> QED
          BY <4>1, <4>2, <4>3
      <3> QED
        BY <3>1, <3>3, <3>4
    <2>2. CASE ~Contains(lh, b)
      <3>1. cache[b] = home[b]
        BY <1>2, <2>2 DEF Contents
      <3> QED
        BY <1>1, <2>2, <3>1 DEF recovered
    <2> QED
      BY <2>1, <2>2
  <1>5. recovered' = cache
    <2>1. recovered' = [b \in Blocks |-> recovered'[b]] /\ cache = [b \in Blocks |-> cache[b]]
      BY DEF recovered, IInv, TypeOK
    <2> QED
      BY <1>4, <2>1
  <1> QED
    BY <1>1, <1>2, <1>5 DEF Abs!Commit, seen

(* The other steps of a commit are invisible. *)
LEMMA CommitHidden ==
  ASSUME IInv, Contents, Fits, NEW p \in Procs, WriteLog(p) \/ Install(p) \/ Erase(p)
  PROVE  UNCHANGED Abs!absVars
  <1>1. CASE WriteLog(p)
    <2>1. /\ pc[p] = "log" /\ mode = "up" /\ mode' = "up"
          /\ UNCHANGED <<home, header, cache, outstanding>>
      <3>1. tail <= Len(lh) /\ tail < nlog
        BY <1>1 DEF WriteLog, Fits, IInv, TypeOK
      <3> QED
        BY <1>1, <3>1 DEF WriteLog, logState
    <2>2. \A q \in Procs : pc[q] # "install"
      BY <2>1, CommitterAlone DEF Committing
    <2>3. header = <<>>
      BY <2>1, <2>2 DEF IInv, Phases, Booting
    <2>4. recovered' = recovered
      BY <2>1, <2>3 DEF recovered, Contains
    <2> QED
      BY <2>1, <2>4 DEF Abs!absVars, seen, Booting
  <1>2. CASE Install(p)
    <2>1. /\ mode = "up" /\ mode' = "up" /\ tail \in 1..Len(lh) /\ header = lh
          /\ lh[tail] \in Blocks
          /\ home' = [home EXCEPT ![lh[tail]] = logDisk[tail]]
          /\ UNCHANGED <<logDisk, header, cache, outstanding>>
      BY <1>2, InstallIs
    <2>2. Contains(header, lh[tail])
      BY <2>1 DEF Contains
    <2>3. recovered' = recovered
      BY <2>1, <2>2, InstallHidden DEF IInv
    <2> QED
      BY <2>1, <2>3 DEF Abs!absVars, seen, Booting
  <1>3. CASE Erase(p)
    <2>1. /\ pc[p] = "install" /\ mode = "up" /\ mode' = "up" /\ header' = <<>> /\ tail > Len(lh)
          /\ UNCHANGED <<home, logDisk, cache, outstanding>>
      BY <1>3 DEF Erase, Installed
    <2>2. cache = home /\ header = lh
      BY <1>3, <2>1, HomesAreCurrent DEF Erase, IInv, Phases, Booting
    <2>3. \A k \in 1..Len(header) : home[header[k]] = logDisk[k]
      BY <2>1, <2>2 DEF Contents, Booting
    <2>4. recovered = home
      BY <2>3, AllInstalled
    <2>5. recovered' = home
      BY <2>1 DEF recovered, Contains, IInv, TypeOK
    <2> QED
      BY <2>1, <2>4, <2>5 DEF Abs!absVars, seen, Booting
  <1> QED
    BY <1>1, <1>2, <1>3

(* And so is recovery. *)
LEMMA RecoveryHidden ==
  ASSUME IInv, Contents, Fits, Recovery
  PROVE  UNCHANGED Abs!absVars
  <1>1. CASE ReadHead
    <2>1. /\ Booting /\ Booting'
          /\ UNCHANGED <<home, logDisk, header, cache, outstanding>>
      BY <1>1 DEF ReadHead, disk, Booting
    <2> QED
      BY <2>1, Quiet
  <1>2. CASE RecoverInstall
    <2>1. /\ mode = "recover" /\ mode' = "recover" /\ tail <= Len(lh)
          /\ home' = [home EXCEPT ![lh[tail]] = LogBlock(tail)]
          /\ UNCHANGED <<logDisk, header, outstanding>>
      BY <1>2 DEF RecoverInstall, logState
    <2>2. /\ lh = header /\ lh \in Seq(Blocks) /\ tail \in 1..Len(lh)
          /\ lh[tail] \in Blocks
      BY <2>1 DEF IInv, TypeOK, Phases, Booting
    <2>3. Contains(header, lh[tail])
      BY <2>2 DEF Contains
    <2>4. recovered' = recovered
      BY <2>1, <2>2, <2>3, InstallHidden DEF IInv
    <2> QED
      BY <2>1, <2>4 DEF Abs!absVars, seen, Booting
  <1>3. CASE RecoverClear
    <2>1. /\ mode = "recover" /\ mode' = "up" /\ header' = <<>> /\ tail > Len(lh)
          /\ UNCHANGED <<home, logDisk, cache, outstanding>>
      BY <1>3 DEF RecoverClear, Installed
    <2>2. lh = header /\ cache = home
      BY <2>1 DEF IInv, Phases, Contents, Booting
    <2>3. ASSUME NEW k \in 1..Len(header) PROVE home[header[k]] = logDisk[k]
      <3>1. k \in 1..(tail - 1)
        BY <2>1, <2>2 DEF IInv, TypeOK
      <3> QED
        BY <2>1, <2>2, <3>1 DEF Contents, Booting
    <2>4. recovered = home
      BY <2>3, AllInstalled
    <2>5. recovered' = home
      BY <2>1 DEF recovered, Contains, IInv, TypeOK
    <2> QED
      BY <2>1, <2>2, <2>4, <2>5 DEF Abs!absVars, seen, Booting
  <1> QED
    BY <1>1, <1>2, <1>3 DEF Recovery

(* The steps of a call. *)
LEMMA CallSteps ==
  ASSUME IInv, NEW p \in Procs
  PROVE  /\ BeginOp(p) => Abs!Begin
         /\ EndOp(p) => Abs!Finish
         /\ \A b \in Blocks : Write(p, b) => Abs!Write(b, op[p])
         /\ Call(p) \/ BeginSleep(p) \/ WriteCheck(p) \/ Committed(p) => UNCHANGED Abs!absVars
  <1>1. ASSUME UNCHANGED <<home, logDisk, header>> PROVE recovered' = recovered
    BY <1>1 DEF recovered, DiskBlock
  <1>2. ASSUME BeginOp(p) PROVE Abs!Begin
    <2>1. /\ mode = "up" /\ mode' = "up" /\ outstanding' = outstanding + 1
          /\ UNCHANGED <<home, logDisk, header, cache>>
      BY <1>2 DEF BeginOp, disk
    <2> QED
      BY <1>1, <2>1 DEF Abs!Begin, seen, Booting
  <1>3. ASSUME EndOp(p) PROVE Abs!Finish
    <2>1. /\ pc[p] = "in" /\ mode = "up" /\ mode' \in {"up", "panicked"} /\ outstanding' = outstanding - 1
          /\ UNCHANGED <<home, logDisk, header, cache>>
      BY <1>3 DEF EndOp, disk
    <2>2. outstanding > 0
      BY <2>1, NobodyCommits
    <2> QED
      BY <1>1, <2>1, <2>2 DEF Abs!Finish, seen, Booting
  <1>4. ASSUME NEW b \in Blocks, Write(p, b) PROVE Abs!Write(b, op[p])
    <2>1. /\ pc[p] = "checked" /\ mode = "up" /\ mode' = "up"
          /\ cache' = [cache EXCEPT ![b] = op[p]]
          /\ UNCHANGED <<home, logDisk, header, outstanding>>
      BY <1>4 DEF Write, disk
    <2>2. outstanding > 0
      BY <2>1, NobodyCommits
    <2> QED
      BY <1>1, <2>1, <2>2 DEF Abs!Write, seen, Booting
  <1>5. ASSUME Call(p) \/ BeginSleep(p) \/ WriteCheck(p) \/ Committed(p)
        PROVE  UNCHANGED Abs!absVars
    <2>1. /\ UNCHANGED <<home, logDisk, header, cache, outstanding>>
          /\ mode = "up" /\ mode' \in {"up", "panicked"}
      BY <1>5 DEF Call, BeginSleep, WriteCheck, Committed, disk, logState
    <2> QED
      BY <2>1, Quiet DEF Booting
  <1> QED
    BY <1>2, <1>3, <1>4, <1>5

(* As long as what is logged fits in the log, it implements its abstract   *)
(* specification: the writes of a group of calls become durable in the one *)
(* step that writes the header, when no call is half way, and a crash at   *)
(* any step, also in recovery, leaves exactly what was durable.  Without   *)
(* the condition it does not (the run log_overrun).                        *)
THEOREM Refinement == Spec /\ []Fits => AbsSpec
  <1>1. Init => Abs!AInit
    <2> SUFFICES ASSUME Init PROVE Abs!AInit
      OBVIOUS
    <2>1. home = [b \in Blocks |-> 0] /\ cache = home /\ header = <<>> /\ mode = "up" /\ outstanding = 0
      BY DEF Init, Clean
    <2>2. recovered = home
      BY <2>1, InitIInv, NothingToRecover DEF IInv
    <2> QED
      BY <2>1, <2>2 DEF Abs!AInit, seen, Booting
  <1>2. IInv /\ Contents /\ Fits /\ [Next]_vars => [Abs!ANext]_(Abs!absVars)
    <2> SUFFICES ASSUME IInv, Contents, Fits, [Next]_vars PROVE [Abs!ANext]_(Abs!absVars)
      OBVIOUS
    <2>1. ASSUME NEW p \in Procs, Step(p) PROVE [Abs!ANext]_(Abs!absVars)
      <3>1. op[p] \in Values
        BY DEF IInv, TypeOK
      <3>2. ASSUME NEW b \in Blocks, Write(p, b) PROVE Abs!ANext
        BY <3>1, <3>2, CallSteps DEF Abs!ANext
      <3> QED
        BY <2>1, <3>2, CallSteps, CommitHidden, WriteHeadCommits DEF Step, Abs!ANext
    <2>2. CASE Crash
      <3>1. /\ Booting' /\ outstanding' = 0 /\ UNCHANGED <<home, logDisk, header>>
        BY <2>2 DEF Crash, Booting, disk
      <3>2. recovered' = recovered
        BY <3>1 DEF recovered, DiskBlock
      <3> QED
        BY <3>1, <3>2 DEF Abs!ANext, Abs!Crash, seen
    <2>3. CASE UNCHANGED vars
      BY <2>3, Quiet DEF vars, disk, logState, Booting
    <2> QED
      BY <2>1, <2>2, <2>3, CallSteps, RecoveryHidden DEF Next
  <1> QED
    BY <1>1, <1>2, Invariance, ContentsKept, PTL DEF Spec, AbsSpec, Abs!ASpec

(* A log with room for LOGSIZE blocks after its header always does. *)
THEOREM RoomyRefinement ==
  ASSUME nlog > LOGSIZE
  PROVE  Spec => AbsSpec
  <1>1. Spec => []Fits
    BY RoomForAll, PTL
  <1> QED
    BY <1>1, Refinement, PTL

(* When the last end_op has returned, what the calls wrote survives any    *)
(* crash, as long as what is logged fits in the log.                       *)
THEOREM Durable == Spec /\ []Fits => []DurableWhenQuiet
  <1>1. IInv /\ Contents => DurableWhenQuiet
    <2> SUFFICES ASSUME IInv, Contents, mode = "up", outstanding = 0, ~committing
                 PROVE  recovered = cache
      BY DEF DurableWhenQuiet
    <2>1. Inside = {}
      BY Counts, FS_EmptySet DEF IInv, CommitAlone
    <2>2. \A q \in Procs : pc[q] \notin {"log", "install"}
      BY DEF IInv, CommitAlone, Committing
    <2>3. header = <<>> /\ lh = <<>> /\ \A b \in Blocks : ~Contains(lh, b) => cache[b] = home[b]
      BY <2>1, <2>2 DEF IInv, Phases, Contents, Booting
    <2>4. cache = home
      BY <2>3 DEF Contains, IInv, TypeOK
    <2> QED
      BY <2>3, <2>4, NothingToRecover DEF IInv
  <1> QED
    BY <1>1, Invariance, ContentsKept, PTL
=============================================================================
