-------------------------------- MODULE Pipe --------------------------------
(***************************************************************************)
(* xv6 pipes (pipe.c) over sleep, wakeup and kill (proc.c), at the grain   *)
(* of the spin locks: p->lock protects the ring buffer, ptable.lock the    *)
(* state and the channel of the processes.  sleep() takes ptable.lock      *)
(* before it releases p->lock.  Readers and writers are processes that     *)
(* share the two ends, make a few calls, close, and may be killed.         *)
(***************************************************************************)
EXTENDS Integers, Sequences, FiniteSets

CONSTANTS Readers, Writers,   \* processes holding the read and the write end
          Killable,           \* processes that kill() may be called on
          PIPESIZE,
          Wrap,               \* 2^32: the counters are unsigned ints
          WriteLen, ReadLen,  \* n of a pipewrite and of a piperead call
          Calls,              \* bound: pipewrite calls per writer
          None                \* the owner of a free spin lock

ASSUME PipesizeAssumption == PIPESIZE \in Nat \ {0}
ASSUME WrapAssumption == Wrap \in Nat /\ Wrap > PIPESIZE /\ Wrap % PIPESIZE = 0
ASSUME ProcsAssumption == /\ IsFiniteSet(Readers) /\ IsFiniteSet(Writers)
                          /\ Readers \cap Writers = {} /\ None \notin Readers \cup Writers
ASSUME LengthsAssumption == WriteLen \in Nat /\ ReadLen \in Nat /\ Calls \in Nat

Procs == Readers \cup Writers
Bytes == Writers \X (1..Calls) \X (0..(WriteLen - 1))

VARIABLES at,        \* where each process is
          i,         \* the loop index of its call
          calls,     \* how many calls it has made
          state, chan, killed,   \* struct proc, of each process
          lock, ptlock,          \* owners of p->lock and of ptable.lock
          data, nread, nwrite, readopen, writeopen,   \* struct pipe
          refs,      \* f->ref of the file of each end
          freed      \* kfree(p) has been called

procVars == <<state, chan, killed>>
pipeVars == <<data, nread, nwrite, readopen, writeopen, refs, freed>>
allVars == <<at, i, calls, procVars, lock, ptlock, pipeVars>>

(* One byte more than the ring has room for. *)
FullMutant == nwrite = (nread + PIPESIZE + 1) % Wrap

Full == nwrite = (nread + PIPESIZE) % Wrap
Empty == nread = nwrite

-----------------------------------------------------------------------------
(* pipealloc, and fork()s that duplicate the two ends. *)
PipeInit == /\ at = [p \in Procs |-> "user"]
            /\ i = [p \in Procs |-> 0]
            /\ calls = [p \in Procs |-> 0]
            /\ state = [p \in Procs |-> "RUNNABLE"]
            /\ chan = [p \in Procs |-> None]
            /\ killed = [p \in Procs |-> FALSE]
            /\ lock = None /\ ptlock = None
            /\ data = [k \in 0..(PIPESIZE - 1) |-> None]
            /\ nread = 0 /\ nwrite = 0
            /\ readopen = TRUE /\ writeopen = TRUE
            /\ refs = [read |-> Cardinality(Readers), write |-> Cardinality(Writers)]
            /\ freed = FALSE

MoveTo(p, label) == at' = [at EXCEPT ![p] = label]

(* wakeup1: every process sleeping on channel c becomes runnable. *)
wakeup1(c) == state' = [q \in Procs |->
                 IF state[q] = "SLEEPING" /\ chan[q] = c THEN "RUNNABLE" ELSE state[q]]

(* wakeup: under ptable.lock, so only while nobody holds it. *)
wakeup(c) == /\ ptlock = None
             /\ wakeup1(c)
             /\ UNCHANGED <<chan, killed, ptlock>>

-----------------------------------------------------------------------------
(* p->lock given up before ptable.lock is taken. *)
SleepAcquireMutant(p) == /\ at[p] = "sleep"
                         /\ lock' = None
                         /\ MoveTo(p, "unlocked")
                         /\ UNCHANGED <<i, calls, procVars, ptlock, pipeVars>>

(* sleep(chan, &p->lock) in the order of the code. *)
SleepAcquire(p) == /\ at[p] = "sleep"
                   /\ ptlock = None
                   /\ ptlock' = p
                   /\ MoveTo(p, "unlock")
                   /\ UNCHANGED <<i, calls, procVars, lock, pipeVars>>

SleepRelease(p) == /\ at[p] = "unlock"
                   /\ lock' = None
                   /\ MoveTo(p, "unlocked")
                   /\ UNCHANGED <<i, calls, procVars, ptlock, pipeVars>>

(* SLEEPING, then sched(): the scheduler releases ptable.lock. *)
SleepSched(p) == /\ at[p] = "unlocked"
                 /\ chan' = [chan EXCEPT ![p] = IF p \in Readers THEN "nread" ELSE "nwrite"]
                 /\ state' = [state EXCEPT ![p] = "SLEEPING"]
                 /\ ptlock' = None
                 /\ MoveTo(p, "asleep")
                 /\ UNCHANGED <<i, calls, killed, lock, pipeVars>>

(* The scheduler runs the process again, which clears chan. *)
SleepReturn(p) == /\ at[p] = "asleep"
                  /\ state[p] = "RUNNABLE"
                  /\ ptlock = None
                  /\ chan' = [chan EXCEPT ![p] = None]
                  /\ MoveTo(p, "relock")
                  /\ UNCHANGED <<i, calls, state, killed, lock, ptlock, pipeVars>>

SleepRelock(p) == /\ at[p] = "relock"
                  /\ lock = None
                  /\ lock' = p
                  /\ MoveTo(p, "loop")
                  /\ UNCHANGED <<i, calls, procVars, ptlock, pipeVars>>

Sleeping(p) == \/ SleepAcquire(p) \/ SleepRelease(p) \/ SleepSched(p)
               \/ SleepReturn(p) \/ SleepRelock(p)

-----------------------------------------------------------------------------
(* A write or a read call begins: acquire(&p->lock). *)
Enter(p) == /\ at[p] = "call"
            /\ lock = None
            /\ lock' = p
            /\ i' = [i EXCEPT ![p] = 0]
            /\ MoveTo(p, "loop")
            /\ UNCHANGED <<calls, procVars, ptlock, pipeVars>>

(* pipewrite: room for one more byte. *)
WriteByte(p) == /\ p \in Writers /\ at[p] = "loop"
                /\ i[p] < WriteLen /\ ~Full
                /\ data' = [data EXCEPT ![nwrite % PIPESIZE] = <<p, calls[p], i[p]>>]
                /\ nwrite' = (nwrite + 1) % Wrap
                /\ i' = [i EXCEPT ![p] = @ + 1]
                /\ UNCHANGED <<at, calls, procVars, lock, ptlock, nread, readopen, writeopen, refs, freed>>

(* pipewrite: full, and nobody to read or killed: release and return -1. *)
WriteFails(p) == /\ p \in Writers /\ at[p] = "loop"
                 /\ i[p] < WriteLen /\ Full
                 /\ ~readopen \/ killed[p]
                 /\ lock' = None
                 /\ MoveTo(p, "return")
                 /\ UNCHANGED <<i, calls, procVars, ptlock, pipeVars>>

(* pipewrite: full: wake the readers, then sleep. *)
WriteWait(p) == /\ p \in Writers /\ at[p] = "loop"
                /\ i[p] < WriteLen /\ Full
                /\ readopen /\ ~killed[p]
                /\ wakeup("nread")
                /\ MoveTo(p, "sleep")
                /\ UNCHANGED <<i, calls, lock, pipeVars>>

WriteDone(p) == /\ p \in Writers /\ at[p] = "loop"
                /\ i[p] = WriteLen
                /\ wakeup("nread")
                /\ MoveTo(p, "release")
                /\ UNCHANGED <<i, calls, lock, pipeVars>>

-----------------------------------------------------------------------------
(* piperead: empty and killed: release and return -1. *)
ReadFails(p) == /\ p \in Readers /\ at[p] = "loop"
                /\ Empty /\ writeopen /\ killed[p]
                /\ lock' = None
                /\ MoveTo(p, "return")
                /\ UNCHANGED <<i, calls, procVars, ptlock, pipeVars>>

ReadWait(p) == /\ p \in Readers /\ at[p] = "loop"
               /\ Empty /\ writeopen /\ ~killed[p]
               /\ MoveTo(p, "sleep")
               /\ UNCHANGED <<i, calls, procVars, lock, ptlock, pipeVars>>

(* Data, or no writer left: go on to the copy loop. *)
ReadReady(p) == /\ p \in Readers /\ at[p] = "loop"
                /\ ~(Empty /\ writeopen)
                /\ MoveTo(p, "copy")
                /\ UNCHANGED <<i, calls, procVars, lock, ptlock, pipeVars>>

ReadByte(p) == /\ at[p] = "copy"
               /\ i[p] < ReadLen /\ ~Empty
               /\ nread' = (nread + 1) % Wrap
               /\ i' = [i EXCEPT ![p] = @ + 1]
               /\ UNCHANGED <<at, calls, procVars, lock, ptlock, data, nwrite, readopen, writeopen, refs, freed>>

(* The copy loop is over: wake the writers. *)
ReadDone(p) == /\ at[p] = "copy"
               /\ i[p] = ReadLen \/ Empty
               /\ wakeup("nwrite")
               /\ MoveTo(p, "release")
               /\ UNCHANGED <<i, calls, lock, pipeVars>>

Release(p) == /\ at[p] = "release"
              /\ lock' = None
              /\ MoveTo(p, "return")
              /\ UNCHANGED <<i, calls, procVars, ptlock, pipeVars>>

-----------------------------------------------------------------------------
(***************************************************************************)
(* fileclose: the last reference to an end closes it in the pipe.  exit()  *)
(* does the same for a killed process.                                     *)
(***************************************************************************)
End(p) == IF p \in Readers THEN "read" ELSE "write"

FileClose(p) == /\ at[p] = "close"
                /\ refs' = [refs EXCEPT ![End(p)] = @ - 1]
                /\ MoveTo(p, IF refs[End(p)] = 1 THEN "pipeclose" ELSE "closed")
                /\ UNCHANGED <<i, calls, procVars, lock, ptlock, data, nread, nwrite, readopen, writeopen, freed>>

CloseLock(p) == /\ at[p] = "pipeclose"
                /\ lock = None
                /\ lock' = p
                /\ IF p \in Writers THEN writeopen' = FALSE /\ UNCHANGED readopen
                                    ELSE readopen' = FALSE /\ UNCHANGED writeopen
                /\ MoveTo(p, "closewake")
                /\ UNCHANGED <<i, calls, procVars, ptlock, data, nread, nwrite, refs, freed>>

(* The processes at the closing end are woken instead of those at the other. *)
OtherSideMutant(p) == IF p \in Writers THEN "nwrite" ELSE "nread"

OtherSide(p) == IF p \in Writers THEN "nread" ELSE "nwrite"

CloseWake(p) == /\ at[p] = "closewake"
                /\ wakeup(OtherSide(p))
                /\ MoveTo(p, "closerelease")
                /\ UNCHANGED <<i, calls, lock, pipeVars>>

NoEnds == ~readopen /\ ~writeopen

CloseRelease(p) == /\ at[p] = "closerelease"
                   /\ lock' = None
                   /\ freed' = NoEnds
                   /\ MoveTo(p, "closed")
                   /\ UNCHANGED <<i, calls, procVars, ptlock, data, nread, nwrite, readopen, writeopen, refs>>

-----------------------------------------------------------------------------
(* A process decides what to do: a writer has Calls calls to make. *)
UserCall(p) == /\ at[p] = "user"
               /\ p \in Writers => calls[p] < Calls
               /\ calls' = [calls EXCEPT ![p] = IF p \in Writers THEN @ + 1 ELSE @]
               /\ MoveTo(p, "call")
               /\ UNCHANGED <<i, procVars, lock, ptlock, pipeVars>>

UserClose(p) == /\ at[p] = "user"
                /\ MoveTo(p, "close")
                /\ UNCHANGED <<i, calls, procVars, lock, ptlock, pipeVars>>

(* trap(): a killed process exits instead of returning; a reader stops at *)
(* end of file, a writer at an error.                                     *)
Return(p) == /\ at[p] = "return"
             /\ LET stop == \/ killed[p]
                            \/ p \in Readers /\ i[p] = 0
                            \/ p \in Writers /\ i[p] < WriteLen
                IN  MoveTo(p, IF stop THEN "close" ELSE "user")
             /\ UNCHANGED <<i, calls, procVars, lock, ptlock, pipeVars>>

(* kill(): mark the process and wake it if it sleeps. *)
Kill(p) == /\ p \in Killable /\ ~killed[p] /\ at[p] # "closed"
           /\ ptlock = None
           /\ killed' = [killed EXCEPT ![p] = TRUE]
           /\ state' = [state EXCEPT ![p] = "RUNNABLE"]
           /\ UNCHANGED <<at, i, calls, chan, lock, ptlock, pipeVars>>

(* A killed process in user space exits at the next trap. *)
ExitKilled(p) == /\ at[p] = "user" /\ killed[p]
                 /\ MoveTo(p, "close")
                 /\ UNCHANGED <<i, calls, procVars, lock, ptlock, pipeVars>>

Kernel(p) == \/ Enter(p) \/ Sleeping(p) \/ Return(p) \/ ExitKilled(p)
             \/ WriteByte(p) \/ WriteFails(p) \/ WriteWait(p) \/ WriteDone(p)
             \/ ReadFails(p) \/ ReadWait(p) \/ ReadReady(p) \/ ReadByte(p)
             \/ ReadDone(p) \/ Release(p)
             \/ FileClose(p) \/ CloseLock(p) \/ CloseWake(p) \/ CloseRelease(p)

User(p) == UserCall(p) \/ UserClose(p)

PipeNext == \E p \in Procs : Kernel(p) \/ User(p) \/ Kill(p)

PipeSystem == PipeInit /\ [][PipeNext]_allVars

(***************************************************************************)
(* Every process runs on some CPU again and again (timer interrupts), and  *)
(* a spin lock that is free again and again is obtained.  The kernel part  *)
(* is always fair; that a program makes its next call is added to it.      *)
(***************************************************************************)
LockSteps(p) == \/ Enter(p) \/ SleepAcquire(p) \/ SleepReturn(p) \/ SleepRelock(p)
                \/ WriteWait(p) \/ WriteDone(p) \/ ReadDone(p)
                \/ CloseLock(p) \/ CloseWake(p)
KernelFairness == \A p \in Procs : WF_allVars(Kernel(p)) /\ SF_allVars(LockSteps(p))
PipeFairness == KernelFairness /\ \A p \in Procs : WF_allVars(User(p))
FairPipeSystem == PipeSystem /\ PipeFairness

-----------------------------------------------------------------------------
PipeLabels == {"user", "call", "loop", "sleep", "unlock", "unlocked", "asleep", "relock",
               "copy", "release", "return", "close", "pipeclose", "closewake",
               "closerelease", "closed"}

PipeTypeOK == /\ at \in [Procs -> PipeLabels]
              /\ i \in [Procs -> 0..(WriteLen + ReadLen)]
              /\ calls \in [Procs -> 0..Calls]
              /\ state \in [Procs -> {"RUNNABLE", "SLEEPING"}]
              /\ chan \in [Procs -> {None, "nread", "nwrite"}]
              /\ killed \in [Procs -> BOOLEAN]
              /\ lock \in Procs \cup {None} /\ ptlock \in Procs \cup {None}
              /\ data \in [0..(PIPESIZE - 1) -> Bytes \cup {None}]
              /\ nread \in 0..(Wrap - 1) /\ nwrite \in 0..(Wrap - 1)
              /\ readopen \in BOOLEAN /\ writeopen \in BOOLEAN
              /\ refs \in [{"read", "write"} -> 0..Cardinality(Procs)]
              /\ freed \in BOOLEAN

held == (nwrite - nread) % Wrap

(* The ring never holds more than PIPESIZE bytes, however the counters wrap. *)
Bounded == held <= PIPESIZE

(* The contents, oldest byte first. *)
queue == [k \in 1..held |-> data[(nread + k - 1) % PIPESIZE]]

(***************************************************************************)
(* No missed wakeup.  A reader sleeps, or is about to, only while there is *)
(* nothing to read and a writer left, or while somebody holding the pipe's *)
(* lock is about to wake it; a writer only while the pipe is full with a   *)
(* reader left, or a reader or a closer is about to wake it.  One          *)
(* exception is in the code (line 86): a writer killed when it has just    *)
(* filled the pipe returns without the wakeup, and a reader sleeps on      *)
(* although there is data.                                                 *)
(***************************************************************************)
Waits(p) == \/ at[p] \in {"sleep", "unlock", "unlocked"}
            \/ at[p] = "asleep" /\ state[p] = "SLEEPING"
GaveUpKilled(q) == /\ killed[q] /\ i[q] < WriteLen
                   /\ at[q] \in {"return", "close", "pipeclose", "closerelease", "closed"}
ReaderWaits == \/ Empty /\ writeopen
               \/ \E q \in Writers : at[q] \in {"loop", "closewake"}
               \/ \E q \in Writers : GaveUpKilled(q)
WriterWaits == \/ Full /\ readopen
               \/ \E q \in Readers : at[q] \in {"copy", "closewake"}
NoMissedWakeup == /\ (\E p \in Readers : Waits(p)) => ReaderWaits
                  /\ (\E p \in Writers : Waits(p)) => WriterWaits

(* The page of the pipe is freed only when no process can touch it again. *)
NoUseAfterFree == freed => /\ \A p \in Procs : at[p] = "closed"
                           /\ lock = None

(* Every call returns and every process ends, however they interleave. *)
EverybodyFinishes == <>(\A p \in Procs : at[p] = "closed")

(* The ring buffer with wrapping counters is a FIFO of at most PIPESIZE bytes. *)
Fifo == INSTANCE PipeSpec WITH readEnd <- readopen, writeEnd <- writeopen
FifoSpec == Fifo!ASpec

(* The two locks are held exactly by who is between acquire and release. *)
Locks ==
    \A p \in Procs :
      /\ lock = p <=> at[p] \in {"loop", "sleep", "unlock", "copy", "release",
                                 "closewake", "closerelease"}
      /\ ptlock = p <=> at[p] \in {"unlock", "unlocked"}

(* Who is asleep is so on the channel of its end; readers alone copy. *)
InCall ==
    \A p \in Procs :
      /\ at[p] = "asleep" => chan[p] = IF p \in Readers THEN "nread" ELSE "nwrite"
      /\ at[p] = "copy" => p \in Readers
      /\ p \in Writers /\ at[p] \in {"call", "loop", "sleep", "unlock", "unlocked",
                                      "asleep", "relock"} => calls[p] >= 1

(* The processes that hold a reference to an end, and its last closer. *)
Past == {"pipeclose", "closewake", "closerelease", "closed"}
Holders(e) == {p \in Procs : End(p) = e /\ at[p] \notin Past}
IsOpen(e) == IF e = "read" THEN readopen ELSE writeopen
RefsExact ==
    /\ \A e \in {"read", "write"} : /\ refs[e] = Cardinality(Holders(e))
                                    /\ ~IsOpen(e) => Holders(e) = {}
    /\ \A p \in Procs :
         /\ at[p] \in Past \ {"closed"} => Holders(End(p)) = {}
         /\ at[p] = "pipeclose" =>
              /\ IsOpen(End(p))
              /\ \A q \in Procs : End(q) = End(p) /\ at[q] \in Past \ {"closed"} => q = p

(* The inductive invariant: the types, the locks and the references, and   *)
(* two hazards of sleeping in a pipe: nobody sleeps although there is      *)
(* something to do (NoMissedWakeup), and pipeclose frees the page only     *)
(* when no reader or writer, asleep or not, can touch it again             *)
(* (NoUseAfterFree).                                                       *)
PipeInv == PipeTypeOK /\ Locks /\ InCall /\ RefsExact /\ NoMissedWakeup /\ NoUseAfterFree
=============================================================================
