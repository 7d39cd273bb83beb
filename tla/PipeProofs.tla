----------------------------- MODULE PipeProofs -----------------------------
(***************************************************************************)
(* Pipes with any number of readers and writers, any ring and any lengths  *)
(* of calls: PipeInv is inductive; and the ring buffer, with counters that *)
(* wrap, implements the FIFO of PipeSpec for any size of the ring that     *)
(* divides the range of the counters.                                      *)
(***************************************************************************)
EXTENDS Pipe, FiniteSetTheorems, TLAPS

(* Integer division, for a divisor that is not a number. *)
LEMMA ModRange ==
  ASSUME NEW a \in Int, NEW m \in Nat \ {0}
  PROVE  /\ a % m \in 0..(m - 1)
         /\ a \div m \in Int
         /\ a = (a \div m) * m + (a % m)
  OBVIOUS

LEMMA MulSmall ==
  ASSUME NEW d \in Int, NEW m \in Nat \ {0}, d * m < m, d * m > -m
  PROVE  d = 0
  OBVIOUS

LEMMA ModUnique ==
  ASSUME NEW a \in Int, NEW q \in Int, NEW m \in Nat \ {0}, NEW r \in 0..(m - 1), a = q * m + r
  PROVE  a % m = r
  <1>1. a = (a \div m) * m + (a % m) /\ a \div m \in Int /\ a % m \in 0..(m - 1)
    BY ModRange
  <1>2. q - (a \div m) \in Int /\ (q - (a \div m)) * m = q * m - (a \div m) * m
    BY <1>1
  <1>3. q - (a \div m) = 0
    BY <1>1, <1>2, MulSmall
  <1> QED
    BY <1>1, <1>3

(* Within one turn of the counter % adds or subtracts one turn at most. *)
LEMMA ModTurn ==
  ASSUME NEW m \in Nat \ {0}, NEW a \in (-m)..(2 * m - 1)
  PROVE  a % m = IF a < 0 THEN a + m ELSE IF a < m THEN a ELSE a - m
  <1>1. CASE a < 0
    <2>1. a = (-1) * m + (a + m) /\ a + m \in 0..(m - 1)
      BY <1>1
    <2> QED
      BY <1>1, <2>1, ModUnique
  <1>2. CASE a >= 0 /\ a < m
    <2>1. a = 0 * m + a /\ a \in 0..(m - 1)
      BY <1>2
    <2> QED
      BY <1>2, <2>1, ModUnique
  <1>3. CASE a >= m
    <2>1. a = 1 * m + (a - m) /\ a - m \in 0..(m - 1)
      BY <1>3
    <2> QED
      BY <1>3, <2>1, ModUnique
  <1> QED
    BY <1>1, <1>2, <1>3

LEMMA ModShift ==
  ASSUME NEW a \in Int, NEW k \in Int, NEW m \in Nat \ {0}
  PROVE  (a + k * m) % m = a % m
  <1>1. a = (a \div m) * m + (a % m) /\ a \div m \in Int /\ a % m \in 0..(m - 1)
    BY ModRange
  <1>2. ((a \div m) + k) * m = (a \div m) * m + k * m
    BY <1>1
  <1>3. /\ a + k * m = ((a \div m) + k) * m + (a % m)
        /\ (a \div m) + k \in Int /\ a + k * m \in Int
    BY <1>1, <1>2
  <1> QED
    BY <1>1, <1>3, ModUnique

LEMMA ModDistinct ==
  ASSUME NEW a \in Int, NEW b \in Int, NEW m \in Nat \ {0}, a < b, b < a + m
  PROVE  a % m # b % m
  <1>1. a = (a \div m) * m + (a % m) /\ a \div m \in Int /\ a % m \in 0..(m - 1)
    BY ModRange
  <1>2. b = (b \div m) * m + (b % m) /\ b \div m \in Int /\ b % m \in 0..(m - 1)
    BY ModRange
  <1>3. SUFFICES ASSUME a % m = b % m PROVE FALSE
    OBVIOUS
  <1>4. /\ (b \div m) - (a \div m) \in Int
        /\ ((b \div m) - (a \div m)) * m = (b \div m) * m - (a \div m) * m
    BY <1>1, <1>2
  <1>5. ((b \div m) - (a \div m)) * m = b - a
    BY <1>1, <1>2, <1>3, <1>4
  <1>6. (b \div m) - (a \div m) = 0
    BY <1>4, <1>5, MulSmall
  <1> QED
    BY <1>1, <1>2, <1>3, <1>6

USE PipesizeAssumption, WrapAssumption, ProcsAssumption, LengthsAssumption
-----------------------------------------------------------------------------
USE PipesizeAssumption, WrapAssumption, ProcsAssumption, LengthsAssumption

(* A step of the wrapping counters stays in their range. *)
LEMMA CounterRange ==
  ASSUME NEW n \in 0..(Wrap - 1)
  PROVE  (n + 1) % Wrap \in 0..(Wrap - 1) /\ n % PIPESIZE \in 0..(PIPESIZE - 1)
  OBVIOUS

(* The page is not freed while a process has still to close its end. *)
LEMMA NotFreed ==
  ASSUME PipeInv, NEW p \in Procs, at[p] # "closed"
  PROVE  ~freed
  BY DEF PipeInv, NoUseAfterFree

(* A step of a process that keeps its reference. *)
LEMMA RefsFrame ==
  ASSUME PipeInv, NEW p \in Procs, NEW label \in PipeLabels \ Past, at[p] \notin Past,
         MoveTo(p, label), UNCHANGED <<refs, readopen, writeopen, freed>>
  PROVE  RefsExact' /\ NoUseAfterFree'
  <1>1. ASSUME NEW e PROVE Holders(e)' = Holders(e)
    BY DEF PipeInv, PipeTypeOK, MoveTo, Holders
  <1>2. ASSUME NEW q \in Procs PROVE at'[q] \in Past => at'[q] = at[q]
    BY DEF PipeInv, PipeTypeOK, MoveTo
  <1>3. RefsExact'
    BY <1>1, <1>2 DEF PipeInv, RefsExact, IsOpen, Past
  <1>4. ~freed
    BY NotFreed DEF Past
  <1> QED
    BY <1>3, <1>4 DEF NoUseAfterFree

(* Two processes are never both inside the pipe's lock. *)
LEMMA OneInside ==
  ASSUME PipeInv, NEW p \in Procs, NEW q \in Procs, p # q,
         at[p] \in {"loop", "sleep", "unlock", "copy", "release", "closewake", "closerelease"}
  PROVE  at[q] \notin {"loop", "sleep", "unlock", "copy", "release", "closewake", "closerelease"}
  BY DEF PipeInv, Locks

(* An end with a process that has not closed it is open. *)
LEMMA EndIsOpen ==
  ASSUME PipeInv, NEW p \in Procs, at[p] \notin Past
  PROVE  IsOpen(End(p))
  <1>1. p \in Holders(End(p)) /\ End(p) \in {"read", "write"}
    BY DEF Holders, End
  <1> QED
    BY <1>1 DEF PipeInv, RefsExact

(* sleep() takes ptable.lock. *)
LEMMA SleepAcquireKeeps ==
  ASSUME PipeInv, NEW p \in Procs, SleepAcquire(p)
  PROVE  PipeInv'
  <1>1. PipeTypeOK'
    BY DEF PipeInv, PipeTypeOK, SleepAcquire, MoveTo, PipeLabels, procVars, pipeVars
  <1>2. Locks'
    BY DEF PipeInv, PipeTypeOK, Locks, SleepAcquire, MoveTo, Procs
  <1>3. InCall'
    BY DEF PipeInv, PipeTypeOK, InCall, SleepAcquire, MoveTo, procVars
  <1>4. RefsExact' /\ NoUseAfterFree'
    BY RefsFrame DEF PipeInv, PipeTypeOK, SleepAcquire, Past, PipeLabels, pipeVars
  <1>5. NoMissedWakeup'
    BY DEF PipeInv, PipeTypeOK, NoMissedWakeup, Waits, ReaderWaits, WriterWaits, GaveUpKilled,
       Empty, Full, Procs, SleepAcquire, MoveTo, procVars, pipeVars, Locks
  <1> QED
    BY <1>1, <1>2, <1>3, <1>4, <1>5 DEF PipeInv

(* sleep() gives up the lock of the pipe. *)
LEMMA SleepReleaseKeeps ==
  ASSUME PipeInv, NEW p \in Procs, SleepRelease(p)
  PROVE  PipeInv'
  <1>1. PipeTypeOK'
    BY DEF PipeInv, PipeTypeOK, SleepRelease, MoveTo, PipeLabels, procVars, pipeVars
  <1>2. Locks'
    BY DEF PipeInv, PipeTypeOK, Locks, SleepRelease, MoveTo, Procs
  <1>3. InCall'
    BY DEF PipeInv, PipeTypeOK, InCall, SleepRelease, MoveTo, procVars
  <1>4. RefsExact' /\ NoUseAfterFree'
    BY RefsFrame DEF PipeInv, PipeTypeOK, SleepRelease, Past, PipeLabels, pipeVars
  <1>5. NoMissedWakeup'
    BY DEF PipeInv, PipeTypeOK, NoMissedWakeup, Waits, ReaderWaits, WriterWaits, GaveUpKilled,
       Empty, Full, Procs, SleepRelease, MoveTo, procVars, pipeVars, Locks
  <1> QED
    BY <1>1, <1>2, <1>3, <1>4, <1>5 DEF PipeInv

(* sleep() is SLEEPING and leaves the CPU. *)
LEMMA SleepSchedKeeps ==
  ASSUME PipeInv, NEW p \in Procs, SleepSched(p)
  PROVE  PipeInv'
  <1>1. PipeTypeOK'
    BY DEF PipeInv, PipeTypeOK, SleepSched, MoveTo, PipeLabels, procVars, pipeVars
  <1>2. Locks'
    BY DEF PipeInv, PipeTypeOK, Locks, SleepSched, MoveTo, Procs
  <1>3. InCall'
    BY DEF PipeInv, PipeTypeOK, InCall, SleepSched, MoveTo, procVars
  <1>4. RefsExact' /\ NoUseAfterFree'
    BY RefsFrame DEF PipeInv, PipeTypeOK, SleepSched, Past, PipeLabels, pipeVars
  <1>5. NoMissedWakeup'
    BY DEF PipeInv, PipeTypeOK, NoMissedWakeup, Waits, ReaderWaits, WriterWaits, GaveUpKilled,
       Empty, Full, Procs, SleepSched, MoveTo, procVars, pipeVars, InCall, Locks
  <1> QED
    BY <1>1, <1>2, <1>3, <1>4, <1>5 DEF PipeInv

(* sleep() goes on. *)
LEMMA SleepReturnKeeps ==
  ASSUME PipeInv, NEW p \in Procs, SleepReturn(p)
  PROVE  PipeInv'
  <1>1. PipeTypeOK'
    BY DEF PipeInv, PipeTypeOK, SleepReturn, MoveTo, PipeLabels, procVars, pipeVars
  <1>2. Locks'
    BY DEF PipeInv, PipeTypeOK, Locks, SleepReturn, MoveTo
  <1>3. InCall'
    BY DEF PipeInv, PipeTypeOK, InCall, SleepReturn, MoveTo, procVars
  <1>4. RefsExact' /\ NoUseAfterFree'
    BY RefsFrame DEF PipeInv, PipeTypeOK, SleepReturn, Past, PipeLabels, pipeVars
  <1>5. NoMissedWakeup'
    BY DEF PipeInv, PipeTypeOK, NoMissedWakeup, Waits, ReaderWaits, WriterWaits, GaveUpKilled,
       Empty, Full, Procs, SleepReturn, MoveTo, procVars, pipeVars, Locks
  <1> QED
    BY <1>1, <1>2, <1>3, <1>4, <1>5 DEF PipeInv

(* sleep() takes the lock of the pipe again. *)
LEMMA SleepRelockKeeps ==
  ASSUME PipeInv, NEW p \in Procs, SleepRelock(p)
  PROVE  PipeInv'
  <1>1. PipeTypeOK'
    BY DEF PipeInv, PipeTypeOK, SleepRelock, MoveTo, PipeLabels, procVars, pipeVars
  <1>2. Locks'
    BY DEF PipeInv, PipeTypeOK, Locks, SleepRelock, MoveTo, Procs
  <1>3. InCall'
    BY DEF PipeInv, PipeTypeOK, InCall, SleepRelock, MoveTo, procVars
  <1>4. RefsExact' /\ NoUseAfterFree'
    BY RefsFrame DEF PipeInv, PipeTypeOK, SleepRelock, Past, PipeLabels, pipeVars
  <1>5. NoMissedWakeup'
    BY DEF PipeInv, PipeTypeOK, NoMissedWakeup, Waits, ReaderWaits, WriterWaits, GaveUpKilled,
       Empty, Full, Procs, SleepRelock, MoveTo, procVars, pipeVars, Locks
  <1> QED
    BY <1>1, <1>2, <1>3, <1>4, <1>5 DEF PipeInv

(* A call takes the lock of the pipe. *)
LEMMA EnterKeeps ==
  ASSUME PipeInv, NEW p \in Procs, Enter(p)
  PROVE  PipeInv'
  <1>1. PipeTypeOK'
    BY DEF PipeInv, PipeTypeOK, Enter, MoveTo, PipeLabels, procVars, pipeVars
  <1>2. Locks'
    BY DEF PipeInv, PipeTypeOK, Locks, Enter, MoveTo, Procs
  <1>3. InCall'
    BY DEF PipeInv, PipeTypeOK, InCall, Enter, MoveTo, procVars
  <1>4. RefsExact' /\ NoUseAfterFree'
    BY RefsFrame DEF PipeInv, PipeTypeOK, Enter, Past, PipeLabels, pipeVars
  <1>5. NoMissedWakeup'
    BY DEF PipeInv, PipeTypeOK, NoMissedWakeup, Waits, ReaderWaits, WriterWaits, GaveUpKilled,
       Empty, Full, Procs, Enter, MoveTo, procVars, pipeVars, Locks
  <1> QED
    BY <1>1, <1>2, <1>3, <1>4, <1>5 DEF PipeInv

(* pipewrite puts a byte. *)
LEMMA WriteByteKeeps ==
  ASSUME PipeInv, NEW p \in Procs, WriteByte(p)
  PROVE  PipeInv'
  <1>1. PipeTypeOK'
    <2>1. /\ (nwrite + 1) % Wrap \in 0..(Wrap - 1)
          /\ nwrite % PIPESIZE \in 0..(PIPESIZE - 1)
      BY CounterRange DEF PipeInv, PipeTypeOK
    <2>2. <<p, calls[p], i[p]>> \in Bytes
      BY DEF PipeInv, PipeTypeOK, InCall, WriteByte, Bytes
    <2>3. data' \in [0..(PIPESIZE - 1) -> Bytes \cup {None}]
      BY <2>1, <2>2 DEF PipeInv, PipeTypeOK, WriteByte
    <2>4. i' \in [Procs -> 0..(WriteLen + ReadLen)]
      BY SMTT(30) DEF PipeInv, PipeTypeOK, WriteByte
    <2> QED
      BY <2>1, <2>3, <2>4 DEF PipeInv, PipeTypeOK, WriteByte, procVars
  <1>2. Locks'
    BY DEF PipeInv, PipeTypeOK, Locks, WriteByte, MoveTo
  <1>3. InCall'
    BY DEF PipeInv, PipeTypeOK, InCall, WriteByte, MoveTo, procVars
  <1>4. RefsExact' /\ NoUseAfterFree'
    <2>1. MoveTo(p, "loop") /\ at[p] \notin Past /\ "loop" \in PipeLabels \ Past
      BY DEF PipeInv, PipeTypeOK, WriteByte, MoveTo, Past, PipeLabels
    <2> QED
      BY <2>1, RefsFrame DEF WriteByte
  <1>5. NoMissedWakeup'
    BY DEF PipeInv, PipeTypeOK, NoMissedWakeup, Waits, ReaderWaits, WriterWaits, GaveUpKilled,
       Empty, Full, Procs, WriteByte, MoveTo, procVars, pipeVars, Locks
  <1> QED
    BY <1>1, <1>2, <1>3, <1>4, <1>5 DEF PipeInv

(* pipewrite gives up. *)
LEMMA WriteFailsKeeps ==
  ASSUME PipeInv, NEW p \in Procs, WriteFails(p)
  PROVE  PipeInv'
  <1>1. PipeTypeOK'
    BY DEF PipeInv, PipeTypeOK, WriteFails, MoveTo, PipeLabels, procVars, pipeVars
  <1>2. Locks'
    BY DEF PipeInv, PipeTypeOK, Locks, WriteFails, MoveTo, Procs
  <1>3. InCall'
    BY DEF PipeInv, PipeTypeOK, InCall, WriteFails, MoveTo, procVars
  <1>4. RefsExact' /\ NoUseAfterFree'
    BY RefsFrame DEF PipeInv, PipeTypeOK, WriteFails, Past, PipeLabels, pipeVars
  <1>5. NoMissedWakeup'
    <2>1. ASSUME NEW q \in Readers, Waits(q)' PROVE GaveUpKilled(p)'
      <3>1. Waits(q) /\ q # p /\ q \in Procs
        BY <2>1 DEF PipeInv, PipeTypeOK, WriteFails, MoveTo, Waits, Procs, procVars
      <3>2. readopen
        BY <3>1, EndIsOpen DEF Waits, Past, End, IsOpen
      <3> QED
        BY <3>2 DEF PipeInv, PipeTypeOK, WriteFails, MoveTo, GaveUpKilled, procVars
    <2>2. (\E q \in Readers : Waits(q))' => ReaderWaits'
      BY <2>1 DEF ReaderWaits, WriteFails
    <2>3. (\E q \in Writers : Waits(q))' => WriterWaits'
      BY DEF PipeInv, PipeTypeOK, NoMissedWakeup, Waits, WriterWaits, Full, Procs, WriteFails,
         MoveTo, procVars, pipeVars
    <2> QED
      BY <2>2, <2>3 DEF NoMissedWakeup
  <1> QED
    BY <1>1, <1>2, <1>3, <1>4, <1>5 DEF PipeInv

(* pipewrite wakes the readers and will sleep. *)
LEMMA WriteWaitKeeps ==
  ASSUME PipeInv, NEW p \in Procs, WriteWait(p)
  PROVE  PipeInv'
  <1>1. PipeTypeOK'
    BY DEF PipeInv, PipeTypeOK, WriteWait, MoveTo, PipeLabels, procVars, pipeVars, wakeup, wakeup1
  <1>2. Locks'
    BY DEF PipeInv, PipeTypeOK, Locks, WriteWait, MoveTo, wakeup
  <1>3. InCall'
    BY DEF PipeInv, PipeTypeOK, InCall, WriteWait, MoveTo, procVars, wakeup
  <1>4. RefsExact' /\ NoUseAfterFree'
    BY RefsFrame DEF PipeInv, PipeTypeOK, WriteWait, Past, PipeLabels, pipeVars
  <1>5. NoMissedWakeup'
    BY DEF PipeInv, PipeTypeOK, NoMissedWakeup, Waits, ReaderWaits, WriterWaits, GaveUpKilled,
       Empty, Full, Procs, WriteWait, MoveTo, procVars, pipeVars, wakeup, wakeup1, InCall,
       Locks
  <1> QED
    BY <1>1, <1>2, <1>3, <1>4, <1>5 DEF PipeInv

(* pipewrite has written everything. *)
LEMMA WriteDoneKeeps ==
  ASSUME PipeInv, NEW p \in Procs, WriteDone(p)
  PROVE  PipeInv'
  <1>1. PipeTypeOK'
    BY DEF PipeInv, PipeTypeOK, WriteDone, MoveTo, PipeLabels, procVars, pipeVars, wakeup, wakeup1
  <1>2. Locks'
    BY DEF PipeInv, PipeTypeOK, Locks, WriteDone, MoveTo, wakeup
  <1>3. InCall'
    BY DEF PipeInv, PipeTypeOK, InCall, WriteDone, MoveTo, procVars, wakeup
  <1>4. RefsExact' /\ NoUseAfterFree'
    BY RefsFrame DEF PipeInv, PipeTypeOK, WriteDone, Past, PipeLabels, pipeVars
  <1>5. NoMissedWakeup'
    BY DEF PipeInv, PipeTypeOK, NoMissedWakeup, Waits, ReaderWaits, WriterWaits, GaveUpKilled,
       Empty, Full, Procs, WriteDone, MoveTo, procVars, pipeVars, wakeup, wakeup1, InCall,
       Locks
  <1> QED
    BY <1>1, <1>2, <1>3, <1>4, <1>5 DEF PipeInv

(* piperead gives up. *)
LEMMA ReadFailsKeeps ==
  ASSUME PipeInv, NEW p \in Procs, ReadFails(p)
  PROVE  PipeInv'
  <1>1. PipeTypeOK'
    BY DEF PipeInv, PipeTypeOK, ReadFails, MoveTo, PipeLabels, procVars, pipeVars
  <1>2. Locks'
    BY DEF PipeInv, PipeTypeOK, Locks, ReadFails, MoveTo, Procs
  <1>3. InCall'
    BY DEF PipeInv, PipeTypeOK, InCall, ReadFails, MoveTo, procVars
  <1>4. RefsExact' /\ NoUseAfterFree'
    BY RefsFrame DEF PipeInv, PipeTypeOK, ReadFails, Past, PipeLabels, pipeVars
  <1>5. NoMissedWakeup'
    BY DEF PipeInv, PipeTypeOK, NoMissedWakeup, Waits, ReaderWaits, WriterWaits, GaveUpKilled,
       Empty, Full, Procs, ReadFails, MoveTo, procVars, pipeVars, Locks
  <1> QED
    BY <1>1, <1>2, <1>3, <1>4, <1>5 DEF PipeInv

(* piperead will sleep. *)
LEMMA ReadWaitKeeps ==
  ASSUME PipeInv, NEW p \in Procs, ReadWait(p)
  PROVE  PipeInv'
  <1>1. PipeTypeOK'
    BY DEF PipeInv, PipeTypeOK, ReadWait, MoveTo, PipeLabels, procVars, pipeVars
  <1>2. Locks'
    BY DEF PipeInv, PipeTypeOK, Locks, ReadWait, MoveTo
  <1>3. InCall'
    BY DEF PipeInv, PipeTypeOK, InCall, ReadWait, MoveTo, procVars
  <1>4. RefsExact' /\ NoUseAfterFree'
    BY RefsFrame DEF PipeInv, PipeTypeOK, ReadWait, Past, PipeLabels, pipeVars
  <1>5. NoMissedWakeup'
    BY DEF PipeInv, PipeTypeOK, NoMissedWakeup, Waits, ReaderWaits, WriterWaits, GaveUpKilled,
       Empty, Full, Procs, ReadWait, MoveTo, procVars, pipeVars, Locks
  <1> QED
    BY <1>1, <1>2, <1>3, <1>4, <1>5 DEF PipeInv

(* piperead starts to copy. *)
LEMMA ReadReadyKeeps ==
  ASSUME PipeInv, NEW p \in Procs, ReadReady(p)
  PROVE  PipeInv'
  <1>1. PipeTypeOK'
    BY DEF PipeInv, PipeTypeOK, ReadReady, MoveTo, PipeLabels, procVars, pipeVars
  <1>2. Locks'
    BY DEF PipeInv, PipeTypeOK, Locks, ReadReady, MoveTo
  <1>3. InCall'
    BY DEF PipeInv, PipeTypeOK, InCall, ReadReady, MoveTo, procVars
  <1>4. RefsExact' /\ NoUseAfterFree'
    BY RefsFrame DEF PipeInv, PipeTypeOK, ReadReady, Past, PipeLabels, pipeVars
  <1>5. NoMissedWakeup'
    BY DEF PipeInv, PipeTypeOK, NoMissedWakeup, Waits, ReaderWaits, WriterWaits, GaveUpKilled,
       Empty, Full, Procs, ReadReady, MoveTo, procVars, pipeVars, Locks
  <1> QED
    BY <1>1, <1>2, <1>3, <1>4, <1>5 DEF PipeInv

(* piperead takes a byte. *)
LEMMA ReadByteKeeps ==
  ASSUME PipeInv, NEW p \in Procs, ReadByte(p)
  PROVE  PipeInv'
  <1>1. PipeTypeOK'
    <2>1. (nread + 1) % Wrap \in 0..(Wrap - 1)
      BY CounterRange DEF PipeInv, PipeTypeOK
    <2>2. i' \in [Procs -> 0..(WriteLen + ReadLen)]
      BY SMTT(30) DEF PipeInv, PipeTypeOK, ReadByte
    <2> QED
      BY <2>1, <2>2 DEF PipeInv, PipeTypeOK, ReadByte, procVars
  <1>2. Locks'
    BY DEF PipeInv, PipeTypeOK, Locks, ReadByte, MoveTo
  <1>3. InCall'
    BY DEF PipeInv, PipeTypeOK, InCall, ReadByte, MoveTo, procVars
  <1>4. RefsExact' /\ NoUseAfterFree'
    <2>1. MoveTo(p, "copy") /\ at[p] \notin Past /\ "copy" \in PipeLabels \ Past
      BY DEF PipeInv, PipeTypeOK, ReadByte, MoveTo, Past, PipeLabels
    <2> QED
      BY <2>1, RefsFrame DEF ReadByte
  <1>5. NoMissedWakeup'
    <2>1. p \in Readers /\ at[p] = "copy" /\ at' = at
      BY DEF PipeInv, InCall, ReadByte
    <2>2. WriterWaits'
      BY <2>1 DEF WriterWaits
    <2>3. ASSUME NEW r \in Readers, Waits(r)' PROVE ReaderWaits'
      <3>1. Waits(r)
        BY <2>3 DEF Waits, ReadByte, procVars
      <3>2. ReaderWaits /\ ~Empty
        BY <3>1 DEF PipeInv, NoMissedWakeup, ReadByte
      <3>3. ASSUME NEW q \in Writers PROVE at[q] \notin {"loop", "closewake"}
        BY <2>1, OneInside DEF Procs
      <3>4. PICK q \in Writers : GaveUpKilled(q)
        BY <3>2, <3>3 DEF ReaderWaits
      <3>5. GaveUpKilled(q)'
        BY <2>1, <3>4 DEF PipeInv, PipeTypeOK, GaveUpKilled, ReadByte, procVars, Procs
      <3> QED
        BY <3>5 DEF ReaderWaits
    <2> QED
      BY <2>2, <2>3 DEF NoMissedWakeup
  <1> QED
    BY <1>1, <1>2, <1>3, <1>4, <1>5 DEF PipeInv

(* piperead has copied. *)
LEMMA ReadDoneKeeps ==
  ASSUME PipeInv, NEW p \in Procs, ReadDone(p)
  PROVE  PipeInv'
  <1>1. PipeTypeOK'
    BY DEF PipeInv, PipeTypeOK, ReadDone, MoveTo, PipeLabels, procVars, pipeVars, wakeup, wakeup1
  <1>2. Locks'
    BY DEF PipeInv, PipeTypeOK, Locks, ReadDone, MoveTo, wakeup
  <1>3. InCall'
    BY DEF PipeInv, PipeTypeOK, InCall, ReadDone, MoveTo, procVars, wakeup
  <1>4. RefsExact' /\ NoUseAfterFree'
    BY RefsFrame DEF PipeInv, PipeTypeOK, ReadDone, Past, PipeLabels, pipeVars
  <1>5. NoMissedWakeup'
    BY DEF PipeInv, PipeTypeOK, NoMissedWakeup, Waits, ReaderWaits, WriterWaits, GaveUpKilled,
       Empty, Full, Procs, ReadDone, MoveTo, procVars, pipeVars, wakeup, wakeup1, InCall, Locks
  <1> QED
    BY <1>1, <1>2, <1>3, <1>4, <1>5 DEF PipeInv

(* A call gives the lock up. *)
LEMMA ReleaseKeeps ==
  ASSUME PipeInv, NEW p \in Procs, Release(p)
  PROVE  PipeInv'
  <1>1. PipeTypeOK'
    BY DEF PipeInv, PipeTypeOK, Release, MoveTo, PipeLabels, procVars, pipeVars
  <1>2. Locks'
    BY DEF PipeInv, PipeTypeOK, Locks, Release, MoveTo, Procs
  <1>3. InCall'
    BY DEF PipeInv, PipeTypeOK, InCall, Release, MoveTo, procVars
  <1>4. RefsExact' /\ NoUseAfterFree'
    BY RefsFrame DEF PipeInv, PipeTypeOK, Release, Past, PipeLabels, pipeVars
  <1>5. NoMissedWakeup'
    BY DEF PipeInv, PipeTypeOK, NoMissedWakeup, Waits, ReaderWaits, WriterWaits, GaveUpKilled,
       Empty, Full, Procs, Release, MoveTo, procVars, pipeVars, Locks
  <1> QED
    BY <1>1, <1>2, <1>3, <1>4, <1>5 DEF PipeInv

(* A program makes a call. *)
LEMMA UserCallKeeps ==
  ASSUME PipeInv, NEW p \in Procs, UserCall(p)
  PROVE  PipeInv'
  <1>1. PipeTypeOK'
    BY SMTT(30) DEF PipeInv, PipeTypeOK, UserCall, MoveTo, PipeLabels, procVars, pipeVars
  <1>2. Locks'
    BY DEF PipeInv, PipeTypeOK, Locks, UserCall, MoveTo
  <1>3. InCall'
    BY DEF PipeInv, PipeTypeOK, InCall, UserCall, MoveTo, procVars
  <1>4. RefsExact' /\ NoUseAfterFree'
    BY RefsFrame DEF PipeInv, PipeTypeOK, UserCall, Past, PipeLabels, pipeVars
  <1>5. NoMissedWakeup'
    BY DEF PipeInv, PipeTypeOK, NoMissedWakeup, Waits, ReaderWaits, WriterWaits, GaveUpKilled,
       Empty, Full, Procs, UserCall, MoveTo, procVars, pipeVars, Locks
  <1> QED
    BY <1>1, <1>2, <1>3, <1>4, <1>5 DEF PipeInv

(* A program closes its end. *)
LEMMA UserCloseKeeps ==
  ASSUME PipeInv, NEW p \in Procs, UserClose(p)
  PROVE  PipeInv'
  <1>1. PipeTypeOK'
    BY DEF PipeInv, PipeTypeOK, UserClose, MoveTo, PipeLabels, procVars, pipeVars
  <1>2. Locks'
    BY DEF PipeInv, PipeTypeOK, Locks, UserClose, MoveTo
  <1>3. InCall'
    BY DEF PipeInv, PipeTypeOK, InCall, UserClose, MoveTo, procVars
  <1>4. RefsExact' /\ NoUseAfterFree'
    BY RefsFrame DEF PipeInv, PipeTypeOK, UserClose, Past, PipeLabels, pipeVars
  <1>5. NoMissedWakeup'
    BY DEF PipeInv, PipeTypeOK, NoMissedWakeup, Waits, ReaderWaits, WriterWaits, GaveUpKilled,
       Empty, Full, Procs, UserClose, MoveTo, procVars, pipeVars, Locks
  <1> QED
    BY <1>1, <1>2, <1>3, <1>4, <1>5 DEF PipeInv

(* A call returns. *)
LEMMA ReturnKeeps ==
  ASSUME PipeInv, NEW p \in Procs, Return(p)
  PROVE  PipeInv'
  <1>1. PipeTypeOK'
    BY DEF PipeInv, PipeTypeOK, Return, MoveTo, PipeLabels, procVars, pipeVars
  <1>2. Locks'
    BY DEF PipeInv, PipeTypeOK, Locks, Return, MoveTo
  <1>3. InCall'
    BY DEF PipeInv, PipeTypeOK, InCall, Return, MoveTo, procVars
  <1>4. RefsExact' /\ NoUseAfterFree'
    BY RefsFrame DEF PipeInv, PipeTypeOK, Return, Past, PipeLabels, pipeVars
  <1>5. NoMissedWakeup'
    BY SMTT(30) DEF PipeInv, PipeTypeOK, NoMissedWakeup, Waits, ReaderWaits, WriterWaits, GaveUpKilled,
       Empty, Full, Procs, Return, MoveTo, procVars, pipeVars, Locks, InCall
  <1> QED
    BY <1>1, <1>2, <1>3, <1>4, <1>5 DEF PipeInv

(* A killed process exits. *)
LEMMA ExitKilledKeeps ==
  ASSUME PipeInv, NEW p \in Procs, ExitKilled(p)
  PROVE  PipeInv'
  <1>1. PipeTypeOK'
    BY DEF PipeInv, PipeTypeOK, ExitKilled, MoveTo, PipeLabels, procVars, pipeVars
  <1>2. Locks'
    BY DEF PipeInv, PipeTypeOK, Locks, ExitKilled, MoveTo
  <1>3. InCall'
    BY DEF PipeInv, PipeTypeOK, InCall, ExitKilled, MoveTo, procVars
  <1>4. RefsExact' /\ NoUseAfterFree'
    BY RefsFrame DEF PipeInv, PipeTypeOK, ExitKilled, Past, PipeLabels, pipeVars
  <1>5. NoMissedWakeup'
    BY DEF PipeInv, PipeTypeOK, NoMissedWakeup, Waits, ReaderWaits, WriterWaits, GaveUpKilled,
       Empty, Full, Procs, ExitKilled, MoveTo, procVars, pipeVars, Locks
  <1> QED
    BY <1>1, <1>2, <1>3, <1>4, <1>5 DEF PipeInv

(* fileclose gives one reference up; the last one closes the end. *)
LEMMA FileCloseKeeps ==
  ASSUME PipeInv, NEW p \in Procs, FileClose(p)
  PROVE  PipeInv'
  <1> DEFINE e == End(p)
             label == IF refs[e] = 1 THEN "pipeclose" ELSE "closed"
  <1>1. /\ at[p] = "close" /\ MoveTo(p, label)
        /\ refs' = [refs EXCEPT ![e] = @ - 1]
        /\ UNCHANGED <<i, calls, state, chan, killed, lock, ptlock, data, nread, nwrite,
                       readopen, writeopen, freed>>
    BY DEF FileClose, procVars
  <1>2. e \in {"read", "write"} /\ p \in Holders(e) /\ label \in {"pipeclose", "closed"}
    BY <1>1 DEF End, Holders, Past
  <1>3. ASSUME NEW d PROVE IsFiniteSet(Holders(d)) /\ Cardinality(Holders(d)) \in Nat
    <2>1. IsFiniteSet(Procs)
      BY FS_Union DEF Procs
    <2>2. Holders(d) \subseteq Procs
      BY DEF Holders
    <2> QED
      BY <2>1, <2>2, FS_Subset, FS_CardinalityType
  <1>4. refs[e] = Cardinality(Holders(e)) /\ refs \in [{"read", "write"} -> 0..Cardinality(Procs)]
    BY <1>2 DEF PipeInv, PipeTypeOK, RefsExact
  <1>5. Holders(e)' = Holders(e) \ {p}
    BY <1>1, <1>2 DEF PipeInv, PipeTypeOK, MoveTo, Holders, Past
  <1>6. /\ Cardinality(Holders(e)') = Cardinality(Holders(e)) - 1
        /\ refs[e] \in Nat \ {0}
    <2>1. Cardinality(Holders(e) \ {p}) = Cardinality(Holders(e)) - 1
      BY <1>2, <1>3, FS_RemoveElement
    <2>2. Cardinality(Holders(e)) # 0
      BY <1>2, <1>3, FS_EmptySet
    <2> QED
      BY <1>3, <1>4, <1>5, <2>1, <2>2
  <1>7. refs[e] = 1 => Holders(e)' = {}
    BY <1>2, <1>3, <1>4, <1>5, <1>6, FS_RemoveElement, FS_EmptySet
  <1>8. ASSUME NEW d \in {"read", "write"}, d # e PROVE Holders(d)' = Holders(d)
    BY <1>1, <1>2, <1>8 DEF PipeInv, PipeTypeOK, MoveTo, Holders
  <1>9. IsOpen(e)
    BY <1>1, EndIsOpen DEF Past
  <1> HIDE DEF label
  <1>10. Cardinality(Procs) \in Nat
    BY FS_Union, FS_CardinalityType DEF Procs
  <1>11. PipeTypeOK'
    BY SMTT(30), <1>1, <1>2, <1>4, <1>6, <1>10 DEF PipeInv, PipeTypeOK, MoveTo, PipeLabels
  <1>12. Locks' /\ InCall'
    BY <1>1, <1>2 DEF PipeInv, PipeTypeOK, Locks, InCall, MoveTo
  <1>13. RefsExact'
    <2>1. ASSUME NEW d \in {"read", "write"}
          PROVE  /\ refs'[d] = Cardinality(Holders(d)')
                 /\ ~IsOpen(d)' => Holders(d)' = {}
                 /\ Holders(d) = {} => Holders(d)' = {}
      <3>1. CASE d = e
        BY <1>1, <1>2, <1>4, <1>5, <1>6, <1>9, <3>1 DEF IsOpen
      <3>2. CASE d # e
        BY <1>1, <1>4, <1>8, <3>2 DEF PipeInv, RefsExact, IsOpen
      <3> QED
        BY <3>1, <3>2
    <2>2. ASSUME NEW q \in Procs, at'[q] \in Past \ {"closed"} PROVE Holders(End(q))' = {}
      <3>1. CASE q = p
        BY <1>1, <1>7, <2>2, <3>1 DEF PipeInv, PipeTypeOK, MoveTo, Past, label
      <3>2. CASE q # p
        <4>1. at[q] \in Past \ {"closed"}
          BY <1>1, <2>2, <3>2 DEF PipeInv, PipeTypeOK, MoveTo
        <4>2. Holders(End(q)) = {} /\ End(q) \in {"read", "write"}
          BY <4>1 DEF PipeInv, RefsExact, End
        <4> QED
          BY <2>1, <4>2
      <3> QED
        BY <3>1, <3>2
    <2>3. ASSUME NEW q \in Procs, at[q] \in Past \ {"closed"} PROVE End(q) # e
      BY <1>2, <2>3 DEF PipeInv, RefsExact
    <2>4. ASSUME NEW q \in Procs, at'[q] = "pipeclose"
          PROVE  /\ IsOpen(End(q))'
                 /\ \A r \in Procs : End(r) = End(q) /\ at'[r] \in Past \ {"closed"} => r = q
      <3>1. CASE q = p
        <4>1. IsOpen(End(q))'
          BY <1>1, <1>9, <3>1 DEF IsOpen
        <4>2. ASSUME NEW r \in Procs, End(r) = End(q), at'[r] \in Past \ {"closed"} PROVE r = q
          BY <1>1, <2>3, <3>1, <4>2 DEF PipeInv, PipeTypeOK, MoveTo
        <4> QED
          BY <4>1, <4>2
      <3>2. CASE q # p
        <4>1. at[q] = "pipeclose"
          BY <1>1, <2>4, <3>2 DEF PipeInv, PipeTypeOK, MoveTo
        <4>2. IsOpen(End(q))'
          BY <1>1, <4>1 DEF PipeInv, RefsExact, IsOpen
        <4>3. End(q) # e
          BY <2>3, <4>1 DEF Past
        <4>4. ASSUME NEW r \in Procs, End(r) = End(q), at'[r] \in Past \ {"closed"} PROVE r = q
          <5>1. r # p /\ at[r] = at'[r]
            BY <1>1, <4>3, <4>4 DEF PipeInv, PipeTypeOK, MoveTo
          <5> QED
            BY <4>1, <4>4, <5>1 DEF PipeInv, RefsExact
        <4> QED
          BY <4>2, <4>4
      <3> QED
        BY <3>1, <3>2
    <2> QED
      BY <2>1, <2>2, <2>4 DEF RefsExact, End
  <1>14. NoUseAfterFree'
    BY <1>1, NotFreed DEF NoUseAfterFree
  <1>15. NoMissedWakeup'
    BY <1>1, <1>2 DEF PipeInv, PipeTypeOK, NoMissedWakeup, Waits, ReaderWaits, WriterWaits,
       GaveUpKilled, Empty, Full, Procs, MoveTo
  <1> QED
    BY <1>11, <1>12, <1>13, <1>14, <1>15 DEF PipeInv

(* pipeclose and the steps after it move a process that holds nothing. *)
LEMMA HoldersPast ==
  ASSUME PipeInv, NEW p \in Procs, NEW label \in Past, at[p] \in Past, MoveTo(p, label)
  PROVE  \A e : Holders(e)' = Holders(e)
  BY DEF PipeInv, PipeTypeOK, MoveTo, Holders

(* pipeclose marks its end closed. *)
LEMMA CloseLockKeeps ==
  ASSUME PipeInv, NEW p \in Procs, CloseLock(p)
  PROVE  PipeInv'
  <1> USE DEF CloseLock
  <1>1. PipeTypeOK'
    BY DEF PipeInv, PipeTypeOK, MoveTo, PipeLabels, procVars
  <1>2. Locks' /\ InCall'
    BY DEF PipeInv, PipeTypeOK, Locks, InCall, MoveTo, procVars, Procs
  <1>3. RefsExact'
    <2>1. ASSUME NEW e PROVE Holders(e)' = Holders(e)
      BY HoldersPast DEF Past
    <2>2. Holders(End(p)) = {} /\ at[p] = "pipeclose"
      BY DEF PipeInv, RefsExact, Past
    <2>3. ASSUME NEW e \in {"read", "write"}, e # End(p) PROVE IsOpen(e)' <=> IsOpen(e)
      BY <2>3 DEF End, IsOpen, Procs
    <2>4. ASSUME NEW e \in {"read", "write"}, ~IsOpen(e)' PROVE Holders(e)' = {}
      <3>1. CASE e = End(p)
        BY <2>1, <2>2, <3>1
      <3>2. CASE e # End(p)
        BY <2>1, <2>3, <2>4, <3>2 DEF PipeInv, RefsExact
      <3> QED
        BY <3>1, <3>2
    <2>5. ASSUME NEW q \in Procs, at'[q] \in Past \ {"closed"} PROVE at[q] \in Past \ {"closed"}
      BY <2>5 DEF PipeInv, PipeTypeOK, MoveTo, Past
    <2>6. ASSUME NEW q \in Procs, at'[q] = "pipeclose"
          PROVE  /\ IsOpen(End(q))'
                 /\ \A r \in Procs : End(r) = End(q) /\ at'[r] \in Past \ {"closed"} => r = q
      <3>1. at[q] = "pipeclose" /\ q # p
        BY <2>6 DEF PipeInv, PipeTypeOK, MoveTo
      <3>2. End(q) # End(p) /\ End(q) \in {"read", "write"}
        BY <2>2, <3>1 DEF PipeInv, RefsExact, Past, End
      <3> QED
        BY <2>3, <2>5, <3>1, <3>2 DEF PipeInv, RefsExact
    <2> QED
      BY <2>1, <2>4, <2>5, <2>6 DEF PipeInv, RefsExact
  <1>4. NoUseAfterFree'
    BY NotFreed DEF NoUseAfterFree
  <1>5. NoMissedWakeup'
    BY DEF PipeInv, PipeTypeOK, NoMissedWakeup, Waits, ReaderWaits, WriterWaits, GaveUpKilled,
       Empty, Full, Procs, MoveTo, procVars
  <1> QED
    BY <1>1, <1>2, <1>3, <1>4, <1>5 DEF PipeInv

(* pipeclose wakes the other side, which nobody can be about to sleep on. *)
LEMMA CloseWakeKeeps ==
  ASSUME PipeInv, NEW p \in Procs, CloseWake(p)
  PROVE  PipeInv'
  <1> USE DEF CloseWake, wakeup
  <1>1. PipeTypeOK'
    BY DEF PipeInv, PipeTypeOK, MoveTo, PipeLabels, wakeup1, pipeVars
  <1>2. Locks' /\ InCall'
    BY DEF PipeInv, PipeTypeOK, Locks, InCall, MoveTo
  <1>3. RefsExact'
    <2>1. ASSUME NEW e PROVE Holders(e)' = Holders(e)
      BY HoldersPast DEF Past
    <2>2. ASSUME NEW q \in Procs
          PROVE  /\ at'[q] = "pipeclose" <=> at[q] = "pipeclose"
                 /\ at'[q] \in Past \ {"closed"} <=> at[q] \in Past \ {"closed"}
      BY DEF PipeInv, PipeTypeOK, MoveTo, Past
    <2> QED
      BY <2>1, <2>2 DEF PipeInv, RefsExact, IsOpen, pipeVars
  <1>4. NoUseAfterFree'
    BY NotFreed DEF NoUseAfterFree, pipeVars
  <1>5. NoMissedWakeup'
    BY DEF PipeInv, PipeTypeOK, Locks, InCall, NoMissedWakeup, Waits, ReaderWaits, WriterWaits,
       GaveUpKilled, Empty, Full, Procs, MoveTo, wakeup1, OtherSide, pipeVars
  <1> QED
    BY <1>1, <1>2, <1>3, <1>4, <1>5 DEF PipeInv

(* The last closer of the second end frees the page, and is alone. *)
LEMMA CloseReleaseKeeps ==
  ASSUME PipeInv, NEW p \in Procs, CloseRelease(p)
  PROVE  PipeInv'
  <1> USE DEF CloseRelease
  <1>1. PipeTypeOK'
    BY DEF PipeInv, PipeTypeOK, MoveTo, PipeLabels, NoEnds, procVars
  <1>2. Locks' /\ InCall'
    BY DEF PipeInv, PipeTypeOK, Locks, InCall, MoveTo, procVars, Procs
  <1>3. RefsExact'
    <2>1. ASSUME NEW e PROVE Holders(e)' = Holders(e)
      BY HoldersPast DEF Past
    <2>2. ASSUME NEW q \in Procs
          PROVE  /\ at'[q] = "pipeclose" <=> at[q] = "pipeclose"
                 /\ at'[q] \in Past \ {"closed"} => at[q] \in Past \ {"closed"}
      BY DEF PipeInv, PipeTypeOK, MoveTo, Past
    <2> QED
      BY <2>1, <2>2 DEF PipeInv, RefsExact, IsOpen
  <1>4. NoUseAfterFree'
    <2> SUFFICES ASSUME NoEnds PROVE (\A q \in Procs : at'[q] = "closed") /\ lock' = None
      BY DEF NoUseAfterFree
    <2>1. ASSUME NEW q \in Procs, q # p PROVE at[q] = "closed"
      <3>1. ~IsOpen(End(q))
        BY DEF NoEnds, IsOpen
      <3>2. at[q] \in Past
        BY <3>1, EndIsOpen
      <3>3. at[q] # "pipeclose"
        BY <3>1 DEF PipeInv, RefsExact
      <3> QED
        BY <2>1, <3>2, <3>3, OneInside DEF Past
    <2> QED
      BY <2>1 DEF PipeInv, PipeTypeOK, MoveTo
  <1>5. NoMissedWakeup'
    BY DEF PipeInv, PipeTypeOK, NoMissedWakeup, Waits, ReaderWaits, WriterWaits, GaveUpKilled,
       Empty, Full, Procs, MoveTo, procVars
  <1> QED
    BY <1>1, <1>2, <1>3, <1>4, <1>5 DEF PipeInv

(* kill() may wake a sleeper. *)
LEMMA KillKeeps ==
  ASSUME PipeInv, NEW p \in Procs, Kill(p)
  PROVE  PipeInv'
  <1> USE DEF Kill, pipeVars
  <1>1. PipeTypeOK'
    BY DEF PipeInv, PipeTypeOK
  <1>2. Locks' /\ InCall' /\ NoUseAfterFree'
    BY DEF PipeInv, Locks, InCall, NoUseAfterFree
  <1>3. RefsExact'
    <2>1. ASSUME NEW e PROVE Holders(e)' = Holders(e)
      BY DEF Holders
    <2> QED
      BY <2>1 DEF PipeInv, RefsExact, IsOpen
  <1>4. NoMissedWakeup'
    BY DEF PipeInv, PipeTypeOK, NoMissedWakeup, Waits, ReaderWaits, WriterWaits, GaveUpKilled,
       Empty, Full, Procs
  <1> QED
    BY <1>1, <1>2, <1>3, <1>4 DEF PipeInv

(* pipealloc: everybody holds its end. *)
LEMMA InitIInv == PipeInit => PipeInv
  <1> SUFFICES ASSUME PipeInit PROVE PipeInv
    OBVIOUS
  <1> USE DEF PipeInit
  <1>1. Holders("read") = Readers /\ Holders("write") = Writers
    BY DEF Holders, End, Past, Procs
  <1>2. /\ Cardinality(Readers) \in 0..Cardinality(Procs)
        /\ Cardinality(Writers) \in 0..Cardinality(Procs)
    <2>1. IsFiniteSet(Procs)
      BY FS_Union DEF Procs
    <2>2. Readers \subseteq Procs /\ Writers \subseteq Procs
      BY DEF Procs
    <2> QED
      BY <2>1, <2>2, FS_Subset, FS_CardinalityType
  <1>3. refs \in [{"read", "write"} -> 0..Cardinality(Procs)]
    BY <1>2
  <1>4. PipeTypeOK
    <2>1. nread \in 0..(Wrap - 1) /\ nwrite \in 0..(Wrap - 1)
      OBVIOUS
    <2>2. /\ i \in [Procs -> 0..(WriteLen + ReadLen)]
          /\ calls \in [Procs -> 0..Calls]
      OBVIOUS
    <2>3. /\ at \in [Procs -> PipeLabels]
          /\ state \in [Procs -> {"RUNNABLE", "SLEEPING"}]
          /\ chan \in [Procs -> {None, "nread", "nwrite"}]
          /\ killed \in [Procs -> BOOLEAN]
          /\ data \in [0..(PIPESIZE - 1) -> Bytes \cup {None}]
      BY DEF PipeLabels
    <2> QED
      BY <1>3, <2>1, <2>2, <2>3 DEF PipeTypeOK
  <1>5. Locks /\ InCall /\ NoMissedWakeup /\ NoUseAfterFree
    BY DEF Locks, InCall, NoMissedWakeup, Waits, NoUseAfterFree, Procs
  <1>6. RefsExact
    BY <1>1 DEF RefsExact, IsOpen, Past
  <1> QED
    BY <1>4, <1>5, <1>6 DEF PipeInv

LEMMA StutterKeeps ==
  ASSUME PipeInv, UNCHANGED allVars
  PROVE  PipeInv'
  BY DEF allVars, procVars, pipeVars, PipeInv, PipeTypeOK, Locks, InCall, RefsExact, Holders, IsOpen,
         NoMissedWakeup, Waits, ReaderWaits, WriterWaits, GaveUpKilled, Empty, Full, NoUseAfterFree

(* For any number of readers and writers and any size of the ring: no      *)
(* wakeup of sleep() and wakeup() is missed, and pipeclose frees the page  *)
(* only when every process has closed its end.                             *)
THEOREM Invariance == PipeSystem => []PipeInv
  <1>1. PipeInv /\ [PipeNext]_allVars => PipeInv'
    <2> SUFFICES ASSUME PipeInv, [PipeNext]_allVars PROVE PipeInv'
      OBVIOUS
    <2>1. ASSUME NEW p \in Procs, Sleeping(p) PROVE PipeInv'
      BY <2>1, SleepAcquireKeeps, SleepReleaseKeeps, SleepSchedKeeps, SleepReturnKeeps,
         SleepRelockKeeps DEF Sleeping
    <2>2. ASSUME NEW p \in Procs, Kernel(p) PROVE PipeInv'
      BY <2>1, <2>2, EnterKeeps, ReturnKeeps, ExitKilledKeeps, WriteByteKeeps,
         WriteFailsKeeps,
         WriteWaitKeeps, WriteDoneKeeps, ReadFailsKeeps, ReadWaitKeeps, ReadReadyKeeps,
         ReadByteKeeps, ReadDoneKeeps, ReleaseKeeps, FileCloseKeeps, CloseLockKeeps,
         CloseWakeKeeps, CloseReleaseKeeps DEF Kernel
    <2>3. ASSUME NEW p \in Procs, User(p) PROVE PipeInv'
      BY <2>3, UserCallKeeps, UserCloseKeeps DEF User
    <2> QED
      BY <2>2, <2>3, KillKeeps, StutterKeeps DEF PipeNext
  <1> QED
    BY <1>1, InitIInv, PTL DEF PipeSystem

-----------------------------------------------------------------------------
(* The ring implements the FIFO. *)
(* A turn of the counters is a number of turns of the ring. *)
LEMMA RingTurn ==
  ASSUME NEW a \in Int
  PROVE  (a - Wrap) % PIPESIZE = a % PIPESIZE
  <1> DEFINE k == -(Wrap \div PIPESIZE)
  <1>1. Wrap = (Wrap \div PIPESIZE) * PIPESIZE /\ Wrap \div PIPESIZE \in Int
    BY ModRange
  <1>2. k \in Int /\ a - Wrap = a + k * PIPESIZE
    BY <1>1
  <1> HIDE DEF k
  <1>3. (a + k * PIPESIZE) % PIPESIZE = a % PIPESIZE
    BY <1>2, ModShift
  <1> QED
    BY <1>2, <1>3

-----------------------------------------------------------------------------
(* What the counters say about the number of bytes. *)
LEMMA CountIs ==
  ASSUME NEW n \in 0..(Wrap - 1), NEW w \in 0..(Wrap - 1)
  PROVE  /\ (w - n) % Wrap = IF w >= n THEN w - n ELSE w - n + Wrap
         /\ (w + 1) % Wrap = IF w + 1 = Wrap THEN 0 ELSE w + 1
         /\ (n + PIPESIZE) % Wrap = IF n + PIPESIZE < Wrap THEN n + PIPESIZE
                                                          ELSE n + PIPESIZE - Wrap
  <1> DEFINE In(a) == a \in (-Wrap)..(2 * Wrap - 1)
             Turned(a) == IF a < 0 THEN a + Wrap ELSE IF a < Wrap THEN a ELSE a - Wrap
  <1>1. ASSUME NEW a, In(a) PROVE a % Wrap = Turned(a)
    <2>1. Wrap \in Nat \ {0}
      OBVIOUS
    <2>2. ASSUME NEW m \in Nat \ {0}, NEW x \in (-m)..(2 * m - 1)
          PROVE  x % m = IF x < 0 THEN x + m ELSE IF x < m THEN x ELSE x - m
      BY ModTurn
    <2> QED
      BY <1>1, <2>1, <2>2
  <1>2. In(w - n) /\ In(w + 1) /\ In(n + PIPESIZE)
    OBVIOUS
  <1> HIDE DEF In, Turned
  <1>3. /\ (w - n) % Wrap = Turned(w - n)
        /\ (w + 1) % Wrap = Turned(w + 1)
        /\ (n + PIPESIZE) % Wrap = Turned(n + PIPESIZE)
    BY <1>1, <1>2
  <1> QED
    BY <1>3 DEF Turned

(* pipewrite appends its byte. *)
LEMMA WriteAppends ==
  ASSUME PipeInv, Bounded, NEW p \in Procs, WriteByte(p)
  PROVE  /\ Bounded'
         /\ Fifo!Put(<<p, calls[p], i[p]>>)
         /\ <<p, calls[p], i[p]>> \in Bytes
  <1> DEFINE b == <<p, calls[p], i[p]>>
             n == nread
             w == nwrite
             c == held
  <1>1. /\ n \in 0..(Wrap - 1) /\ w \in 0..(Wrap - 1)
        /\ data \in [0..(PIPESIZE - 1) -> Bytes \cup {None}]
    BY DEF PipeInv, PipeTypeOK
  <1>2. /\ data' = [data EXCEPT ![w % PIPESIZE] = b]
        /\ nwrite' = (w + 1) % Wrap
        /\ w # (n + PIPESIZE) % Wrap
        /\ UNCHANGED <<nread, readopen, writeopen>>
    BY DEF WriteByte, Full
  <1>3. b \in Bytes
    BY DEF PipeInv, PipeTypeOK, InCall, WriteByte, Bytes
  <1>4. writeopen
    <2>1. IsOpen(End(p))
      BY EndIsOpen DEF WriteByte, Past
    <2>2. p \notin Readers
      BY DEF WriteByte
    <2> QED
      BY <2>1, <2>2 DEF IsOpen, End
  <1>5. c = IF w >= n THEN w - n ELSE w - n + Wrap
    BY <1>1, CountIs DEF held
  <1>6. c \in 0..(PIPESIZE - 1)
    <2>1. w # IF n + PIPESIZE < Wrap THEN n + PIPESIZE ELSE n + PIPESIZE - Wrap
      BY <1>1, <1>2, CountIs
    <2> QED
      BY <1>1, <1>5, <2>1 DEF Bounded
  <1>7. nwrite' \in 0..(Wrap - 1) /\ nwrite' = IF w + 1 = Wrap THEN 0 ELSE w + 1
    <2>1. nwrite' = IF w + 1 = Wrap THEN 0 ELSE w + 1
      BY <1>1, <1>2, CountIs
    <2> QED
      BY <1>1, <2>1
  <1>8. held' = c + 1
    <2>1. held' = (nwrite' - n) % Wrap
      BY <1>2 DEF held
    <2>2. held' = IF nwrite' >= n THEN nwrite' - n ELSE nwrite' - n + Wrap
      BY <1>1, <1>7, <2>1, CountIs
    <2> QED
      BY <1>1, <1>5, <1>6, <1>7, <2>2
  <1>9. w % PIPESIZE = (n + c) % PIPESIZE
    <2> DEFINE a == n + c
    <2>1. a \in Int /\ (w = a \/ w = a - Wrap)
      BY <1>1, <1>5, <1>6
    <2> HIDE DEF a
    <2>2. (a - Wrap) % PIPESIZE = a % PIPESIZE
      BY <2>1, RingTurn
    <2>3. w % PIPESIZE = a % PIPESIZE
      BY <2>1, <2>2
    <2> QED
      BY <2>3 DEF a
  <1>10. ASSUME NEW k \in 1..c
         PROVE  /\ (n + k - 1) % PIPESIZE # w % PIPESIZE
                /\ (n + k - 1) % PIPESIZE \in 0..(PIPESIZE - 1)
    <2> DEFINE a == n + k - 1
               b2 == n + c
    <2>1. a \in Int /\ b2 \in Int /\ a < b2 /\ b2 < a + PIPESIZE
      BY <1>1, <1>6
    <2>2. w % PIPESIZE = b2 % PIPESIZE
      BY <1>9
    <2> HIDE DEF a, b2
    <2>3. a % PIPESIZE # b2 % PIPESIZE
      BY <2>1, ModDistinct
    <2>4. a % PIPESIZE \in 0..(PIPESIZE - 1)
      BY <2>1, ModRange
    <2>5. a % PIPESIZE # w % PIPESIZE
      BY <2>2, <2>3
    <2> QED
      BY <2>4, <2>5 DEF a
  <1>11. queue' = Append(queue, b)
    <2>1. queue' = [k \in 1..(c + 1) |-> data'[(n + k - 1) % PIPESIZE]]
      BY <1>2, <1>8 DEF queue
    <2>2. ASSUME NEW k \in 1..c
          PROVE  data'[(n + k - 1) % PIPESIZE] = data[(n + k - 1) % PIPESIZE]
      BY <1>1, <1>2, <1>10
    <2>3. data'[(n + (c + 1) - 1) % PIPESIZE] = b
      <3>1. w % PIPESIZE \in 0..(PIPESIZE - 1) /\ n + (c + 1) - 1 = n + c
        BY <1>1, <1>6, ModRange
      <3> QED
        BY <1>1, <1>2, <1>9, <3>1
    <2>4. queue' = [k \in 1..(c + 1) |-> IF k = c + 1 THEN b ELSE data[(n + k - 1) % PIPESIZE]]
      BY <1>6, <2>1, <2>2, <2>3
    <2>5. queue = [k \in 1..c |-> data[(n + k - 1) % PIPESIZE]]
      BY DEF queue
    <2> HIDE DEF c, b, n
    <2> QED
      BY <1>6, <2>4, <2>5
  <1>12. Len(queue) = c
    BY <1>6 DEF queue
  <1> QED
    BY <1>2, <1>3, <1>4, <1>6, <1>8, <1>11, <1>12 DEF Fifo!Put, Bounded

(* piperead takes the oldest byte. *)
LEMMA ReadTakes ==
  ASSUME PipeInv, Bounded, NEW p \in Procs, ReadByte(p)
  PROVE  Bounded' /\ Fifo!Take
  <1> DEFINE n == nread
             w == nwrite
             c == held
  <1>1. n \in 0..(Wrap - 1) /\ w \in 0..(Wrap - 1)
    BY DEF PipeInv, PipeTypeOK
  <1>2. /\ nread' = (n + 1) % Wrap
        /\ n # w
        /\ UNCHANGED <<data, nwrite, readopen, writeopen>>
    BY DEF ReadByte, Empty
  <1>3. readopen
    <2>1. IsOpen(End(p)) /\ p \in Readers
      BY EndIsOpen DEF ReadByte, Past, PipeInv, InCall
    <2> QED
      BY <2>1 DEF IsOpen, End
  <1>4. c = IF w >= n THEN w - n ELSE w - n + Wrap
    BY <1>1, CountIs DEF held
  <1>5. c \in 1..PIPESIZE
    BY <1>1, <1>2, <1>4 DEF Bounded
  <1>6. nread' \in 0..(Wrap - 1) /\ nread' = IF n + 1 = Wrap THEN 0 ELSE n + 1
    BY <1>1, <1>2, CountIs
  <1>7. held' = c - 1
    <2>1. held' = (w - nread') % Wrap
      BY <1>2 DEF held
    <2>2. held' = IF w >= nread' THEN w - nread' ELSE w - nread' + Wrap
      BY <1>1, <1>6, <2>1, CountIs
    <2> QED
      BY <1>1, <1>2, <1>4, <1>5, <1>6, <2>2
  <1>8. ASSUME NEW k \in 1..(c - 1)
        PROVE  (nread' + k - 1) % PIPESIZE = (n + (k + 1) - 1) % PIPESIZE
    <2>1. CASE n + 1 = Wrap
      <3>1. nread' + k - 1 = (n + (k + 1) - 1) - Wrap /\ n + (k + 1) - 1 \in Int
        BY <1>1, <1>5, <1>6, <2>1
      <3> QED
        BY <3>1, RingTurn
    <2>2. CASE n + 1 # Wrap
      BY <1>1, <1>5, <1>6, <2>2
    <2> QED
      BY <2>1, <2>2
  <1>9. queue' = Tail(queue)
    <2>1. queue' = [k \in 1..(c - 1) |-> data[(nread' + k - 1) % PIPESIZE]]
      BY <1>2, <1>7 DEF queue
    <2>2. queue' = [k \in 1..(c - 1) |-> data[(n + (k + 1) - 1) % PIPESIZE]]
      BY <1>8, <2>1
    <2>3. queue = [k \in 1..c |-> data[(n + k - 1) % PIPESIZE]]
      BY DEF queue
    <2> HIDE DEF c, n
    <2> QED
      BY <1>5, <2>2, <2>3
  <1>10. queue # <<>>
    BY <1>5 DEF queue
  <1> QED
    BY <1>2, <1>3, <1>5, <1>7, <1>9, <1>10 DEF Fifo!Take, Bounded

(* pipeclose closes an end that was open. *)
LEMMA CloseCloses ==
  ASSUME PipeInv, Bounded, NEW p \in Procs, CloseLock(p)
  PROVE  Bounded' /\ Fifo!Close
  <1>1. at[p] = "pipeclose" /\ UNCHANGED <<data, nread, nwrite>>
    BY DEF CloseLock
  <1>2. IsOpen(End(p))
    BY <1>1 DEF PipeInv, RefsExact
  <1>3. queue' = queue /\ Bounded'
    BY <1>1 DEF queue, held, Bounded
  <1>4. CASE p \in Writers
    <2>1. writeopen /\ writeopen' = FALSE /\ readopen' = readopen
      BY <1>2, <1>4 DEF CloseLock, IsOpen, End
    <2> QED
      BY <1>3, <2>1 DEF Fifo!Close
  <1>5. CASE p \in Readers
    <2>1. readopen /\ readopen' = FALSE /\ writeopen' = writeopen
      BY <1>2, <1>5 DEF CloseLock, IsOpen, End
    <2> QED
      BY <1>3, <2>1 DEF Fifo!Close
  <1> QED
    BY <1>4, <1>5 DEF Procs

(* Every other step leaves the bytes and the ends alone. *)
LEMMA OthersStutter ==
  ASSUME Bounded, UNCHANGED <<data, nread, nwrite, readopen, writeopen>>
  PROVE  Bounded' /\ UNCHANGED Fifo!absVars
  BY DEF Bounded, held, queue, Fifo!absVars

(* A pipe is a FIFO of at most PIPESIZE bytes: pipewrite appends, piperead *)
(* takes the oldest byte, pipeclose closes an end, and nothing else        *)
(* touches what is in the pipe.                                            *)
THEOREM Refinement == PipeSystem => FifoSpec
  <1>1. PipeInit => Bounded /\ Fifo!AInit
    <2> SUFFICES ASSUME PipeInit PROVE Bounded /\ Fifo!AInit
      OBVIOUS
    <2>1. nread = 0 /\ nwrite = 0 /\ readopen = TRUE /\ writeopen = TRUE
      BY DEF PipeInit
    <2>2. (0 - 0) % Wrap = 0
      BY CountIs
    <2>3. held = 0
      BY <2>1, <2>2 DEF held
    <2>4. queue = <<>>
      BY <2>3 DEF queue
    <2> QED
      BY <2>1, <2>3, <2>4 DEF Fifo!AInit, Bounded
  <1>2. PipeInv /\ Bounded /\ [PipeNext]_allVars => Bounded' /\ [Fifo!ANext]_(Fifo!absVars)
    <2> SUFFICES ASSUME PipeInv, Bounded, [PipeNext]_allVars
                 PROVE  Bounded' /\ [Fifo!ANext]_(Fifo!absVars)
      OBVIOUS
    <2>1. ASSUME NEW p \in Procs, WriteByte(p) PROVE Bounded' /\ Fifo!ANext
      BY <2>1, WriteAppends DEF Fifo!ANext
    <2>2. ASSUME NEW p \in Procs, ReadByte(p) PROVE Bounded' /\ Fifo!ANext
      BY <2>2, ReadTakes DEF Fifo!ANext
    <2>3. ASSUME NEW p \in Procs, CloseLock(p) PROVE Bounded' /\ Fifo!ANext
      BY <2>3, CloseCloses DEF Fifo!ANext
    <2>4. ASSUME NEW p \in Procs, Sleeping(p)
          PROVE  UNCHANGED <<data, nread, nwrite, readopen, writeopen>>
      BY <2>4 DEF Sleeping, SleepAcquire, SleepRelease, SleepSched, SleepReturn,
         SleepRelock, pipeVars
    <2>5. ASSUME NEW p \in Procs, Kernel(p), ~WriteByte(p), ~ReadByte(p), ~CloseLock(p)
          PROVE  UNCHANGED <<data, nread, nwrite, readopen, writeopen>>
      BY <2>4, <2>5 DEF Kernel, Enter, Return, ExitKilled, WriteFails, WriteWait, WriteDone,
         ReadFails, ReadWait, ReadReady, ReadDone, Release, FileClose, CloseWake, CloseRelease, pipeVars
    <2>6. ASSUME NEW p \in Procs, User(p) \/ Kill(p)
          PROVE  UNCHANGED <<data, nread, nwrite, readopen, writeopen>>
      BY <2>6 DEF User, UserCall, UserClose, Kill, pipeVars
    <2>7. CASE UNCHANGED allVars
      BY <2>7, OthersStutter DEF allVars, pipeVars
    <2> QED
      BY <2>1, <2>2, <2>3, <2>5, <2>6, <2>7, OthersStutter DEF PipeNext
  <1> QED
    BY <1>1, <1>2, Invariance, PTL DEF PipeSystem, FifoSpec, Fifo!ASpec
=============================================================================
