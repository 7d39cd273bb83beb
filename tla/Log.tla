-------------------------------- MODULE Log --------------------------------
(***************************************************************************)
(* The xv6 file-system log (log.c) with crashes.  Concurrent system calls  *)
(* bracket their writes with begin_op and end_op; the last one out commits *)
(* the group: log blocks, header, home blocks, empty header, one disk      *)
(* block per step.  The machine may crash between any two steps, recovery  *)
(* included, and a kernel panic is a crash.  A block's content is the      *)
(* number of the call that wrote it.  Blocks are numbered from the start   *)
(* of the log: 0 is its header, nlog the first block after it, which is an *)
(* inode block.  Waiting on &log is a wait set: that sleep and wakeup lose *)
(* no wakeup is checked in Pipe.                                           *)
(***************************************************************************)
EXTENDS Integers, Sequences, FiniteSets, SequencesExt

CONSTANTS Procs,
          Blocks,        \* disk blocks outside the log that calls write
          MAXOPBLOCKS,   \* most blocks a call writes
          LOGSIZE,       \* param.h
          nlog,          \* superblock: blocks of the log, the header included
          MaxOps,        \* bound: calls made
          MaxCrashes     \* bound: crashes

ASSUME SetsAssumption == IsFiniteSet(Procs) /\ IsFiniteSet(Blocks)
ASSUME LayoutAssumption == /\ Blocks \subseteq Nat /\ \A b \in Blocks : b >= nlog
                           /\ nlog..LOGSIZE \subseteq Blocks
ASSUME SizesAssumption == /\ MAXOPBLOCKS \in Nat \ {0} /\ MaxOps \in Nat
                          /\ LOGSIZE \in Nat /\ MAXOPBLOCKS <= LOGSIZE
                          /\ nlog \in Nat \ {0}
                          /\ MaxCrashes \in Nat

VARIABLES home, logDisk, header,   \* the disk: home blocks, log blocks, header
          cache, dirty,            \* the buffer cache; blocks with B_DIRTY
          lh,                      \* log.lh: the block numbers logged
          outstanding, committing, \* log
          tail,                    \* loop index of the committer or of recovery
          pc,                      \* of each process
          wrote, op,               \* blocks the call has written; its number
          mode,                    \* up, panicked, boot, recover
          ops, crashes

disk == <<home, logDisk, header>>
logState == <<lh, outstanding, committing>>
vars == <<disk, cache, dirty, logState, tail, pc, wrote, op, mode, ops, crashes>>

Clean == [b \in Blocks |-> 0]

Init == /\ home = Clean /\ logDisk = [k \in 1..(nlog - 1) |-> 0] /\ header = <<>>
        /\ cache = Clean /\ dirty = {}
        /\ lh = <<>> /\ outstanding = 0 /\ committing = FALSE
        /\ tail = 1
        /\ pc = [p \in Procs |-> "idle"]
        /\ wrote = [p \in Procs |-> {}] /\ op = [p \in Procs |-> 0]
        /\ mode = "up" /\ ops = 0 /\ crashes = 0

Goto(p, label) == pc' = [pc EXCEPT ![p] = label]

(* Nobody is woken. *)
AwakeMutant == pc

(* wakeup(&log). *)
Awake == [p \in Procs |-> IF pc[p] = "asleep" THEN "begin" ELSE pc[p]]

-----------------------------------------------------------------------------
(* begin_op does not wait for a commit to end. *)
MayBeginMutant == Len(lh) + (outstanding + 1) * MAXOPBLOCKS <= LOGSIZE

MayBegin == ~committing /\ Len(lh) + (outstanding + 1) * MAXOPBLOCKS <= LOGSIZE

Call(p) == /\ mode = "up" /\ pc[p] = "idle" /\ ops < MaxOps
           /\ ops' = ops + 1
           /\ op' = [op EXCEPT ![p] = ops + 1]
           /\ wrote' = [wrote EXCEPT ![p] = {}]
           /\ Goto(p, "begin")
           /\ UNCHANGED <<disk, cache, dirty, logState, tail, mode, crashes>>

BeginOp(p) == /\ mode = "up" /\ pc[p] = "begin" /\ MayBegin
              /\ outstanding' = outstanding + 1
              /\ Goto(p, "in")
              /\ UNCHANGED <<disk, cache, dirty, lh, committing, tail, wrote, op, mode, ops, crashes>>

BeginSleep(p) == /\ mode = "up" /\ pc[p] = "begin" /\ ~MayBegin
                 /\ Goto(p, "asleep")
                 /\ UNCHANGED <<disk, cache, dirty, logState, tail, wrote, op, mode, ops, crashes>>

-----------------------------------------------------------------------------
(* log_write tests the size before it takes the lock, so that callers who  *)
(* pass together may log more than nlog - 1 blocks.  A call logs nothing   *)
(* once it has written MAXOPBLOCKS blocks.                                 *)
TooBig == Len(lh) >= LOGSIZE \/ Len(lh) >= nlog - 1

WriteCheck(p) == /\ mode = "up" /\ pc[p] = "in"
                 /\ Cardinality(wrote[p]) < MAXOPBLOCKS
                 /\ IF TooBig THEN mode' = "panicked" /\ UNCHANGED pc
                              ELSE Goto(p, "checked") /\ UNCHANGED mode
                 /\ UNCHANGED <<disk, cache, dirty, logState, tail, wrote, op, ops, crashes>>

(* The call changes a buffer and log_write records its block, once. *)
Write(p, b) == /\ mode = "up" /\ pc[p] = "checked"
               /\ cache' = [cache EXCEPT ![b] = op[p]]
               /\ lh' = IF Contains(lh, b) THEN lh ELSE Append(lh, b)
               /\ dirty' = dirty \cup {b}
               /\ wrote' = [wrote EXCEPT ![p] = @ \cup {b}]
               /\ Goto(p, "in")
               /\ UNCHANGED <<disk, outstanding, committing, tail, op, mode, ops, crashes>>

-----------------------------------------------------------------------------
(* end_op: the last call commits, the others wake who waits for space; *)
(* a commit in progress would be a panic.                              *)
EndOp(p) ==
    /\ mode = "up" /\ pc[p] = "in"
    /\ outstanding' = outstanding - 1
    /\ mode' = IF committing THEN "panicked" ELSE "up"
    /\ IF outstanding = 1
       THEN committing' = TRUE /\ tail' = 1
            /\ Goto(p, IF lh = <<>> THEN "committed" ELSE "log")
       ELSE pc' = [Awake EXCEPT ![p] = "idle"] /\ UNCHANGED <<committing, tail>>
    /\ UNCHANGED <<disk, cache, dirty, lh, wrote, op, ops, crashes>>

(* The blocks of the log as bread returns them.  Block k = nlog and those  *)
(* after it are not the log's: they hold inodes, and calls write them too. *)
LogBlock(k) == IF k < nlog THEN logDisk[k] ELSE cache[k]

(* write_log: one block from the cache to log.start + tail, on the disk at *)
(* once, and over the first inode block when the log is overrun.           *)
WriteLog(p) == /\ mode = "up" /\ pc[p] = "log" /\ tail <= Len(lh)
               /\ IF tail < nlog
                  THEN /\ logDisk' = [logDisk EXCEPT ![tail] = cache[lh[tail]]]
                       /\ UNCHANGED <<home, cache, dirty>>
                  ELSE /\ home' = [home EXCEPT ![tail] = cache[lh[tail]]]
                       /\ cache' = [cache EXCEPT ![tail] = cache[lh[tail]]]
                       /\ dirty' = dirty \ {tail}
                       /\ UNCHANGED logDisk
               /\ tail' = tail + 1
               /\ UNCHANGED <<header, logState, pc, wrote, op, mode, ops, crashes>>

(* write_head: the header is one disk block, the real commit. *)
WriteHead(p) == /\ mode = "up" /\ pc[p] = "log" /\ tail > Len(lh)
                /\ header' = lh
                /\ tail' = 1
                /\ Goto(p, "install")
                /\ UNCHANGED <<home, logDisk, cache, dirty, logState, wrote, op, mode, ops, crashes>>

(* install_trans leaves the last block out. *)
InstalledMutant == tail >= Len(lh)

Installed == tail > Len(lh)

(* install_trans: one block from the log to its home, and clean again. *)
Install(p) == /\ mode = "up" /\ pc[p] = "install" /\ tail <= Len(lh)
              /\ home' = [home EXCEPT ![lh[tail]] = LogBlock(tail)]
              /\ cache' = [cache EXCEPT ![lh[tail]] = LogBlock(tail)]
              /\ dirty' = dirty \ {lh[tail]}
              /\ tail' = tail + 1
              /\ UNCHANGED <<logDisk, header, logState, pc, wrote, op, mode, ops, crashes>>

(* The transaction is erased: an empty header. *)
Erase(p) == /\ mode = "up" /\ pc[p] = "install" /\ Installed
            /\ lh' = <<>>
            /\ header' = <<>>
            /\ Goto(p, "committed")
            /\ UNCHANGED <<home, logDisk, cache, dirty, outstanding, committing, tail, wrote, op, mode, ops, crashes>>

Committed(p) == /\ mode = "up" /\ pc[p] = "committed"
                /\ committing' = FALSE
                /\ pc' = [Awake EXCEPT ![p] = "idle"]
                /\ UNCHANGED <<disk, cache, dirty, lh, outstanding, tail, wrote, op, mode, ops, crashes>>

-----------------------------------------------------------------------------
(* Power fails, or the kernel panicked: memory is lost, the system boots. *)
Crash == /\ crashes < MaxCrashes
         /\ crashes' = crashes + 1
         /\ mode' = "boot"
         /\ cache' = home /\ dirty' = {}
         /\ lh' = <<>> /\ outstanding' = 0 /\ committing' = FALSE
         /\ tail' = 1
         /\ pc' = [p \in Procs |-> "idle"]
         /\ wrote' = [p \in Procs |-> {}] /\ op' = [p \in Procs |-> 0]
         /\ UNCHANGED <<disk, ops>>

(* recover_from_log: read_head. *)
ReadHead == /\ mode = "boot"
            /\ lh' = header
            /\ mode' = "recover"
            /\ UNCHANGED <<disk, cache, dirty, outstanding, committing, tail, pc, wrote, op, ops, crashes>>

(* recover_from_log: install_trans, a block at a time. *)
RecoverInstall == /\ mode = "recover" /\ tail <= Len(lh)
                  /\ home' = [home EXCEPT ![lh[tail]] = LogBlock(tail)]
                  /\ cache' = [cache EXCEPT ![lh[tail]] = LogBlock(tail)]
                  /\ tail' = tail + 1
                  /\ UNCHANGED <<logDisk, header, dirty, logState, pc, wrote, op, mode, ops, crashes>>

RecoverClear == /\ mode = "recover" /\ Installed
                /\ lh' = <<>>
                /\ header' = <<>>
                /\ mode' = "up"
                /\ UNCHANGED <<home, logDisk, cache, dirty, outstanding, committing, tail, pc, wrote, op, ops, crashes>>

Recovery == ReadHead \/ RecoverInstall \/ RecoverClear

Step(p) == \/ BeginOp(p) \/ BeginSleep(p) \/ WriteCheck(p) \/ EndOp(p)
           \/ WriteLog(p) \/ WriteHead(p) \/ Install(p) \/ Erase(p) \/ Committed(p)
           \/ \E b \in Blocks : Write(p, b)

Next == (\E p \in Procs : Call(p) \/ Step(p)) \/ Crash \/ Recovery

Spec == Init /\ [][Next]_vars

(* The log's lock is granted, a reboot recovers, and a call, which may log *)
(* a block more than once, does so only finitely often.                    *)
FairSpec == /\ Spec /\ WF_vars(Recovery)
            /\ \A p \in Procs : WF_vars(Step(p)) /\ SF_vars(EndOp(p))

-----------------------------------------------------------------------------
Values == 0..MaxOps

TypeOK == /\ home \in [Blocks -> Values] /\ cache \in [Blocks -> Values]
          /\ logDisk \in [1..(nlog - 1) -> Values]
          /\ header \in Seq(Blocks) /\ lh \in Seq(Blocks)
          /\ Len(header) <= LOGSIZE
          /\ dirty \subseteq Blocks
          /\ outstanding \in 0..Cardinality(Procs) /\ committing \in BOOLEAN
          /\ tail \in 1..(LOGSIZE + 1)
          /\ pc \in [Procs -> {"idle", "begin", "asleep", "in", "checked", "log",
                               "install", "committed"}]
          /\ wrote \in [Procs -> SUBSET Blocks] /\ op \in [Procs -> Values]
          /\ mode \in {"up", "panicked", "boot", "recover"}
          /\ ops \in Values /\ crashes \in 0..MaxCrashes

(* What the disk would hold after a recovery. *)
DiskBlock(k) == IF k < nlog THEN logDisk[k] ELSE home[k]
recovered == [b \in Blocks |-> IF Contains(header, b)
                               THEN DiskBlock(CHOOSE k \in DOMAIN header : header[k] = b)
                               ELSE home[b]]

(* When end_op has returned in every call, what they wrote is durable. *)
DurableWhenQuiet == mode = "up" /\ outstanding = 0 /\ ~committing => recovered = cache

(* The calls between begin_op and end_op, and the process that commits. *)
Inside == {p \in Procs : pc[p] \in {"in", "checked"}}
Committing(p) == pc[p] \in {"log", "install", "committed"}

(* No call is in progress during a commit, which is done without a lock, *)
(* and nobody else commits.                                              *)
CommitAlone ==
    /\ outstanding = Cardinality(Inside)
    /\ committing => outstanding = 0
    /\ \A p \in Procs : Committing(p) =>
         committing /\ \A q \in Procs : Committing(q) => q = p
    /\ committing => \E p \in Procs : Committing(p)

(* Who waits in begin_op is waiting for somebody. *)
NoLostSleeper == (\E p \in Procs : pc[p] = "asleep") => committing \/ outstanding > 0

(* A call waiting in begin_op gets in, or the power fails. *)
BeginReturns == \A p \in Procs : pc[p] = "begin" ~> pc[p] \in {"in", "idle"}

(* The blocks as calls see them; a crash takes effect at once. *)
Booting == mode \in {"boot", "recover"}
seen == IF Booting THEN recovered ELSE cache

(* Groups of calls commit atomically across crashes. *)
Abs == INSTANCE LogSpec WITH mem <- seen, durable <- recovered, active <- outstanding
AbsSpec == Abs!ASpec

-----------------------------------------------------------------------------
Distinct(s) == \A j, k \in 1..Len(s) : s[j] = s[k] => j = k

(* A call that begin_op let in was kept waiting for as long as it `might   *)
(* exhaust log space': log_write does not panic in it.                     *)
AdmittedNeverPanics == mode # "panicked"

(* The group has no more blocks than the log on the disk has room for. *)
Fits == Len(lh) < nlog /\ Len(header) < nlog

(* The space that begin_op reserves, counted in LOGSIZE: a call may still  *)
(* log as many blocks as it has not written, and with all of them          *)
(* log.lh.block[] does not overflow.                                       *)
Reserved == {r \in Inside \X (1..MAXOPBLOCKS) : r[2] > Cardinality(wrote[r[1]])}
LogFits ==
    /\ Distinct(lh) /\ Distinct(header)
    /\ Len(lh) + Cardinality(Reserved) <= LOGSIZE
    /\ \A p \in Inside : /\ \A b \in wrote[p] : Contains(lh, b)
                         /\ Cardinality(wrote[p]) <= MAXOPBLOCKS
                         /\ pc[p] = "checked" => Cardinality(wrote[p]) < MAXOPBLOCKS
    /\ \A p \in Procs : pc[p] \in {"begin", "asleep"} => wrote[p] = {}

(* With a log of LOGSIZE data blocks, as param.h has it, that is enough:   *)
(* nothing is written past the log's end and log_write does not panic.     *)
Roomy == nlog > LOGSIZE => Fits /\ AdmittedNeverPanics

(* What the group is in each phase: in the header only while it is being   *)
(* installed, gone when nobody is inside and nobody commits.  Recovery     *)
(* alone is active.                                                        *)
Phases ==
    /\ ~Booting =>
         /\ (\A p \in Procs : pc[p] # "install") => header = <<>>
         /\ Inside = {} /\ (\A p \in Procs : pc[p] \notin {"log", "install"}) => lh = <<>>
         /\ \A p \in Procs : /\ pc[p] \in {"log", "install"} => tail <= Len(lh) + 1
                             /\ pc[p] = "install" => header = lh
    /\ Booting =>
         /\ ~committing /\ \A p \in Procs : pc[p] = "idle"
         /\ mode = "boot" => lh = <<>> /\ tail = 1
         /\ mode = "recover" => lh = header /\ tail <= Len(lh) + 1

(* Where the contents of the logged blocks are as long as the group fits:  *)
(* in the cache until the header is on disk, then in the log and, as far   *)
(* as install_trans has come, in their homes.                              *)
Contents ==
    /\ ~Booting =>
         /\ \A b \in Blocks : ~Contains(lh, b) => cache[b] = home[b]
         /\ \A p \in Procs :
              /\ pc[p] = "log" => \A k \in 1..(tail - 1) : logDisk[k] = cache[lh[k]]
              /\ pc[p] = "install" =>
                   /\ \A k \in 1..Len(lh) : logDisk[k] = cache[lh[k]]
                   /\ \A k \in 1..(tail - 1) : home[lh[k]] = cache[lh[k]]
    /\ Booting => cache = home
    /\ mode = "recover" => \A k \in 1..(tail - 1) : home[lh[k]] = logDisk[k]

(* The inductive invariant, whatever the size of the log: the types;       *)
(* commit, which runs without log.lock, meets no call between begin_op and *)
(* end_op (CommitAlone); whoever sleeps in begin_op waits for somebody who *)
(* will wake it (NoLostSleeper); lh.block[] does not overflow (LogFits),   *)
(* nor does the log if it has LOGSIZE data blocks (Roomy).                 *)
IInv == TypeOK /\ CommitAlone /\ NoLostSleeper /\ LogFits /\ Phases /\ Roomy
=============================================================================
