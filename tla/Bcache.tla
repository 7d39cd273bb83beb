------------------------------- MODULE Bcache -------------------------------
(***************************************************************************)
(* The xv6 buffer cache (bio.c) over its sleep locks (sleeplock.c) and the *)
(* interrupt-driven disk queue (ide.c).  Processes read a block, perhaps   *)
(* change it and write it or leave it pinned for the log, and release it.  *)
(* A block's content is the number of the write that produced it.  A       *)
(* process asleep on a lock or a buffer is one whose guard is false: that  *)
(* sleep and wakeup lose no wakeup is checked in Pipe.  A process may hold *)
(* a buffer while it reads another: it has two uses of the cache, p stands *)
(* for a use, and a use moves only while the other one of its process is   *)
(* at rest.                                                                *)
(***************************************************************************)
EXTENDS Integers, Sequences, FiniteSets, SequencesExt

CONSTANTS Procs, Blocks, NBUF,
          LogBlocks, Indirect,   \* the blocks of the log, the indirect blocks of files
          MaxWrites,      \* bound: changes made to blocks
          ReadOutcomes,   \* results of idewait(1): {TRUE}, or also FALSE
          None

ASSUME NBUFAssumption == NBUF \in Nat \ {0} /\ MaxWrites \in Nat

Bufs == 1..NBUF

(* A struct buf pointer of a process: it has two of them at most. *)
Uses == Procs \X {1, 2}
Other(p) == <<p[1], 3 - p[2]>>

ASSUME ProcsAssumption == IsFiniteSet(Procs) /\ ReadOutcomes \subseteq BOOLEAN
ASSUME NoneAssumption == None \notin Uses \cup Blocks \cup Bufs

VARIABLES blockno, valid, dirty, refcnt, data,   \* struct buf, of each buffer
          owner,      \* the use that holds the buffer's sleep lock
          lru,        \* the list of buffers, most recently used first
          idequeue,   \* buffers with a disk request, the active one first
          disk,       \* the contents of the disk
          pc, want, buf,   \* of each use: where it is, its block, its buffer
          latest,     \* history: the last content given to each block
          writes, panicked

bufs == <<blockno, valid, dirty, refcnt, data>>
vars == <<bufs, owner, lru, idequeue, disk, pc, want, buf, latest, writes, panicked>>

(* binit: buffers of no block, in list order. *)
Init == /\ blockno = [b \in Bufs |-> None]
        /\ valid = [b \in Bufs |-> FALSE] /\ dirty = [b \in Bufs |-> FALSE]
        /\ refcnt = [b \in Bufs |-> 0] /\ data = [b \in Bufs |-> 0]
        /\ owner = [b \in Bufs |-> None]
        /\ lru = [k \in Bufs |-> NBUF + 1 - k]
        /\ idequeue = <<>>
        /\ disk = [n \in Blocks |-> 0] /\ latest = disk
        /\ pc = [p \in Uses |-> "idle"]
        /\ want = [p \in Uses |-> None] /\ buf = [p \in Uses |-> None]
        /\ writes = 0 /\ panicked = FALSE

Goto(p, label) == pc' = [pc EXCEPT ![p] = label]
Cached(n) == {b \in Bufs : blockno[b] = n}

Miss(n) == Cached(n) = {}

(* A buffer that log_write pinned counts as free. *)
FreeMutant == {b \in Bufs : refcnt[b] = 0}

Free == {b \in Bufs : refcnt[b] = 0 /\ ~dirty[b]}

(* The last free buffer in list order: the least recently used. *)
Victim == lru[Max({k \in Bufs : lru[k] \in Free})]

-----------------------------------------------------------------------------
(***************************************************************************)
(* What is read while a buffer is held: any block under a block of the log *)
(* (install_trans, write_log), and a bitmap or a new block under an        *)
(* indirect block (bmap, itrunc).                                          *)
(***************************************************************************)
Level(n) == IF n \in LogBlocks THEN 0 ELSE IF n \in Indirect THEN 1 ELSE 2

(* A second block is read under a first of any kind. *)
UnderMutant(p, n) == pc[Other(p)] = (IF p[2] = 1 THEN "idle" ELSE "use") /\ want[Other(p)] # n

(* The second is read under the first, a block of a lower level. *)
Under(p, n) == \/ p[2] = 1 /\ pc[Other(p)] = "idle"
               \/ p[2] = 2 /\ pc[Other(p)] = "use" /\ Level(want[Other(p)]) < Level(n)

AtRest(p) == pc[p] \in {"idle", "use", "modified"}

(* bget: the block is cached; a reference keeps it so. *)
BgetHit(p, n) == /\ pc[p] = "idle" /\ Cached(n) # {}
                 /\ LET b == CHOOSE x \in Cached(n) : TRUE
                    IN  /\ refcnt' = [refcnt EXCEPT ![b] = @ + 1]
                        /\ buf' = [buf EXCEPT ![p] = b]
                 /\ want' = [want EXCEPT ![p] = n]
                 /\ Goto(p, "lock")
                 /\ UNCHANGED <<blockno, valid, dirty, data, owner, lru, idequeue, disk, latest, writes, panicked>>

(* bget: recycle the least recently used free buffer. *)
BgetRecycle(p, n) == /\ pc[p] = "idle" /\ Miss(n) /\ Free # {}
                     /\ blockno' = [blockno EXCEPT ![Victim] = n]
                     /\ valid' = [valid EXCEPT ![Victim] = FALSE]
                     /\ refcnt' = [refcnt EXCEPT ![Victim] = 1]
                     /\ buf' = [buf EXCEPT ![p] = Victim]
                     /\ want' = [want EXCEPT ![p] = n]
                     /\ Goto(p, "lock")
                     /\ UNCHANGED <<dirty, data, owner, lru, idequeue, disk, latest, writes, panicked>>

(* bget: panic("bget: no buffers"). *)
BgetPanic(p, n) == /\ pc[p] = "idle" /\ Miss(n) /\ Free = {}
                   /\ panicked' = TRUE
                   /\ UNCHANGED <<bufs, owner, lru, idequeue, disk, pc, want, buf, latest, writes>>

(* The sleep lock taken without a test that it is free. *)
UnlockedMutant(b) == TRUE

Unlocked(b) == owner[b] = None

(* acquiresleep, and bread's test for a valid buffer. *)
AcquireSleep(p) == /\ pc[p] = "lock" /\ Unlocked(buf[p])
                   /\ owner' = [owner EXCEPT ![buf[p]] = p]
                   /\ Goto(p, IF valid[buf[p]] THEN "use" ELSE "submit")
                   /\ UNCHANGED <<bufs, lru, idequeue, disk, want, buf, latest, writes, panicked>>

(* iderw: append the request; the disk works on the head of the queue. *)
Iderw(p) == /\ pc[p] = "submit"
            /\ idequeue' = Append(idequeue, buf[p])
            /\ Goto(p, "wait")
            /\ UNCHANGED <<bufs, owner, lru, disk, want, buf, latest, writes, panicked>>

(* iderw returns once the buffer is valid and no longer dirty. *)
IdeDone(p) == /\ pc[p] = "wait"
              /\ valid[buf[p]] /\ ~dirty[buf[p]]
              /\ Goto(p, "use")
              /\ UNCHANGED <<bufs, owner, lru, idequeue, disk, want, buf, latest, writes, panicked>>

(***************************************************************************)
(* ideintr: the head of the queue is done.  A read that failed (~ok)       *)
(* leaves the data alone; the buffer is valid and clean in every case.     *)
(***************************************************************************)
IdeIntr(ok) == /\ idequeue # <<>>
               /\ LET b == Head(idequeue)
                  IN  /\ IF dirty[b]
                         THEN disk' = [disk EXCEPT ![blockno[b]] = data[b]] /\ UNCHANGED data
                         ELSE data' = [data EXCEPT ![b] = IF ok THEN disk[blockno[b]] ELSE @]
                              /\ UNCHANGED disk
                      /\ valid' = [valid EXCEPT ![b] = TRUE]
                      /\ dirty' = [dirty EXCEPT ![b] = FALSE]
               /\ idequeue' = Tail(idequeue)
               /\ UNCHANGED <<blockno, refcnt, owner, lru, pc, want, buf, latest, writes, panicked>>

-----------------------------------------------------------------------------
(* The holder changes the block; it must then write it or log it. *)
Modify(p) == /\ pc[p] = "use" /\ writes < MaxWrites
             /\ writes' = writes + 1
             /\ data' = [data EXCEPT ![buf[p]] = writes + 1]
             /\ latest' = [latest EXCEPT ![want[p]] = writes + 1]
             /\ Goto(p, "modified")
             /\ UNCHANGED <<blockno, valid, dirty, refcnt, owner, lru, idequeue, disk, want, buf, panicked>>

(* bwrite: after a change, or of a block that the log pinned. *)
Bwrite(p) == /\ pc[p] = "modified" \/ (pc[p] = "use" /\ dirty[buf[p]])
             /\ dirty' = [dirty EXCEPT ![buf[p]] = TRUE]
             /\ Goto(p, "submit")
             /\ UNCHANGED <<blockno, valid, refcnt, data, owner, lru, idequeue, disk, want, buf, latest, writes, panicked>>

(* log_write: pinned in the cache by B_DIRTY. *)
LogWrite(p) == /\ pc[p] = "modified"
               /\ dirty' = [dirty EXCEPT ![buf[p]] = TRUE]
               /\ Goto(p, "use")
               /\ UNCHANGED <<blockno, valid, refcnt, data, owner, lru, idequeue, disk, want, buf, latest, writes, panicked>>

(* brelse: releasesleep. *)
ReleaseSleep(p) == /\ pc[p] = "use"
                   /\ owner' = [owner EXCEPT ![buf[p]] = None]
                   /\ Goto(p, "unref")
                   /\ UNCHANGED <<bufs, lru, idequeue, disk, want, buf, latest, writes, panicked>>

ToFront(b) == LET at == CHOOSE k \in Bufs : lru[k] = b
              IN  [k \in Bufs |-> IF k = 1 THEN b ELSE IF k <= at THEN lru[k - 1] ELSE lru[k]]

(* brelse: drop the reference; the last one makes it most recently used. *)
Brelse(p) == /\ pc[p] = "unref"
             /\ refcnt' = [refcnt EXCEPT ![buf[p]] = @ - 1]
             /\ lru' = IF refcnt[buf[p]] > 1 THEN lru ELSE ToFront(buf[p])
             /\ buf' = [buf EXCEPT ![p] = None]
             /\ want' = [want EXCEPT ![p] = None]
             /\ Goto(p, "idle")
             /\ UNCHANGED <<blockno, valid, dirty, data, owner, idequeue, disk, latest, writes, panicked>>

Bread(p) == \E n \in Blocks : Under(p, n) /\ (BgetHit(p, n) \/ BgetRecycle(p, n) \/ BgetPanic(p, n))
Use(p) == Modify(p) \/ Bwrite(p) \/ LogWrite(p) \/ ReleaseSleep(p) \/ Brelse(p)
Step(p) == AtRest(Other(p)) /\ (AcquireSleep(p) \/ Iderw(p) \/ IdeDone(p) \/ Use(p))
Interrupt == \E ok \in ReadOutcomes : IdeIntr(ok)

Next == ~panicked /\ (Interrupt \/ \E p \in Uses : Bread(p) \/ Step(p))

Spec == Init /\ [][Next]_vars

(***************************************************************************)
(* The disk answers.  A free sleep lock is not denied for ever, and who    *)
(* holds a buffer comes to release it, the loops that read others under it *)
(* being finite: each use is strongly fair.                                *)
(***************************************************************************)
FairSpec == /\ Spec
            /\ WF_vars(~panicked /\ Interrupt)
            /\ \A p \in Uses : SF_vars(~panicked /\ Step(p))

-----------------------------------------------------------------------------
Labels == {"idle", "lock", "submit", "wait", "use", "modified", "unref"}
Contents == 0..MaxWrites

(* The buffers' list has all of them. *)
TypeOK == /\ blockno \in [Bufs -> Blocks \cup {None}]
          /\ valid \in [Bufs -> BOOLEAN] /\ dirty \in [Bufs -> BOOLEAN]
          /\ refcnt \in [Bufs -> 0..Cardinality(Uses)]
          /\ data \in [Bufs -> Contents]
          /\ disk \in [Blocks -> Contents] /\ latest \in [Blocks -> Contents]
          /\ owner \in [Bufs -> Uses \cup {None}]
          /\ lru \in [Bufs -> Bufs] /\ \A b \in Bufs : \E k \in Bufs : lru[k] = b
          /\ idequeue \in Seq(Bufs)
          /\ pc \in [Uses -> Labels]
          /\ want \in [Uses -> Blocks \cup {None}]
          /\ buf \in [Uses -> Bufs \cup {None}]
          /\ writes \in Contents /\ panicked \in BOOLEAN

(* No block is in two buffers. *)
OneBufferPerBlock == \A b, c \in Bufs : blockno[b] = blockno[c] => b = c \/ blockno[b] = None

(* A reference is held for every use that has     the buffer, and keeps it *)
(* on the block that bread asked for.                                      *)
Users(b) == {p \in Uses : buf[p] = b}
References ==
    /\ \A b \in Bufs : refcnt[b] = Cardinality(Users(b))
    /\ \A p \in Uses : IF pc[p] = "idle" THEN buf[p] = None
                        ELSE /\ buf[p] \in Bufs /\ want[p] \in Blocks
                             /\ blockno[buf[p]] = want[p]

(* The sleep lock is its owner's from bread to brelse. *)
Owns(p, b) == buf[p] = b /\ pc[p] \in {"submit", "wait", "use", "modified"}
SleepLocks == \A p \in Uses, b \in Bufs : owner[b] = p <=> Owns(p, b)

(* A request is queued once and answered once: who waits for the disk has  *)
(* its buffer in the queue, or served already.                             *)
Requested(b) == dirty[b] \/ ~valid[b]
Requests ==
    /\ \A j, k \in 1..Len(idequeue) : idequeue[j] = idequeue[k] => j = k
    /\ \A k \in 1..Len(idequeue) :
         /\ Requested(idequeue[k])
         /\ \E p \in Uses : pc[p] = "wait" /\ buf[p] = idequeue[k]
    /\ \A p \in Uses :
         /\ pc[p] = "submit" => Requested(buf[p])
         /\ pc[p] = "wait" /\ Requested(buf[p]) => Contains(idequeue, buf[p])
         /\ pc[p] \in {"use", "modified"} => valid[buf[p]]

(* What is where: on the disk, unless a holder changed it or it is dirty;  *)
(* then in the buffer; and in every valid buffer if no read fails.         *)
Modified(b) == \E p \in Uses : pc[p] = "modified" /\ buf[p] = b
Coherent ==
    \A b \in Bufs :
      /\ ~valid[b] => ~dirty[b]
      /\ blockno[b] = None => ~valid[b]
      /\ blockno[b] # None =>
           /\ ~dirty[b] /\ ~Modified(b) => disk[blockno[b]] = latest[blockno[b]]
           /\ dirty[b] \/ Modified(b) => data[b] = latest[blockno[b]]
           /\ valid[b] /\ FALSE \notin ReadOutcomes => data[b] = latest[blockno[b]]

(* bread returns the block it was asked for, with its latest content. *)
ReadsLatest == \A p \in Uses : pc[p] \in {"use", "modified"} =>
                 /\ blockno[buf[p]] = want[p]
                 /\ data[buf[p]] = latest[want[p]]

(* Nothing is evicted that the disk does not have: the cache loses no write. *)
NothingLost == \A n \in Blocks : (Cached(n) = {} => disk[n] = latest[n])

(* A bread that has its buffer returns, or the kernel panics. *)
BreadReturns == \A p \in Uses : pc[p] \in {"lock", "submit", "wait"} ~> (pc[p] = "use" \/ panicked)

(* The inductive invariant: the types; bget never gives a block two        *)
(* buffers, since references and sleep locks are exact; every request is   *)
(* answered once; and a block that bget recycles is on the disk            *)
(* (NothingLost), since the contents are where the flags say.              *)
IInv == /\ TypeOK /\ OneBufferPerBlock /\ References /\ SleepLocks /\ Requests
        /\ Coherent /\ NothingLost
=============================================================================
