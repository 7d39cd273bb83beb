---------------------------- MODULE BcacheProofs ----------------------------
(***************************************************************************)
(* The buffer cache with any number of buffers, processes and blocks: IInv *)
(* is inductive, whether or not the disk's reads succeed.                  *)
(***************************************************************************)
EXTENDS Bcache, FiniteSetTheorems, WellFoundedInduction, TLAPS

USE NBUFAssumption, NoneAssumption

(* A set of buffers has a last one in list order. *)
LEMMA MaxIn ==
  ASSUME NEW S \in SUBSET Bufs, S # {}
  PROVE  Max(S) \in S
  <1> DEFINE T == {NBUF - k : k \in S}
  <1>1. T \subseteq Nat /\ T # {} /\ \A k \in S : k \in Nat
    <2>1. ASSUME NEW k \in S PROVE k \in Nat /\ NBUF - k \in Nat
      BY DEF Bufs
    <2>2. PICK k \in S : TRUE
      OBVIOUS
    <2>3. NBUF - k \in T
      OBVIOUS
    <2> QED
      BY <2>1, <2>3
  <1>2. PICK x \in T : \A y \in T : ~(<<y, x>> \in OpToRel(<, Nat))
    BY <1>1, WFMin, NatLessThanWellFounded
  <1>3. PICK m \in S : x = NBUF - m
    OBVIOUS
  <1>4. ASSUME NEW k \in S PROVE k <= m
    <2>1. NBUF - k \in T
      OBVIOUS
    <2>2. ~(<<NBUF - k, x>> \in OpToRel(<, Nat)) /\ NBUF - k \in Nat /\ x \in Nat
      BY <1>1, <1>2, <2>1
    <2>3. ~(NBUF - k < x)
      BY <2>2 DEF OpToRel
    <2>4. k \in Nat /\ m \in Nat
      BY <1>1
    <2> HIDE DEF T
    <2> QED
      BY <1>3, <2>3, <2>4
  <1> QED
    BY <1>4 DEF Max

(* bget recycles a buffer that nobody uses and that is clean. *)
LEMMA VictimIsFree ==
  ASSUME TypeOK, Free # {}
  PROVE  Victim \in Bufs /\ refcnt[Victim] = 0 /\ ~dirty[Victim]
  <1> DEFINE S == {k \in Bufs : lru[k] \in Free}
  <1>1. PICK b \in Free : TRUE
    OBVIOUS
  <1>2. b \in Bufs
    BY DEF Free
  <1>3. S # {}
    BY <1>1, <1>2 DEF TypeOK
  <1>4. Max(S) \in S
    BY <1>3, MaxIn
  <1>5. Victim \in Free
    BY <1>4 DEF Victim
  <1> QED
    BY <1>5 DEF Free

(* brelse keeps every buffer in the list. *)
LEMMA FrontKeepsAll ==
  ASSUME TypeOK, NEW b \in Bufs
  PROVE  /\ ToFront(b) \in [Bufs -> Bufs]
         /\ \A c \in Bufs : \E k \in Bufs : ToFront(b)[k] = c
  <1> DEFINE at == CHOOSE k \in Bufs : lru[k] = b
             new == [k \in Bufs |-> IF k = 1 THEN b ELSE IF k <= at THEN lru[k - 1] ELSE lru[k]]
  <1>1. at \in Bufs /\ lru[at] = b /\ lru \in [Bufs -> Bufs]
    BY DEF TypeOK
  <1>2. ToFront(b) = new
    BY DEF ToFront
  <1>3. 1 \in Bufs /\ new[1] = b
    BY DEF Bufs
  <1> HIDE DEF at
  <1>4. new \in [Bufs -> Bufs]
    <2>1. ASSUME NEW k \in Bufs, k # 1 PROVE k - 1 \in Bufs
      BY <2>1 DEF Bufs
    <2> QED
      BY <1>1, <2>1
  <1>5. ASSUME NEW c \in Bufs PROVE \E k \in Bufs : new[k] = c
    <2>1. CASE c = b
      BY <1>3, <2>1
    <2>2. CASE c # b
      <3>1. PICK k \in Bufs : lru[k] = c
        BY DEF TypeOK
      <3>2. k # at
        BY <1>1, <2>2, <3>1
      <3>3. CASE k < at
        <4>1. k + 1 \in Bufs /\ k + 1 # 1 /\ k + 1 <= at /\ (k + 1) - 1 = k
          BY <1>1, <3>3 DEF Bufs
        <4>2. new[k + 1] = lru[k]
          BY <4>1
        <4> QED
          BY <3>1, <4>1, <4>2
      <3>4. CASE k > at
        <4>1. k # 1 /\ ~(k <= at)
          BY <1>1, <3>4 DEF Bufs
        <4>2. new[k] = lru[k]
          BY <4>1
        <4> QED
          BY <3>1, <4>2
      <3> QED
        BY <1>1, <3>2, <3>3, <3>4 DEF Bufs
    <2> QED
      BY <2>1, <2>2
  <1> QED
    BY <1>2, <1>4, <1>5

(* The processes have finitely many uses of the cache between them. *)
LEMMA UsesFinite == IsFiniteSet(Uses)
  <1>1. IsFiniteSet({1, 2})
    <2>1. 1..2 = {1, 2}
      OBVIOUS
    <2>2. 1 \in Int /\ 2 \in Int
      OBVIOUS
    <2>3. IsFiniteSet(1..2)
      BY <2>2, FS_Interval, Zenon
    <2> QED
      BY <2>1, <2>3
  <1> QED
    BY <1>1, ProcsAssumption, FS_Product DEF Uses

(* The uses of a buffer are finitely many. *)
LEMMA UsersFinite ==
  ASSUME NEW b
  PROVE  IsFiniteSet(Users(b)) /\ Cardinality(Users(b)) \in 0..Cardinality(Uses)
  <1>1. Users(b) \in SUBSET Uses
    BY DEF Users
  <1> QED
    BY <1>1, UsesFinite, FS_Subset, FS_CardinalityType

(* A buffer with no reference has no user, and is nobody's. *)
LEMMA Unused ==
  ASSUME IInv, NEW b \in Bufs, refcnt[b] = 0
  PROVE  (\A p \in Uses : buf[p] # b) /\ owner[b] = None
  <1>1. Users(b) = {}
    BY UsersFinite, FS_EmptySet DEF IInv, References
  <1>2. \A p \in Uses : buf[p] # b
    BY <1>1 DEF Users
  <1> QED
    BY <1>2 DEF IInv, SleepLocks, Owns, TypeOK

LEMMA InitIInv == Init => IInv
  <1> SUFFICES ASSUME Init PROVE IInv
    OBVIOUS
  <1> USE DEF Init
  <1>1. Cardinality(Uses) \in Nat
    BY UsesFinite, FS_CardinalityType
  <1>2. TypeOK
    <2>1. /\ blockno \in [Bufs -> Blocks \cup {None}]
          /\ valid \in [Bufs -> BOOLEAN] /\ dirty \in [Bufs -> BOOLEAN]
          /\ owner \in [Bufs -> Uses \cup {None}]
          /\ pc \in [Uses -> Labels] /\ want \in [Uses -> Blocks \cup {None}]
          /\ buf \in [Uses -> Bufs \cup {None}] /\ panicked \in BOOLEAN
      BY DEF Labels
    <2>2. 0 \in Contents /\ 0 \in 0..Cardinality(Uses)
      BY <1>1 DEF Contents
    <2>3. /\ refcnt \in [Bufs -> 0..Cardinality(Uses)] /\ data \in [Bufs -> Contents]
          /\ disk \in [Blocks -> Contents] /\ latest \in [Blocks -> Contents]
          /\ writes \in Contents
      BY <2>2
    <2>4. ASSUME NEW b \in Bufs PROVE NBUF + 1 - b \in Bufs /\ NBUF + 1 - (NBUF + 1 - b) = b
      BY DEF Bufs
    <2>5. lru \in [Bufs -> Bufs] /\ \A b \in Bufs : \E k \in Bufs : lru[k] = b
      BY <2>4
    <2>6. idequeue \in Seq(Bufs)
      OBVIOUS
    <2> QED
      BY <2>1, <2>3, <2>5, <2>6 DEF TypeOK
  <1>3. References
    <2>1. ASSUME NEW b \in Bufs PROVE refcnt[b] = Cardinality(Users(b))
      <3>1. Users(b) = {}
        BY DEF Users
      <3> QED
        BY <3>1, FS_EmptySet
    <2> QED
      BY <2>1 DEF References
  <1>4. OneBufferPerBlock /\ SleepLocks
    BY DEF OneBufferPerBlock, SleepLocks, Owns
  <1>5. Requests
    BY DEF Requests
  <1>6. Coherent /\ NothingLost
    BY DEF Coherent, NothingLost
  <1> QED
    BY <1>2, <1>3, <1>4, <1>5, <1>6 DEF IInv

LEMMA StutterKeeps ==
  ASSUME IInv, UNCHANGED <<bufs, owner, lru, idequeue, disk, pc, want, buf, latest, writes>>,
         panicked' \in BOOLEAN
  PROVE  IInv'
  <1> USE DEF bufs
  <1>1. ASSUME NEW b PROVE Users(b)' = Users(b) /\ (Modified(b)' <=> Modified(b)) /\ (Requested(b)' <=> Requested(b))
    BY DEF Users, Modified, Requested
  <1>2. TypeOK' /\ OneBufferPerBlock' /\ SleepLocks' /\ NothingLost'
    BY DEF IInv, TypeOK, OneBufferPerBlock, SleepLocks, Owns, NothingLost, Cached
  <1>3. References'
    BY <1>1 DEF IInv, References
  <1>4. Requests'
    BY DEF IInv, Requests, Requested
  <1>5. Coherent'
    BY DEF IInv, Coherent, Modified
  <1> QED
    BY <1>2, <1>3, <1>4, <1>5 DEF IInv

(* A sleep lock has one owner. *)
LEMMA OneOwner ==
  ASSUME IInv, NEW p \in Uses, NEW q \in Uses, NEW b \in Bufs, Owns(p, b), Owns(q, b)
  PROVE  p = q
  BY DEF IInv, SleepLocks

(* A step of a process between bget and brelse keeps the references. *)
LEMMA SameReferences ==
  ASSUME IInv, UNCHANGED <<blockno, refcnt, buf, want>>,
         \A p \in Uses : pc'[p] = "idle" <=> pc[p] = "idle"
  PROVE  OneBufferPerBlock' /\ References'
  <1>1. ASSUME NEW b PROVE Users(b)' = Users(b)
    BY DEF Users
  <1> QED
    BY <1>1 DEF IInv, OneBufferPerBlock, References

(* The process at p has a buffer of its block. *)
LEMMA HasBuffer ==
  ASSUME IInv, NEW p \in Uses, pc[p] # "idle"
  PROVE  /\ buf[p] \in Bufs /\ want[p] \in Blocks /\ blockno[buf[p]] = want[p]
         /\ want[p] # None
  BY DEF IInv, References

(* acquiresleep *)
LEMMA AcquireSleepKeeps ==
  ASSUME IInv, NEW p \in Uses, AcquireSleep(p)
  PROVE  IInv'
  <1> DEFINE b == buf[p]
             label == IF valid[b] THEN "use" ELSE "submit"
  <1>1. /\ pc[p] = "lock" /\ owner[b] = None
        /\ owner' = [owner EXCEPT ![b] = p] /\ pc' = [pc EXCEPT ![p] = label]
        /\ UNCHANGED <<blockno, valid, dirty, refcnt, data, lru, idequeue, disk, want, buf,
                       latest, writes, panicked>>
    BY DEF AcquireSleep, Unlocked, Goto, bufs
  <1>2. b \in Bufs /\ pc \in [Uses -> Labels] /\ owner \in [Bufs -> Uses \cup {None}]
    BY <1>1, HasBuffer DEF IInv, TypeOK
  <1>3. label \in {"use", "submit"} /\ label \in Labels /\ (label = "use" <=> valid[b])
    BY DEF Labels
  <1> HIDE DEF label
  <1>4. TypeOK'
    BY <1>1, <1>2, <1>3 DEF IInv, TypeOK
  <1>5. OneBufferPerBlock' /\ References'
    BY <1>1, <1>2, <1>3, SameReferences
  <1>6. SleepLocks'
    <2>1. ASSUME NEW q \in Uses, NEW c \in Bufs PROVE owner'[c] = q <=> Owns(q, c)'
      <3>1. CASE c = b
        <4>1. ~Owns(q, b)
          BY <1>1, <1>2 DEF IInv, SleepLocks
        <4> QED
          BY <1>1, <1>2, <1>3, <3>1, <4>1 DEF Owns
      <3>2. CASE c # b
        BY <1>1, <1>2, <3>2 DEF IInv, SleepLocks, Owns
      <3> QED
        BY <3>1, <3>2
    <2> QED
      BY <2>1 DEF SleepLocks
  <1>7. Requests'
    BY <1>1, <1>2, <1>3 DEF IInv, Requests, Requested
  <1>8. ASSUME NEW c PROVE Modified(c)' <=> Modified(c)
    BY <1>1, <1>2, <1>3 DEF Modified
  <1>9. Coherent' /\ NothingLost'
    BY <1>1, <1>8 DEF IInv, Coherent, NothingLost, Cached
  <1> QED
    BY <1>4, <1>5, <1>6, <1>7, <1>9 DEF IInv

(* iderw queues a request for a buffer that is not in the queue. *)
LEMMA IderwKeeps ==
  ASSUME IInv, NEW p \in Uses, Iderw(p)
  PROVE  IInv'
  <1> DEFINE b == buf[p]
             n == Len(idequeue)
  <1>1. /\ pc[p] = "submit" /\ idequeue' = Append(idequeue, b) /\ pc' = [pc EXCEPT ![p] = "wait"]
        /\ UNCHANGED <<blockno, valid, dirty, refcnt, data, owner, lru, disk, want, buf,
                       latest, writes, panicked>>
    BY DEF Iderw, Goto, bufs
  <1>2. /\ b \in Bufs /\ pc \in [Uses -> Labels] /\ idequeue \in Seq(Bufs)
        /\ n \in Nat /\ Requested(b)
    BY <1>1, HasBuffer DEF IInv, TypeOK, Requests
  <1>3. /\ idequeue' \in Seq(Bufs) /\ Len(idequeue') = n + 1 /\ idequeue'[n + 1] = b
        /\ \A k \in 1..n : idequeue'[k] = idequeue[k]
    BY <1>1, <1>2
  <1>4. TypeOK'
    BY <1>1, <1>2, <1>3 DEF IInv, TypeOK, Labels
  <1>5. OneBufferPerBlock' /\ References'
    BY <1>1, <1>2, SameReferences
  <1>6. SleepLocks'
    BY <1>1, <1>2 DEF IInv, SleepLocks, Owns
  <1>7. ASSUME NEW k \in 1..n PROVE idequeue[k] # b
    <2>1. PICK q \in Uses : pc[q] = "wait" /\ buf[q] = idequeue[k]
      BY DEF IInv, Requests
    <2> QED
      BY <1>1, <1>2, <2>1, OneOwner DEF Owns
  <1>8. Requests'
    <2> HIDE DEF b, n
    <2>1. \A j, k \in 1..(n + 1) : idequeue'[j] = idequeue'[k] => j = k
      <3>1. \A j, k \in 1..n : idequeue[j] = idequeue[k] => j = k
        BY DEF IInv, Requests, n
      <3>2. \A j \in 1..(n + 1) : j \in 1..n \/ j = n + 1
        BY <1>2
      <3> QED
        BY <1>3, <1>7, <3>1, <3>2
    <2>2. ASSUME NEW k \in 1..(n + 1)
          PROVE  /\ Requested(idequeue'[k])
                 /\ \E q \in Uses : pc'[q] = "wait" /\ buf[q] = idequeue'[k]
      <3>1. CASE k = n + 1
        BY <1>1, <1>2, <1>3, <3>1 DEF b
      <3>2. CASE k \in 1..n
        <4>1. Requested(idequeue[k]) /\ \E q \in Uses : pc[q] = "wait" /\ buf[q] = idequeue[k]
          BY <3>2 DEF IInv, Requests, n
        <4> QED
          BY <1>1, <1>2, <1>3, <3>2, <4>1
      <3> QED
        BY <1>2, <3>1, <3>2
    <2>3. ASSUME NEW c \in Bufs, Contains(idequeue, c) \/ c = b PROVE Contains(idequeue', c)
      BY <1>2, <1>3, <2>3 DEF Contains, n
    <2>4. ASSUME NEW q \in Uses
          PROVE  /\ pc'[q] = "submit" => Requested(buf[q])
                 /\ pc'[q] = "wait" /\ Requested(buf[q]) => Contains(idequeue', buf[q])
                 /\ pc'[q] \in {"use", "modified"} => valid[buf[q]]
      <3>1. CASE q = p
        BY <1>1, <1>2, <2>3, <3>1 DEF b
      <3>2. CASE q # p
        <4>1. pc'[q] = pc[q]
          BY <1>1, <1>2, <3>2
        <4>2. pc[q] = "wait" => buf[q] \in Bufs
          BY HasBuffer
        <4> QED
          BY <2>3, <4>1, <4>2 DEF IInv, Requests
      <3> QED
        BY <3>1, <3>2
    <2>5. \A c : Requested(c)' <=> Requested(c)
      BY <1>1 DEF Requested
    <2> QED
      BY <1>1, <1>3, <2>1, <2>2, <2>4, <2>5 DEF Requests
  <1>9. ASSUME NEW c PROVE Modified(c)' <=> Modified(c)
    BY <1>1, <1>2 DEF Modified
  <1>10. Coherent' /\ NothingLost'
    BY <1>1, <1>9 DEF IInv, Coherent, NothingLost, Cached
  <1> QED
    BY <1>4, <1>5, <1>6, <1>8, <1>10 DEF IInv

(* iderw returns *)
LEMMA IdeDoneKeeps ==
  ASSUME IInv, NEW p \in Uses, IdeDone(p)
  PROVE  IInv'
  <1>1. /\ pc[p] = "wait" /\ valid[buf[p]] /\ ~dirty[buf[p]] /\ pc' = [pc EXCEPT ![p] = "use"]
        /\ UNCHANGED <<blockno, valid, dirty, refcnt, data, owner, lru, idequeue, disk, want, buf,
                       latest, writes, panicked>>
    BY DEF IdeDone, Goto, bufs
  <1>2. pc \in [Uses -> Labels]
    BY DEF IInv, TypeOK
  <1>3. TypeOK'
    BY <1>1, <1>2 DEF IInv, TypeOK, Labels
  <1>4. OneBufferPerBlock' /\ References'
    BY <1>1, <1>2, SameReferences
  <1>5. SleepLocks'
    BY <1>1, <1>2 DEF IInv, SleepLocks, Owns
  <1>6. Requests'
    <2>1. ASSUME NEW k \in 1..Len(idequeue)
          PROVE  \E q \in Uses : pc'[q] = "wait" /\ buf[q] = idequeue[k]
      <3>1. PICK q \in Uses : pc[q] = "wait" /\ buf[q] = idequeue[k] /\ Requested(idequeue[k])
        BY DEF IInv, Requests
      <3>2. q # p
        BY <1>1, <3>1 DEF Requested
      <3> QED
        BY <1>1, <1>2, <3>1, <3>2
    <2>2. \A c : Requested(c)' <=> Requested(c)
      BY <1>1 DEF Requested
    <2> QED
      BY <1>1, <1>2, <2>1, <2>2 DEF IInv, Requests
  <1>7. ASSUME NEW c PROVE Modified(c)' <=> Modified(c)
    BY <1>1, <1>2 DEF Modified
  <1>8. Coherent' /\ NothingLost'
    BY ZenonT(40), <1>1, <1>7 DEF IInv, Coherent, NothingLost, Cached
  <1> QED
    BY <1>3, <1>4, <1>5, <1>6, <1>8 DEF IInv

(* The disk serves the request at the head of the queue, whose owner waits. *)
LEMMA IdeIntrKeeps ==
  ASSUME IInv, NEW ok \in ReadOutcomes, IdeIntr(ok)
  PROVE  IInv'
  <1> DEFINE n == Len(idequeue)
  <1>0. idequeue \in Seq(Bufs) /\ n \in Nat /\ n >= 1 /\ idequeue[1] \in Bufs
    BY SMTT(30) DEF IInv, TypeOK, IdeIntr
  <1> PICK b \in Bufs : b = idequeue[1]
    BY <1>0
  <1> PICK m : m = blockno[b]
    OBVIOUS
  <1> PICK read : read = IF ok THEN disk[m] ELSE data[b]
    OBVIOUS
  <1>1. /\ idequeue # <<>> /\ idequeue' = Tail(idequeue)
        /\ valid' = [valid EXCEPT ![b] = TRUE] /\ dirty' = [dirty EXCEPT ![b] = FALSE]
        /\ dirty[b] => disk' = [disk EXCEPT ![m] = data[b]] /\ data' = data
        /\ ~dirty[b] => data' = [data EXCEPT ![b] = read] /\ disk' = disk
        /\ UNCHANGED <<blockno, refcnt, owner, lru, pc, want, buf, latest, writes, panicked>>
    BY DEF IdeIntr
  <1>2. idequeue \in Seq(Bufs) /\ n \in Nat /\ n >= 1 /\ b \in Bufs
    BY <1>0
  <1>3. PICK h \in Uses : pc[h] = "wait" /\ buf[h] = b
    BY <1>2 DEF IInv, Requests
  <1>4. m \in Blocks /\ m # None /\ Requested(b)
    BY <1>2, <1>3, HasBuffer DEF IInv, Requests
  <1>5. ASSUME NEW q \in Uses, buf[q] = b, pc[q] \in {"submit", "use", "modified"} PROVE FALSE
    BY <1>2, <1>3, <1>5, OneOwner DEF Owns
  <1>6. ~Modified(b)
    BY <1>5 DEF Modified
  <1>7. /\ idequeue' \in Seq(Bufs) /\ Len(idequeue') = n - 1
        /\ \A k \in 1..(n - 1) : idequeue'[k] = idequeue[k + 1] /\ idequeue[k + 1] # b
    <2>1. \A j, k \in 1..n : idequeue[j] = idequeue[k] => j = k
      BY DEF IInv, Requests
    <2>2. /\ idequeue' \in Seq(Bufs) /\ Len(idequeue') = n - 1
          /\ \A k \in 1..(n - 1) : idequeue'[k] = idequeue[k + 1]
      BY <1>1, <1>2
    <2>3. ASSUME NEW k \in 1..(n - 1) PROVE idequeue[k + 1] # b
      <3>1. k + 1 \in 1..n /\ 1 \in 1..n /\ k + 1 # 1
        BY <1>2
      <3> HIDE DEF n
      <3> QED
        BY <2>1, <3>1
    <2> QED
      BY <2>2, <2>3
  <1>8. /\ data \in [Bufs -> Contents] /\ disk \in [Blocks -> Contents]
        /\ valid \in [Bufs -> BOOLEAN] /\ dirty \in [Bufs -> BOOLEAN]
        /\ blockno \in [Bufs -> Blocks \cup {None}]
    BY DEF IInv, TypeOK
  <1>9. read \in Contents
    BY <1>2, <1>4, <1>8
  <1>10. ok = TRUE \/ FALSE \in ReadOutcomes
    BY ProcsAssumption
  <1>11. ok = TRUE => read = disk[m]
    OBVIOUS
  <1> HIDE DEF n
  <1>12. TypeOK'
    <2>1. data' \in [Bufs -> Contents] /\ disk' \in [Blocks -> Contents]
      BY <1>1, <1>2, <1>4, <1>8, <1>9
    <2> QED
      BY <1>1, <1>2, <1>7, <1>8, <2>1 DEF IInv, TypeOK
  <1>13. OneBufferPerBlock' /\ References'
    BY <1>1, SameReferences
  <1>14. SleepLocks'
    BY <1>1 DEF IInv, SleepLocks, Owns
  <1>15. Requests'
    <2>1. ASSUME NEW c \in Bufs, c # b PROVE Requested(c)' <=> Requested(c)
      BY <1>1, <1>8, <2>1 DEF Requested
    <2>2. ~Requested(b)'
      BY <1>1, <1>2, <1>8 DEF Requested
    <2>3. ASSUME NEW k \in 1..(n - 1)
          PROVE  /\ Requested(idequeue[k])'
                 /\ \E q \in Uses : pc[q] = "wait" /\ buf[q] = idequeue'[k]
      <3>1. k + 1 \in 1..n
        BY <1>2
      <3>2. /\ Requested(idequeue[k + 1]) /\ idequeue[k + 1] \in Bufs
            /\ \E q \in Uses : pc[q] = "wait" /\ buf[q] = idequeue[k + 1]
        BY <1>2, <3>1 DEF IInv, Requests, n
      <3> QED
        BY <1>7, <2>1, <3>2
    <2>4. \A j, k \in 1..(n - 1) : idequeue'[j] = idequeue'[k] => j = k
      <3>1. \A j, k \in 1..n : idequeue[j] = idequeue[k] => j = k
        BY DEF IInv, Requests, n
      <3>2. \A j, k \in 1..(n - 1) : /\ j + 1 \in 1..n /\ k + 1 \in 1..n
                                     /\ j + 1 = k + 1 => j = k
        BY <1>2
      <3> QED
        BY <1>7, <3>1, <3>2
    <2>5. ASSUME NEW q \in Uses
          PROVE  /\ pc[q] = "submit" => Requested(buf[q])'
                 /\ pc[q] = "wait" /\ Requested(buf[q])' => Contains(idequeue', buf[q])
                 /\ pc[q] \in {"use", "modified"} => valid'[buf[q]]
      <3>1. CASE buf[q] = b
        BY <1>1, <1>5, <2>2, <3>1
      <3>2. CASE buf[q] # b /\ pc[q] # "idle"
        <4>1. buf[q] \in Bufs
          BY <3>2, HasBuffer
        <4>2. (Requested(buf[q])' <=> Requested(buf[q])) /\ valid'[buf[q]] = valid[buf[q]]
          BY <1>1, <1>8, <2>1, <3>2, <4>1
        <4>3. ASSUME pc[q] = "wait", Requested(buf[q]) PROVE Contains(idequeue', buf[q])
          <5>1. PICK k \in 1..n : idequeue[k] = buf[q]
            BY <4>3 DEF IInv, Requests, Contains, n
          <5>2. k - 1 \in 1..(n - 1) /\ (k - 1) + 1 = k
            BY <1>2, <3>2, <5>1
          <5> QED
            BY <1>7, <5>1, <5>2 DEF Contains
        <4> QED
          BY <4>2, <4>3 DEF IInv, Requests
      <3>3. CASE pc[q] = "idle"
        BY <3>3
      <3> QED
        BY <3>1, <3>2, <3>3
    <2> QED
      BY <1>1, <1>7, <2>3, <2>4, <2>5 DEF Requests
  <1>16. ASSUME NEW c PROVE Modified(c)' <=> Modified(c)
    BY <1>1 DEF Modified
  <1>17. ASSUME NEW c \in Bufs, c # b, blockno[c] # None PROVE blockno[c] # m
    BY <1>2, <1>4, <1>17 DEF IInv, OneBufferPerBlock
  <1>18. disk'[m] = latest[m] /\ (FALSE \notin ReadOutcomes => data'[b] = latest[m])
    <2>1. CASE dirty[b]
      <3>1. data[b] = latest[m]
        BY <1>2, <1>4, <2>1 DEF IInv, Coherent
      <3> QED
        BY <1>1, <1>4, <1>8, <2>1, <3>1
    <2>2. CASE ~dirty[b]
      <3>1. disk[m] = latest[m]
        BY <1>2, <1>4, <1>6, <2>2 DEF IInv, Coherent
      <3> QED
        BY <1>1, <1>2, <1>8, <1>10, <1>11, <2>2, <3>1
    <2> QED
      BY <2>1, <2>2
  <1>19. Coherent'
    <2>1. ASSUME NEW c \in Bufs, c # b
          PROVE  /\ ~valid'[c] => ~dirty'[c]
                 /\ blockno'[c] = None => ~valid'[c]
                 /\ blockno'[c] # None =>
                      /\ ~dirty'[c] /\ ~Modified(c)' => disk'[blockno'[c]] = latest'[blockno'[c]]
                      /\ dirty'[c] \/ Modified(c)' => data'[c] = latest'[blockno'[c]]
                      /\ valid'[c] /\ FALSE \notin ReadOutcomes => data'[c] = latest'[blockno'[c]]
      <3>1. valid'[c] = valid[c] /\ dirty'[c] = dirty[c] /\ data'[c] = data[c]
        BY <1>1, <1>8, <2>1
      <3>2. blockno[c] # None => disk'[blockno[c]] = disk[blockno[c]]
        BY <1>1, <1>8, <1>17, <2>1
      <3> QED
        BY <1>1, <1>16, <3>1, <3>2 DEF IInv, Coherent
    <2>2. valid'[b] /\ ~dirty'[b] /\ ~Modified(b)' /\ blockno'[b] = m /\ latest' = latest
      BY <1>1, <1>2, <1>6, <1>8, <1>16
    <2> QED
      BY <1>4, <1>18, <2>1, <2>2 DEF Coherent
  <1>20. NothingLost'
    <2>1. ASSUME NEW x \in Blocks, Cached(x)' = {} PROVE disk'[x] = latest'[x]
      <3>1. Cached(x) = {} /\ x # m
        BY <1>1, <1>2, <2>1 DEF Cached
      <3> QED
        BY <1>1, <1>8, <3>1 DEF IInv, NothingLost
    <2> QED
      BY <2>1 DEF NothingLost
  <1> QED
    BY <1>12, <1>13, <1>14, <1>15, <1>19, <1>20 DEF IInv

(* What a step of the holder of b leaves alone in the other buffers. *)
LEMMA OthersCoherent ==
  ASSUME IInv, NEW p \in Uses, NEW b \in Bufs, buf[p] = b,
         NEW c \in Bufs, c # b, NEW label, pc' = [pc EXCEPT ![p] = label],
         UNCHANGED <<blockno, valid, disk, buf>>,
         dirty'[c] = dirty[c], data'[c] = data[c],
         blockno[c] # None => latest'[blockno[c]] = latest[blockno[c]]
  PROVE  /\ ~valid'[c] => ~dirty'[c]
         /\ blockno'[c] = None => ~valid'[c]
         /\ blockno'[c] # None =>
              /\ ~dirty'[c] /\ ~Modified(c)' => disk'[blockno'[c]] = latest'[blockno'[c]]
              /\ dirty'[c] \/ Modified(c)' => data'[c] = latest'[blockno'[c]]
              /\ valid'[c] /\ FALSE \notin ReadOutcomes => data'[c] = latest'[blockno'[c]]
  <1>1. Modified(c)' <=> Modified(c)
    BY DEF Modified, IInv, TypeOK
  <1> QED
    BY <1>1 DEF IInv, Coherent

(* A step of the holder of a valid buffer, which may become dirty. *)
LEMMA HolderRequests ==
  ASSUME IInv, NEW p \in Uses, NEW b \in Bufs, buf[p] = b, valid[b],
         pc[p] \in {"use", "modified"},
         NEW label \in {"use", "modified", "submit", "unref"}, pc' = [pc EXCEPT ![p] = label],
         dirty' = dirty \/ dirty' = [dirty EXCEPT ![b] = TRUE],
         label = "submit" => dirty'[b],
         UNCHANGED <<valid, idequeue, buf>>
  PROVE  Requests'
  <1>1. pc \in [Uses -> Labels] /\ dirty \in [Bufs -> BOOLEAN] /\ idequeue \in Seq(Bufs)
    BY DEF IInv, TypeOK
  <1>2. ASSUME NEW c \in Bufs, Requested(c) PROVE Requested(c)'
    BY <1>1, <1>2 DEF Requested
  <1>3. ASSUME NEW c \in Bufs, c # b PROVE Requested(c)' <=> Requested(c)
    BY <1>1, <1>3 DEF Requested
  <1>4. ASSUME NEW k \in 1..Len(idequeue')
        PROVE  /\ Requested(idequeue[k])'
               /\ \E q \in Uses : pc'[q] = "wait" /\ buf'[q] = idequeue'[k]
    <2>1. /\ Requested(idequeue[k]) /\ idequeue[k] \in Bufs /\ idequeue' = idequeue
          /\ \E q \in Uses : pc[q] = "wait" /\ buf[q] = idequeue[k]
      BY <1>1 DEF IInv, Requests
    <2> QED
      BY <1>1, <1>2, <2>1
  <1>5. ASSUME NEW q \in Uses
        PROVE  /\ pc'[q] = "submit" => Requested(buf[q])'
               /\ pc'[q] = "wait" /\ Requested(buf[q])' => Contains(idequeue', buf'[q])
               /\ pc'[q] \in {"use", "modified"} => valid'[buf'[q]]
    <2>1. CASE q = p
      BY <1>1, <2>1 DEF Requested
    <2>2. CASE q # p /\ pc[q] # "idle"
      <3>1. pc'[q] = pc[q] /\ buf[q] \in Bufs
        BY <1>1, <2>2, HasBuffer
      <3>2. pc[q] = "wait" => buf[q] # b
        BY <2>2, OneOwner DEF Owns
      <3>3. Requested(buf[q]) => Requested(buf[q])'
        BY <1>2, <3>1
      <3>4. pc[q] = "wait" /\ Requested(buf[q])' => Requested(buf[q])
        BY <1>3, <3>1, <3>2
      <3> QED
        BY <3>1, <3>3, <3>4 DEF IInv, Requests
    <2>3. CASE q # p /\ pc[q] = "idle"
      BY <1>1, <2>3
    <2> QED
      BY <2>1, <2>2, <2>3
  <1>6. \A j, k \in 1..Len(idequeue') : idequeue'[j] = idequeue'[k] => j = k
    BY DEF IInv, Requests
  <1> QED
    BY <1>4, <1>5, <1>6 DEF Requests

(* The holder changes its block. *)
LEMMA ModifyKeeps ==
  ASSUME IInv, NEW p \in Uses, Modify(p)
  PROVE  IInv'
  <1>0. pc[p] = "use" /\ buf[p] \in Bufs /\ want[p] \in Blocks /\ blockno[buf[p]] = want[p] /\ want[p] # None
    BY HasBuffer DEF Modify
  <1> PICK b \in Bufs : b = buf[p]
    BY <1>0
  <1> PICK m \in Blocks : m = want[p]
    BY <1>0
  <1>1. /\ writes' = writes + 1 /\ writes < MaxWrites
        /\ data' = [data EXCEPT ![b] = writes + 1]
        /\ latest' = [latest EXCEPT ![m] = writes + 1]
        /\ pc' = [pc EXCEPT ![p] = "modified"]
        /\ UNCHANGED <<blockno, valid, dirty, refcnt, owner, lru, idequeue, disk, want, buf, panicked>>
    BY DEF Modify, Goto
  <1>2. /\ pc \in [Uses -> Labels] /\ data \in [Bufs -> Contents] /\ latest \in [Blocks -> Contents]
        /\ blockno \in [Bufs -> Blocks \cup {None}]
        /\ writes \in Contents /\ writes + 1 \in Contents
    <2>1. writes \in Contents
      BY DEF IInv, TypeOK
    <2>2. writes + 1 \in Contents
      BY <1>1, <2>1 DEF Contents
    <2> QED
      BY <2>1, <2>2 DEF IInv, TypeOK
  <1>3. valid[b]
    BY <1>0 DEF IInv, Requests
  <1>4. TypeOK'
    BY <1>1, <1>2 DEF IInv, TypeOK, Labels
  <1>5. OneBufferPerBlock' /\ References'
    BY <1>0, <1>1, <1>2, SameReferences
  <1>6. SleepLocks'
    BY <1>0, <1>1, <1>2 DEF IInv, SleepLocks, Owns
  <1>7. Requests'
    BY <1>0, <1>1, <1>3, HolderRequests
  <1>8. Coherent'
    <2>1. Modified(b)' /\ data'[b] = writes + 1 /\ latest'[m] = writes + 1 /\ blockno'[b] = m /\ valid'[b]
      BY <1>0, <1>1, <1>2, <1>3 DEF Modified
    <2>2. ASSUME NEW c \in Bufs, c # b
          PROVE  data'[c] = data[c] /\ (blockno[c] # None => latest'[blockno[c]] = latest[blockno[c]])
      <3>1. blockno[c] # None => blockno[c] # m
        BY <1>0, <2>2 DEF IInv, OneBufferPerBlock
      <3> QED
        BY <1>1, <1>2, <2>2, <3>1
    <2>3. ASSUME NEW c \in Bufs, c # b
          PROVE  /\ ~valid'[c] => ~dirty'[c]
                 /\ blockno'[c] = None => ~valid'[c]
                 /\ blockno'[c] # None =>
                      /\ ~dirty'[c] /\ ~Modified(c)' => disk'[blockno'[c]] = latest'[blockno'[c]]
                      /\ dirty'[c] \/ Modified(c)' => data'[c] = latest'[blockno'[c]]
                      /\ valid'[c] /\ FALSE \notin ReadOutcomes => data'[c] = latest'[blockno'[c]]
      BY ZenonT(40), <1>1, <2>2, <2>3, OthersCoherent
    <2>4. data'[b] = latest'[blockno'[b]] /\ blockno'[b] # None
      BY <1>0, <2>1
    <2> QED
      BY <2>1, <2>3, <2>4 DEF Coherent
  <1>9. NothingLost'
    <2>1. ASSUME NEW x \in Blocks, Cached(x)' = {} PROVE disk'[x] = latest'[x]
      <3>1. Cached(x) = {} /\ x # m
        BY <1>0, <1>1, <2>1 DEF Cached
      <3> QED
        BY <1>1, <1>2, <3>1 DEF IInv, NothingLost
    <2> QED
      BY <2>1 DEF NothingLost
  <1> QED
    BY <1>4, <1>5, <1>6, <1>7, <1>8, <1>9 DEF IInv

(* bwrite and log_write: what is dirty is the latest content. *)
LEMMA DirtyKeeps ==
  ASSUME IInv, NEW p \in Uses, Bwrite(p) \/ LogWrite(p)
  PROVE  IInv'
  <1>0. /\ pc[p] = "modified" \/ (pc[p] = "use" /\ dirty[buf[p]])
        /\ buf[p] \in Bufs /\ want[p] \in Blocks /\ blockno[buf[p]] = want[p] /\ want[p] # None
    BY HasBuffer DEF Bwrite, LogWrite
  <1> PICK b \in Bufs : b = buf[p]
    BY <1>0
  <1> PICK label \in {"submit", "use"} : label = IF Bwrite(p) THEN "submit" ELSE "use"
    OBVIOUS
  <1>1. /\ dirty' = [dirty EXCEPT ![b] = TRUE]
        /\ pc' = [pc EXCEPT ![p] = label]
        /\ UNCHANGED <<blockno, valid, refcnt, data, owner, lru, idequeue, disk, want, buf,
                       latest, writes, panicked>>
    BY DEF Bwrite, LogWrite, Goto
  <1>2. pc \in [Uses -> Labels] /\ dirty \in [Bufs -> BOOLEAN]
    BY DEF IInv, TypeOK
  <1>3. valid[b]
    BY <1>0 DEF IInv, Requests
  <1>4. TypeOK'
    BY <1>1, <1>2 DEF IInv, TypeOK, Labels
  <1>5. OneBufferPerBlock' /\ References'
    BY <1>0, <1>1, <1>2, SameReferences
  <1>6. SleepLocks'
    BY <1>0, <1>1, <1>2 DEF IInv, SleepLocks, Owns
  <1>7. Requests'
    BY <1>0, <1>1, <1>2, <1>3, HolderRequests
  <1>8. Coherent'
    <2>1. Modified(b) \/ dirty[b]
      BY <1>0 DEF Modified
    <2>2. data[b] = latest[blockno[b]]
      BY <1>0, <2>1 DEF IInv, Coherent
    <2>3. valid'[b] /\ dirty'[b] /\ data'[b] = latest'[blockno'[b]] /\ blockno'[b] # None
      BY <1>0, <1>1, <1>2, <1>3, <2>2
    <2>4. ASSUME NEW c \in Bufs, c # b
          PROVE  /\ ~valid'[c] => ~dirty'[c]
                 /\ blockno'[c] = None => ~valid'[c]
                 /\ blockno'[c] # None =>
                      /\ ~dirty'[c] /\ ~Modified(c)' => disk'[blockno'[c]] = latest'[blockno'[c]]
                      /\ dirty'[c] \/ Modified(c)' => data'[c] = latest'[blockno'[c]]
                      /\ valid'[c] /\ FALSE \notin ReadOutcomes => data'[c] = latest'[blockno'[c]]
      BY ZenonT(40), <1>1, <1>2, <2>4, OthersCoherent
    <2> QED
      BY <2>3, <2>4 DEF Coherent
  <1>9. NothingLost'
    BY <1>1 DEF IInv, NothingLost, Cached
  <1> QED
    BY <1>4, <1>5, <1>6, <1>7, <1>8, <1>9 DEF IInv

(* releasesleep *)
LEMMA ReleaseSleepKeeps ==
  ASSUME IInv, NEW p \in Uses, ReleaseSleep(p)
  PROVE  IInv'
  <1>0. pc[p] = "use" /\ buf[p] \in Bufs
    BY HasBuffer DEF ReleaseSleep
  <1> PICK b \in Bufs : b = buf[p]
    BY <1>0
  <1>1. /\ owner' = [owner EXCEPT ![b] = None]
        /\ pc' = [pc EXCEPT ![p] = "unref"]
        /\ UNCHANGED <<blockno, valid, dirty, refcnt, data, lru, idequeue, disk, want, buf,
                       latest, writes, panicked>>
    BY DEF ReleaseSleep, Goto, bufs
  <1>2. pc \in [Uses -> Labels] /\ owner \in [Bufs -> Uses \cup {None}]
    BY DEF IInv, TypeOK
  <1>3. valid[b]
    BY <1>0 DEF IInv, Requests
  <1>4. TypeOK'
    BY <1>1, <1>2 DEF IInv, TypeOK, Labels
  <1>5. OneBufferPerBlock' /\ References'
    BY <1>0, <1>1, <1>2, SameReferences
  <1>6. SleepLocks'
    <2>1. ASSUME NEW q \in Uses, NEW c \in Bufs PROVE owner'[c] = q <=> Owns(q, c)'
      <3>1. CASE q = p
        BY <1>0, <1>1, <1>2, <3>1 DEF IInv, SleepLocks, Owns
      <3>2. CASE q # p /\ c = b
        <4>1. ~Owns(q, b)
          BY <1>0, <3>2, OneOwner DEF Owns
        <4> QED
          BY <1>1, <1>2, <3>2, <4>1 DEF Owns
      <3>3. CASE q # p /\ c # b
        BY <1>1, <1>2, <3>3 DEF IInv, SleepLocks, Owns
      <3> QED
        BY <3>1, <3>2, <3>3
    <2> QED
      BY <2>1 DEF SleepLocks
  <1>7. Requests'
    BY <1>0, <1>1, <1>3, HolderRequests
  <1>8. ASSUME NEW c PROVE Modified(c)' <=> Modified(c)
    BY <1>0, <1>1, <1>2 DEF Modified
  <1>9. Coherent' /\ NothingLost'
    BY <1>1, <1>8 DEF IInv, Coherent, NothingLost, Cached
  <1> QED
    BY <1>4, <1>5, <1>6, <1>7, <1>9 DEF IInv

(* A step that changes who uses which buffer, outside of the sleep locks. *)
LEMMA OutsideLocks ==
  ASSUME IInv, NEW p \in Uses, pc[p] \in {"idle", "unref"},
         NEW label \in {"idle", "lock"}, pc' = [pc EXCEPT ![p] = label],
         NEW x \in Bufs \cup {None}, buf' = [buf EXCEPT ![p] = x],
         UNCHANGED <<dirty, data, owner, idequeue, disk, latest>>
  PROVE  /\ SleepLocks'
         /\ \A c : Modified(c)' <=> Modified(c)
         /\ valid' = valid => Requests'
  <1>1. pc \in [Uses -> Labels] /\ buf \in [Uses -> Bufs \cup {None}]
    BY DEF IInv, TypeOK
  <1>2. SleepLocks'
    BY <1>1 DEF IInv, SleepLocks, Owns
  <1>3. \A c : Modified(c)' <=> Modified(c)
    BY <1>1 DEF Modified
  <1>4. ASSUME valid' = valid PROVE Requests'
    BY <1>1, <1>4 DEF IInv, Requests, Requested
  <1> QED
    BY <1>2, <1>3, <1>4

(* bget finds the block in the cache. *)
LEMMA BgetHitKeeps ==
  ASSUME IInv, NEW p \in Uses, NEW n \in Blocks, BgetHit(p, n)
  PROVE  IInv'
  <1>0. (CHOOSE x \in Cached(n) : TRUE) \in Cached(n)
    BY DEF BgetHit
  <1> PICK b \in Bufs : b = (CHOOSE x \in Cached(n) : TRUE) /\ blockno[b] = n
    BY <1>0 DEF Cached
  <1>1. /\ pc[p] = "idle" /\ refcnt' = [refcnt EXCEPT ![b] = refcnt[b] + 1]
        /\ buf' = [buf EXCEPT ![p] = b] /\ want' = [want EXCEPT ![p] = n]
        /\ pc' = [pc EXCEPT ![p] = "lock"]
        /\ UNCHANGED <<blockno, valid, dirty, data, owner, lru, idequeue, disk, latest, writes, panicked>>
    BY DEF BgetHit, Goto
  <1>2. /\ pc \in [Uses -> Labels] /\ buf \in [Uses -> Bufs \cup {None}]
        /\ want \in [Uses -> Blocks \cup {None}]
        /\ refcnt \in [Bufs -> 0..Cardinality(Uses)] /\ buf[p] = None
    BY <1>1 DEF IInv, TypeOK, References
  <1>3. ASSUME NEW c \in Bufs PROVE refcnt'[c] = Cardinality(Users(c)')
    <2>1. CASE c = b
      <3>1. Users(b)' = Users(b) \cup {p} /\ p \notin Users(b)
        <4>1. buf[p] # b
          BY <1>2
        <4>2. \A q \in Uses : buf'[q] = b <=> buf[q] = b \/ q = p
          BY <1>1, <1>2
        <4> QED
          BY <4>1, <4>2 DEF Users
      <3>2. Cardinality(Users(b)') = Cardinality(Users(b)) + 1
        BY <3>1, UsersFinite, FS_AddElement
      <3> QED
        BY <1>1, <1>2, <2>1, <3>2 DEF IInv, References
    <2>2. CASE c # b
      <3>1. Users(c)' = Users(c)
        BY <1>1, <1>2, <2>2 DEF Users
      <3> QED
        BY <1>1, <1>2, <2>2, <3>1 DEF IInv, References
    <2> QED
      BY <2>1, <2>2
  <1>4. TypeOK'
    <2>1. refcnt' \in [Bufs -> 0..Cardinality(Uses)]
      <3>1. Cardinality(Users(b)') \in 0..Cardinality(Uses)
        <4>1. Users(b)' \in SUBSET Uses
          BY DEF Users
        <4> QED
          BY <4>1, UsesFinite, FS_Subset, FS_CardinalityType
      <3>2. refcnt'[b] \in 0..Cardinality(Uses)
        BY <1>3, <3>1
      <3> QED
        BY <1>1, <1>2, <3>2
    <2> QED
      BY <1>1, <1>2, <2>1 DEF IInv, TypeOK, Labels
  <1>5. References'
    <2>1. ASSUME NEW q \in Uses
          PROVE  IF pc'[q] = "idle" THEN buf'[q] = None
                 ELSE /\ buf'[q] \in Bufs /\ want'[q] \in Blocks
                      /\ blockno'[buf'[q]] = want'[q]
      BY <1>1, <1>2 DEF IInv, References
    <2> QED
      BY <1>3, <2>1 DEF References
  <1>6. SleepLocks' /\ Requests' /\ \A c : Modified(c)' <=> Modified(c)
    BY <1>1, OutsideLocks
  <1>7. OneBufferPerBlock' /\ Coherent' /\ NothingLost'
    BY <1>1, <1>6 DEF IInv, OneBufferPerBlock, Coherent, NothingLost, Cached
  <1> QED
    BY <1>4, <1>5, <1>6, <1>7 DEF IInv

(* brelse drops the reference. *)
LEMMA BrelseKeeps ==
  ASSUME IInv, NEW p \in Uses, Brelse(p)
  PROVE  IInv'
  <1>0. pc[p] = "unref" /\ buf[p] \in Bufs
    BY HasBuffer DEF Brelse
  <1> PICK b \in Bufs : b = buf[p]
    BY <1>0
  <1>1. /\ refcnt' = [refcnt EXCEPT ![b] = refcnt[b] - 1]
        /\ lru' = lru \/ lru' = ToFront(b)
        /\ buf' = [buf EXCEPT ![p] = None] /\ want' = [want EXCEPT ![p] = None]
        /\ pc' = [pc EXCEPT ![p] = "idle"]
        /\ UNCHANGED <<blockno, valid, dirty, data, owner, idequeue, disk, latest, writes, panicked>>
    BY DEF Brelse, Goto
  <1>2. /\ pc \in [Uses -> Labels] /\ buf \in [Uses -> Bufs \cup {None}]
        /\ want \in [Uses -> Blocks \cup {None}]
        /\ refcnt \in [Bufs -> 0..Cardinality(Uses)]
    BY DEF IInv, TypeOK
  <1>3. ASSUME NEW c \in Bufs PROVE refcnt'[c] = Cardinality(Users(c)')
    <2>1. CASE c = b
      <3>1. Users(b)' = Users(b) \ {p} /\ p \in Users(b)
        BY <1>1, <1>2 DEF Users
      <3>2. Cardinality(Users(b)') = Cardinality(Users(b)) - 1
        BY ZenonT(40), <3>1, UsersFinite, FS_RemoveElement
      <3> QED
        BY <1>1, <1>2, <2>1, <3>2 DEF IInv, References
    <2>2. CASE c # b
      <3>1. Users(c)' = Users(c)
        BY <1>1, <1>2, <2>2 DEF Users
      <3> QED
        BY <1>1, <1>2, <2>2, <3>1 DEF IInv, References
    <2> QED
      BY <2>1, <2>2
  <1>4. TypeOK'
    <2>1. refcnt' \in [Bufs -> 0..Cardinality(Uses)]
      <3>1. Cardinality(Users(b)') \in 0..Cardinality(Uses)
        <4>1. Users(b)' \in SUBSET Uses
          BY DEF Users
        <4> QED
          BY <4>1, UsesFinite, FS_Subset, FS_CardinalityType
      <3>2. refcnt'[b] \in 0..Cardinality(Uses)
        BY <1>3, <3>1
      <3> QED
        BY <1>1, <1>2, <3>2
    <2>2. lru' \in [Bufs -> Bufs] /\ \A c \in Bufs : \E k \in Bufs : lru'[k] = c
      <3>1. CASE lru' = lru
        BY <3>1 DEF IInv, TypeOK
      <3>2. CASE lru' = ToFront(b)
        BY <3>2, FrontKeepsAll DEF IInv
      <3> QED
        BY <1>1, <3>1, <3>2
    <2> QED
      BY <1>1, <1>2, <2>1, <2>2 DEF IInv, TypeOK, Labels
  <1>5. References'
    <2>1. ASSUME NEW q \in Uses
          PROVE  IF pc'[q] = "idle" THEN buf'[q] = None
                 ELSE /\ buf'[q] \in Bufs /\ want'[q] \in Blocks
                      /\ blockno'[buf'[q]] = want'[q]
      BY <1>1, <1>2 DEF IInv, References
    <2> QED
      BY <1>3, <2>1 DEF References
  <1>6. SleepLocks' /\ Requests' /\ \A c : Modified(c)' <=> Modified(c)
    BY <1>0, <1>1, OutsideLocks
  <1>7. OneBufferPerBlock' /\ Coherent' /\ NothingLost'
    BY <1>1, <1>6 DEF IInv, OneBufferPerBlock, Coherent, NothingLost, Cached
  <1> QED
    BY <1>4, <1>5, <1>6, <1>7 DEF IInv

(* bget recycles a buffer: what was in it is on the disk. *)
LEMMA BgetRecycleKeeps ==
  ASSUME IInv, NEW p \in Uses, NEW n \in Blocks, BgetRecycle(p, n)
  PROVE  IInv'
  <1>0. Victim \in Bufs /\ refcnt[Victim] = 0 /\ ~dirty[Victim]
    BY VictimIsFree DEF BgetRecycle, IInv
  <1> PICK b \in Bufs : b = Victim
    BY <1>0
  <1>1. /\ pc[p] = "idle" /\ Cached(n) = {}
        /\ blockno' = [blockno EXCEPT ![b] = n] /\ valid' = [valid EXCEPT ![b] = FALSE]
        /\ refcnt' = [refcnt EXCEPT ![b] = 1]
        /\ buf' = [buf EXCEPT ![p] = b] /\ want' = [want EXCEPT ![p] = n]
        /\ pc' = [pc EXCEPT ![p] = "lock"]
        /\ UNCHANGED <<dirty, data, owner, lru, idequeue, disk, latest, writes, panicked>>
    BY DEF BgetRecycle, Goto, Miss
  <1>2. /\ pc \in [Uses -> Labels] /\ buf \in [Uses -> Bufs \cup {None}]
        /\ want \in [Uses -> Blocks \cup {None}]
        /\ blockno \in [Bufs -> Blocks \cup {None}] /\ valid \in [Bufs -> BOOLEAN]
        /\ refcnt \in [Bufs -> 0..Cardinality(Uses)] /\ buf[p] = None
    BY <1>1 DEF IInv, TypeOK, References
  <1>3. /\ \A q \in Uses : buf[q] # b
        /\ ~dirty[b] /\ n # None
        /\ \A c \in Bufs : blockno[c] # n
    BY <1>0, <1>1, Unused DEF Cached
  <1>4. ASSUME NEW c \in Bufs PROVE refcnt'[c] = Cardinality(Users(c)')
    <2>1. CASE c = b
      <3>1. Users(b)' = {p}
        BY <1>1, <1>2, <1>3 DEF Users
      <3>2. Cardinality(Users(b)') = 1
        BY <3>1, FS_Singleton
      <3> QED
        BY <1>1, <1>2, <2>1, <3>2
    <2>2. CASE c # b
      <3>1. Users(c)' = Users(c)
        BY <1>1, <1>2, <2>2 DEF Users
      <3> QED
        BY <1>1, <1>2, <2>2, <3>1 DEF IInv, References
    <2> QED
      BY <2>1, <2>2
  <1>5. TypeOK'
    <2>1. refcnt' \in [Bufs -> 0..Cardinality(Uses)]
      <3>1. Cardinality(Users(b)') \in 0..Cardinality(Uses)
        <4>1. Users(b)' \in SUBSET Uses
          BY DEF Users
        <4> QED
          BY <4>1, UsesFinite, FS_Subset, FS_CardinalityType
      <3>2. refcnt'[b] \in 0..Cardinality(Uses)
        BY <1>4, <3>1
      <3> QED
        BY <1>1, <1>2, <3>2
    <2> QED
      BY <1>1, <1>2, <2>1 DEF IInv, TypeOK, Labels
  <1>6. References'
    <2>1. ASSUME NEW q \in Uses
          PROVE  IF pc'[q] = "idle" THEN buf'[q] = None
                 ELSE /\ buf'[q] \in Bufs /\ want'[q] \in Blocks
                      /\ blockno'[buf'[q]] = want'[q]
      BY <1>1, <1>2, <1>3 DEF IInv, References
    <2> QED
      BY <1>4, <2>1 DEF References
  <1>7. OneBufferPerBlock'
    BY <1>1, <1>2, <1>3 DEF IInv, OneBufferPerBlock
  <1>8. SleepLocks' /\ \A c : Modified(c)' <=> Modified(c)
    BY <1>1, OutsideLocks
  <1>9. Requests'
    <2>1. \A c \in Bufs : c # b => (Requested(c)' <=> Requested(c)) /\ valid'[c] = valid[c]
      BY <1>1, <1>2 DEF Requested
    <2>2. ASSUME NEW k \in 1..Len(idequeue')
          PROVE  /\ Requested(idequeue[k])'
                 /\ \E q \in Uses : pc'[q] = "wait" /\ buf'[q] = idequeue'[k]
      <3>1. PICK q \in Uses : pc[q] = "wait" /\ buf[q] = idequeue[k] /\ Requested(idequeue[k])
        BY <1>1 DEF IInv, Requests
      <3>2. idequeue[k] \in Bufs /\ idequeue[k] # b /\ q # p /\ idequeue' = idequeue
        BY <1>1, <1>3, <3>1, HasBuffer
      <3>3. Requested(idequeue[k])'
        BY <2>1, <3>1, <3>2
      <3> QED
        BY <1>1, <1>2, <3>1, <3>2, <3>3
    <2>3. ASSUME NEW q \in Uses
          PROVE  /\ pc'[q] = "submit" => Requested(buf[q])'
                 /\ pc'[q] = "wait" /\ Requested(buf[q])' => Contains(idequeue', buf'[q])
                 /\ pc'[q] \in {"use", "modified"} => valid'[buf'[q]]
      <3>1. CASE q = p
        BY <1>1, <1>2, <3>1
      <3>2. CASE q # p /\ pc[q] # "idle"
        <4>1. pc'[q] = pc[q] /\ buf'[q] = buf[q] /\ buf[q] \in Bufs /\ buf[q] # b
          BY <1>1, <1>2, <1>3, <3>2, HasBuffer
        <4>2. (Requested(buf[q])' <=> Requested(buf[q])) /\ valid'[buf[q]] = valid[buf[q]]
          BY <2>1, <4>1
        <4> QED
          BY <1>1, <4>1, <4>2 DEF IInv, Requests
      <3>3. CASE q # p /\ pc[q] = "idle"
        BY <1>1, <1>2, <3>3
      <3> QED
        BY <3>1, <3>2, <3>3
    <2>4. \A j, k \in 1..Len(idequeue') : idequeue'[j] = idequeue'[k] => j = k
      BY <1>1 DEF IInv, Requests
    <2> QED
      BY <2>2, <2>3, <2>4 DEF Requests
  <1>10. disk[n] = latest[n]
    BY <1>1 DEF IInv, NothingLost
  <1>11. ~Modified(b)
    BY <1>3 DEF Modified
  <1>12. Coherent'
    <2>1. ASSUME NEW c \in Bufs, c # b
          PROVE  blockno'[c] = blockno[c] /\ valid'[c] = valid[c] /\ dirty'[c] = dirty[c] /\ data'[c] = data[c]
      BY <1>1, <1>2, <2>1
    <2>2. ~valid'[b] /\ ~dirty'[b] /\ blockno'[b] = n /\ disk'[n] = latest'[n]
      BY <1>1, <1>2, <1>3, <1>10
    <2>3. ~Modified(b)'
      BY <1>8, <1>11
    <2>4. ASSUME NEW c \in Bufs, c # b
          PROVE  /\ ~valid'[c] => ~dirty'[c]
                 /\ blockno'[c] = None => ~valid'[c]
                 /\ blockno'[c] # None =>
                      /\ ~dirty'[c] /\ ~Modified(c)' => disk'[blockno'[c]] = latest'[blockno'[c]]
                      /\ dirty'[c] \/ Modified(c)' => data'[c] = latest'[blockno'[c]]
                      /\ valid'[c] /\ FALSE \notin ReadOutcomes => data'[c] = latest'[blockno'[c]]
      BY ZenonT(40), <1>1, <1>8, <2>1, <2>4 DEF IInv, Coherent
    <2> QED
      BY <2>2, <2>3, <2>4 DEF Coherent
  <1>13. NothingLost'
    <2>1. ASSUME NEW x \in Blocks, Cached(x)' = {} PROVE disk'[x] = latest'[x]
      <3>1. CASE blockno[b] = x
        <4>1. blockno[b] # None
          BY <3>1
        <4> QED
          BY <1>1, <1>3, <1>11, <3>1, <4>1 DEF IInv, Coherent
      <3>2. CASE blockno[b] # x
        <4>1. Cached(x) = {}
          BY <1>1, <1>2, <2>1, <3>2 DEF Cached
        <4> QED
          BY <1>1, <4>1 DEF IInv, NothingLost
      <3> QED
        BY <3>1, <3>2
    <2> QED
      BY <2>1 DEF NothingLost
  <1> QED
    BY <1>5, <1>6, <1>7, <1>8, <1>9, <1>12, <1>13 DEF IInv

(* For any number of buffers, processes and blocks, and also when reads    *)
(* fail: bget never gives a block two buffers, nothing is recycled that    *)
(* the disk does not have, and every request of iderw is served once.      *)
THEOREM Invariance == Spec => []IInv
  <1>1. IInv /\ [Next]_vars => IInv'
    <2> SUFFICES ASSUME IInv, [Next]_vars PROVE IInv'
      OBVIOUS
    <2>1. ASSUME NEW p \in Uses, NEW n \in Blocks, BgetPanic(p, n) PROVE IInv'
      <3>1. UNCHANGED <<bufs, owner, lru, idequeue, disk, pc, want, buf, latest, writes>>
            /\ panicked' \in BOOLEAN
        BY <2>1 DEF BgetPanic
      <3> QED
        BY <3>1, StutterKeeps
    <2>2. ASSUME NEW p \in Uses, Bread(p) PROVE IInv'
      BY <2>1, <2>2, BgetHitKeeps, BgetRecycleKeeps DEF Bread
    <2>3. ASSUME NEW p \in Uses, Step(p) PROVE IInv'
      BY <2>3, AcquireSleepKeeps, IderwKeeps, IdeDoneKeeps, ModifyKeeps, DirtyKeeps,
         ReleaseSleepKeeps, BrelseKeeps DEF Step, Use
    <2>4. CASE Interrupt
      BY <2>4, IdeIntrKeeps DEF Interrupt
    <2>5. CASE UNCHANGED vars
      <3>1. UNCHANGED <<bufs, owner, lru, idequeue, disk, pc, want, buf, latest, writes>>
            /\ panicked' \in BOOLEAN
        BY <2>5 DEF vars, IInv, TypeOK
      <3> QED
        BY <3>1, StutterKeeps
    <2> QED
      BY <2>2, <2>3, <2>4, <2>5 DEF Next
  <1> QED
    BY <1>1, InitIInv, PTL DEF Spec

(* With a disk whose reads succeed, bread returns the block that was asked *)
(* for with its latest content, however buffers were shared and recycled.  *)
THEOREM ReadsAreLatest ==
  ASSUME FALSE \notin ReadOutcomes
  PROVE  Spec => []ReadsLatest
  <1>1. IInv => ReadsLatest
    <2> SUFFICES ASSUME IInv, NEW p \in Uses, pc[p] \in {"use", "modified"}
                 PROVE  blockno[buf[p]] = want[p] /\ data[buf[p]] = latest[want[p]]
      BY DEF ReadsLatest
    <2>1. buf[p] \in Bufs /\ blockno[buf[p]] = want[p] /\ want[p] # None
      BY HasBuffer
    <2>2. valid[buf[p]]
      BY DEF IInv, Requests
    <2> QED
      BY <2>1, <2>2 DEF IInv, Coherent
  <1> QED
    BY <1>1, Invariance, PTL
=============================================================================
