------------------------------ MODULE FsProofs ------------------------------
(***************************************************************************)
(* Theorems about Fs, for every number of processes, inodes, slots of the  *)
(* inode cache and blocks and for every set of names and calls: IInv is an *)
(* invariant (Invariance); and if no path climbs through "..", only iput   *)
(* of a directory above an inode locked, or of one that its caller has     *)
(* locked, can close a cycle of waits (OnlyIput), no inode or              *)
(* block is freed under anybody (NeverPanics), and what the root leads to  *)
(* is a tree (TreeIsSound).                                                *)
(*                                                                         *)
(* First the steps that change entries or counts, then what mkfs and mkdir *)
(* have put on the disk when Init begins, and then the theorems.          *)
(* Nothing is claimed of the last three for paths that climb: a directory  *)
(* that was removed still has its "..", whose inode may be free.           *)
(***************************************************************************)
EXTENDS FsSteps

(* Lock, change and unlock leave the locks as they were. *)
LEMMA Unlocks ==
  ASSUME Core, NEW p \in Procs, NEW i \in Inums, k.lock[i] = None, NEW u, NEW di, NEW ref,
         Becomes(u, di, ref, With(k.lock, i, p))
  PROVE  Becomes(iunlock(u, i), di, ref, k.lock)
<1>1. Good(u) /\ u.di = di /\ u.ref = ref /\ u.lock = With(k.lock, i, p)
  BY DEF Becomes
<1>2. Becomes(iunlock(u, i), u.di, u.ref, With(u.lock, i, None))
  BY <1>1, GoodIunlock
<1>3. With(With(k.lock, i, p), i, None) = k.lock
  <2>1. k.lock \in [Inums -> Procs \cup {None}] /\ p \in Procs \cup {None}
    BY CoreTypes
  <2> QED  BY <2>1 DEF With
<1> QED  BY <1>1, <1>2, <1>3

(* The count of links of an inode that p has locked. *)
LEMMA Adding ==
  ASSUME NEW s \in Kernel, NEW i \in Inums, NEW n \in Int, NEW di, NEW ref, NEW lock,
         s.panic # "no" \/ (Becomes(s, di, ref, lock) /\ lock[i] # None)
  PROVE  /\ AddLinks(s, i, n) \in Kernel
         /\ s.panic # "no" => AddLinks(s, i, n).panic # "no"
         /\ s.panic = "no" => \E e \in Inode : /\ e.type = di[i].type /\ e.nlink = di[i].nlink + n /\ e.ents = di[i].ents
                                               /\ Becomes(AddLinks(s, i, n), With(di, i, e), ref, lock)
<1>1. AddLinks(s, i, n) \in Kernel /\ (s.panic # "no" => AddLinks(s, i, n).panic # "no")
  BY AddLinksIs DEF Stays
<1>2. ASSUME s.panic = "no"
      PROVE  \E e \in Inode : /\ e.type = di[i].type /\ e.nlink = di[i].nlink + n /\ e.ents = di[i].ents
                              /\ Becomes(AddLinks(s, i, n), With(di, i, e), ref, lock)
  <2> DEFINE e == Ino(s.di[i].type, s.di[i].nlink + n, s.di[i].ents, s.di[i].blk)
  <2>1. Good(s) /\ s.di = di /\ s.ref = ref /\ s.lock = lock /\ s.lock[i] # None
    BY <1>2 DEF Becomes
  <2>2. e \in Inode /\ Becomes(AddLinks(s, i, n), With(s.di, i, e), s.ref, s.lock)
    BY <2>1, GoodAddLinks
  <2>3. e.type = di[i].type /\ e.nlink = di[i].nlink + n /\ e.ents = di[i].ents
    BY <2>1 DEF Ino
  <2> HIDE DEF e
  <2> QED  BY <2>1, <2>2, <2>3
<1> QED  BY <1>1, <1>2

(* write adds a block. IInv is kept. *)
LEMMA WriteKeeps ==
  ASSUME Core, NEW p \in Procs, Write(p) PROVE IInv'
<1> DEFINE i == fd[p]
           t == ilock(k, p, i)
           u == iupdate(bmap(t, i), i)
           s == iunlock(u, i)
           w == cwd[p]
           l == "idle"
           q == <<>>
           r == NoCall
<1>1. pc[p] = "idle" /\ puts[p] = <<>> /\ left > 0 /\ left' = left - 1 /\ cwd' = cwd /\ fd' = fd
        /\ k.lock[i] = None
      /\ k.di[i].type = "file" /\ i # 0 /\ Goto(p, s, l, r, q)
  BY DEF Write, At, Free, Return
<1>2. i \in Inums /\ k.ref[i] > 0 /\ k.ref \in [Inums -> Nat] /\ Place(p) /\ k.di \in [Inums -> Inode]
  BY <1>1, OldRef, CoreTypes
<1>3. t \in Kernel /\ Becomes(t, k.di, k.ref, With(k.lock, i, p))
  BY <1>1, <1>2, Locking
<1> HIDE DEF t
<1>4. Good(t) /\ t.di = k.di /\ t.ref = k.ref /\ t.lock = With(k.lock, i, p) /\ t.lock[i] # None
  <2>1. k.lock \in [Inums -> Procs \cup {None}] /\ None # p
    BY CoreTypes, Numbers
  <2>2. With(k.lock, i, p)[i] = p
    BY <1>2, <2>1 DEF With
  <2> QED  BY <1>3, <2>1, <2>2 DEF Becomes
<1>5. /\ u \in Kernel
      /\ \/ u.panic = "balloc: out of blocks"
         \/ \E e \in Inode : /\ e.type = t.di[i].type /\ e.nlink = t.di[i].nlink
                             /\ e.ents = t.di[i].ents
                             /\ Becomes(u, With(t.di, i, e), t.ref, t.lock)
  BY <1>2, <1>4, GoodAppend
<1> HIDE DEF u
<1>6. s \in Kernel /\ (u.panic # "no" => s.panic # "no")
  BY <1>2, <1>5, IunlockIs DEF Stays
<1>7. cwd' = [cwd EXCEPT ![p] = w] /\ fd' = [fd EXCEPT ![p] = i] /\ left' \in Nat /\ w \in Inums
        /\ i \in 0..NINODES
  BY <1>1, CoreTypes DEF Core, TypeOK
<1>8. q \in Seq(Inums) /\ Len(q) <= 2 /\ Put(q, 1) = 0 /\ Put(q, 2) = 0
  BY <1>2, PutOne
<1>9. r \in InCall /\ r.op = "none" /\ r.ip = 0 /\ r.held = 0 /\ c[p] = r
  BY <1>1, <1>2, NoCallIs DEF Place
<1>10. Typed(l, r, q, w, i)
  BY <1>7, <1>8, <1>9 DEF Typed, Labels
<1>11. Goes(p, s, l, r, q, w, i)
  BY <1>1, <1>7, <1>10 DEF Goes
<1>12. CASE u.panic = "balloc: out of blocks"
  BY <1>6, <1>11, <1>12, PanicGoto
<1>13. ASSUME NEW e \in Inode, e.type = t.di[i].type, e.nlink = t.di[i].nlink,
              e.ents = t.di[i].ents,
              Becomes(u, With(t.di, i, e), t.ref, t.lock)
       PROVE  IInv'
  <2>1. Becomes(s, With(k.di, i, e), k.ref, k.lock)
    BY <1>1, <1>2, <1>4, <1>13, Unlocks
  <2>2. RefsFit(p, k.ref, w, i, r, q)
    <3>1. ASSUME NEW j \in Inums
          PROVE  k.ref[j] + Is(cwd[p], j) + Is(fd[p], j) + Is(c[p].ip, j) + Is(c[p].held, j)
                     = k.ref[j] + Is(w, j) + Is(i, j) + Is(0, j) + Is(0, j) + Is(0, j) + Is(0, j)
      BY <1>2, <1>9, IsIs
    <3> HIDE DEF q, w, i, r
    <3> QED  BY <1>1, <1>2, <1>8, <1>9, <3>1, FitRefs
  <2>3. LocksFit(p, k.lock, l, r)
    BY <1>1, SameLocks DEF NoLock, Labels
  <2>4. PlaceFit(l, r, q)
    BY <1>8, <1>9 DEF PlaceFit, InParent, Started
  <2>5. KnowsFit(k.di, l, r, q)
    BY <1>9 DEF KnowsFit, InParent
  <2>6. SafeFor(p, w) /\ SafeFor(p, i)
    BY <1>1, OldSafe
  <2>7. SureFit(p, l, r, q, w, i)
    BY <1>8, <1>9, <2>6 DEF SureFit
  <2>8. e.type = k.di[i].type /\ e.ents = k.di[i].ents /\ e.nlink = k.di[i].nlink
    BY <1>4, <1>13
  <2>9. \A x \in Inums : (IF x = i THEN e.nlink ELSE k.di[x].nlink) + One(CountedOn(p, x))
             >= k.di[x].nlink + One((r.op = "link2" \/ l = "erased") /\ r.held = x)
    <3> SUFFICES ASSUME NEW x \in Inums
                 PROVE  k.di[x].nlink + One(CountedOn(p, x)) >= k.di[x].nlink + One((r.op = "link2" \/ l = "erased") /\ r.held = x)
      BY <2>8
    <3>1. One((r.op = "link2" \/ l = "erased") /\ r.held = x) = 0 /\ One(CountedOn(p, x)) \in Nat
            /\ k.di[x].nlink \in Int
      BY <1>9, Counts DEF One
    <3> QED  BY <3>1
  <2>10. l # "ialloc" /\ pc[p] # "ialloc" /\ k.lock[i] \in {p, None}
    BY <1>1
  <2> HIDE DEF s, l, r, q, w, i
  <2> QED  BY ONLY <1>2, <1>11, <2>1, <2>2, <2>3, <2>4, <2>5, <2>6, <2>7, <2>8, <2>9, <2>10,
                   e \in Inode, Core, p \in Procs, CountGoto
<1> QED  BY <1>5, <1>12, <1>13

(* A call that takes a link from held and returns: the end of unlink, and of link that fails. *)
LEMMA Uncounts ==
  ASSUME Core, NEW p \in Procs, puts[p] = <<>>, NEW i \in Inums, i = c[p].held, c[p].ip = 0,
         CountedOn(p, i),
         pc[p] # "ialloc", k.lock[i] \in {p, None}, NEW s, NEW e \in Inode, NEW lock,
         e.type = k.di[i].type, e.nlink = k.di[i].nlink - 1, e.ents = k.di[i].ents,
         Becomes(s, With(k.di, i, e), k.ref, lock), LocksFit(p, lock, "idle", NoCall),
         Return(p, s, <<i>>), Rest, SafeFor(p, i)
  PROVE  IInv'
<1> DEFINE w == cwd[p]
           f == fd[p]
           l == "idle"
           q == <<i>>
           r == NoCall
<1>1. k.ref \in [Inums -> Nat] /\ Goto(p, s, l, r, q)
  BY CoreTypes DEF Return
<1>2. cwd' = [cwd EXCEPT ![p] = w] /\ fd' = [fd EXCEPT ![p] = f] /\ left' \in Nat /\ w \in Inums
        /\ f \in 0..NINODES
  BY RestIs
<1>3. q \in Seq(Inums) /\ Len(q) <= 2 /\ Put(q, 1) = i /\ Put(q, 2) = 0
  BY PutOne
<1>4. r \in InCall /\ r.op = "none" /\ r.ip = 0 /\ r.held = 0
  BY NoCallIs
<1>5. Typed(l, r, q, w, f)
  BY <1>2, <1>3, <1>4 DEF Typed, Labels
<1>6. Goes(p, s, l, r, q, w, f)
  BY <1>1, <1>2, <1>5 DEF Goes
<1>7. RefsFit(p, k.ref, w, f, r, q)
  <2>1. ASSUME NEW j \in Inums
        PROVE  k.ref[j] + Is(cwd[p], j) + Is(fd[p], j) + Is(c[p].ip, j) + Is(c[p].held, j)
                     = k.ref[j] + Is(w, j) + Is(f, j) + Is(0, j) + Is(0, j) + Is(i, j) + Is(0, j)
    <3>1. k.ref[j] \in Nat /\ Is(0, j) = 0 /\ Is(i, j) \in Nat /\ Is(c[p].ip, j) = 0
            /\ Is(cwd[p], j) \in Nat /\ Is(fd[p], j) \in Nat
          /\ Is(c[p].held, j) = Is(i, j) /\ w = cwd[p] /\ f = fd[p]
      BY <1>1, IsIs
    <3> HIDE DEF w, f
    <3> QED  BY ONLY <3>1
  <2>2. k.ref \in [Inums -> Nat]
    BY <1>1
  <2> HIDE DEF q, w, f, r
  <2> QED  BY ONLY <1>3, <1>4, <2>1, <2>2, Core, p \in Procs, puts[p] = <<>>, FitRefs
<1>8. LocksFit(p, lock, l, r)
  OBVIOUS
<1>9. PlaceFit(l, r, q)
  BY <1>3, <1>4 DEF PlaceFit, InParent, Started
<1>10. KnowsFit(k.di, l, r, q)
  BY <1>4 DEF KnowsFit, InParent
<1>11. SureFit(p, l, r, q, w, f)
  BY <1>3, <1>4, OldSafe DEF SureFit
<1>12. \A x \in Inums : (IF x = i THEN e.nlink ELSE k.di[x].nlink) + One(CountedOn(p, x))
             >= k.di[x].nlink + One((r.op = "link2" \/ l = "erased") /\ r.held = x)
  <2> SUFFICES ASSUME NEW x \in Inums
               PROVE  (IF x = i THEN e.nlink ELSE k.di[x].nlink) + One(CountedOn(p, x))
             >= k.di[x].nlink + One((r.op = "link2" \/ l = "erased") /\ r.held = x)
    OBVIOUS
  <2>1. One((r.op = "link2" \/ l = "erased") /\ r.held = x) = 0 /\ One(CountedOn(p, x)) \in Nat
          /\ k.di[x].nlink \in Int
    BY <1>4, Counts DEF One
  <2>2. x = i => One(CountedOn(p, x)) = 1
    BY DEF One
  <2> QED  BY <2>1, <2>2
<1>13. l # "ialloc"
  OBVIOUS
<1> HIDE DEF l, r, q, w, f
<1> QED  BY ONLY <1>6, <1>7, <1>8, <1>9, <1>10, <1>11, <1>12, <1>13, Core, p \in Procs, i \in Inums,
                 e \in Inode, CountGoto,
              Becomes(s, With(k.di, i, e), k.ref, lock), pc[p] # "ialloc", k.lock[i] \in {p, None}, SafeFor(p, i),
              e.type = k.di[i].type, e.ents = k.di[i].ents

(* unlink takes the count down. IInv is kept. *)
LEMMA UnlinkDoneKeeps ==
  ASSUME Core, NEW p \in Procs, UnlinkDone(p) PROVE IInv'
<1> DEFINE i == c[p].held
           t == AddLinks(k, i, -1)
           s == iunlock(t, i)
           lock == With(k.lock, i, None)
<1>1. pc[p] = "erased" /\ puts[p] = <<>> /\ Rest /\ Return(p, s, <<i>>)
  BY DEF UnlinkDone, At
<1>2. c[p].ip = 0 /\ i # 0 /\ i \in Inums /\ -1 \in Int
  BY <1>1, CoreTypes, OldRef DEF Place, HasIp, HasHeld, InParent
<1>3. \A j \in Inums : k.lock[j] = p <=> j = i
  BY <1>1, HasLocks
<1>4. k \in Kernel /\ Becomes(k, k.di, k.ref, k.lock) /\ k.lock[i] # None /\ k.panic = "no"
  BY <1>2, <1>3, CoreGood, Numbers DEF Becomes, Good
<1>5. PICK e \in Inode : /\ e.type = k.di[i].type /\ e.nlink = k.di[i].nlink + (-1) /\ e.ents = k.di[i].ents
                         /\ Becomes(t, With(k.di, i, e), k.ref, k.lock)
  BY <1>2, <1>4, Adding
<1> HIDE DEF t
<1>6. Becomes(s, With(k.di, i, e), k.ref, lock)
  <2>1. Good(t) /\ t.di = With(k.di, i, e) /\ t.ref = k.ref /\ t.lock = k.lock
    BY <1>5 DEF Becomes
  <2>2. Becomes(s, t.di, t.ref, With(t.lock, i, None))
    BY <1>2, <2>1, GoodIunlock
  <2> QED  BY <2>1, <2>2
<1>7. LocksFit(p, lock, "idle", NoCall)
  <2>1. "idle" \in NoLock
    BY DEF NoLock, Labels
  <2> QED  BY <1>2, <1>3, <2>1, LockFrees
<1>8. CountedOn(p, i) /\ SafeFor(p, i) /\ k.lock[i] \in {p, None} /\ pc[p] # "ialloc"
  BY <1>1, <1>2, <1>3, OldSafe DEF CountedOn
<1>9. e.nlink = k.di[i].nlink - 1 /\ e.type = k.di[i].type /\ e.ents = k.di[i].ents
  <2>1. k.di[i].nlink \in Int
    BY <1>2, Counts
  <2> QED  BY <1>5, <2>1
<1>10. i = c[p].held
  OBVIOUS
<1> HIDE DEF i, s, lock
<1> QED  BY ONLY <1>1, <1>2, <1>6, <1>7, <1>8, <1>9, <1>10, e \in Inode, Core, p \in Procs, Uncounts

(* A link that failed takes its count back. IInv is kept. *)
LEMMA LinkBadKeeps ==
  ASSUME Core, NEW p \in Procs, LinkBad(p) PROVE IInv'
<1> DEFINE i == c[p].held
           u == ilock(k, p, i)
           t == AddLinks(u, i, -1)
           s == iunlock(t, i)
           h == With(k.lock, i, p)
<1>1. pc[p] = "linkbad" /\ puts[p] = <<>> /\ Rest /\ Return(p, s, <<i>>) /\ k.lock[i] = None
  BY DEF LinkBad, At, Free
<1>2. c[p].ip = 0 /\ i # 0 /\ i \in Inums /\ -1 \in Int /\ c[p].op = "link2" /\ k.ref[i] > 0
  BY <1>1, CoreTypes, OldRef, SMTT(20) DEF Place, HasIp, HasHeld, InParent
<1>3. SafeFor(p, i)
  BY <1>1, <1>2, OldSafe
<1>4. u \in Kernel /\ Becomes(u, k.di, k.ref, h)
  BY <1>1, <1>2, <1>3, Locking DEF SafeFor
<1>5. h[i] # None /\ u.panic = "no"
  <2>1. k.lock \in [Inums -> Procs \cup {None}] /\ None # p
    BY CoreTypes, Numbers
  <2>2. h[i] = p
    BY <1>2, <2>1 DEF With
  <2> QED  BY <1>4, <2>1, <2>2 DEF Becomes, Good
<1> HIDE DEF u, h
<1>6. PICK e \in Inode : /\ e.type = k.di[i].type /\ e.nlink = k.di[i].nlink + (-1) /\ e.ents = k.di[i].ents
                         /\ Becomes(t, With(k.di, i, e), k.ref, h)
  BY <1>2, <1>4, <1>5, Adding
<1> HIDE DEF t
<1>7. Becomes(s, With(k.di, i, e), k.ref, k.lock)
  BY <1>1, <1>2, <1>6, Unlocks DEF h
<1>8. LocksFit(p, k.lock, "idle", NoCall)
  BY <1>1, SameLocks DEF NoLock, Labels
<1>9. CountedOn(p, i) /\ k.lock[i] \in {p, None} /\ pc[p] # "ialloc"
  BY <1>1, <1>2 DEF CountedOn
<1>10. e.nlink = k.di[i].nlink - 1 /\ e.type = k.di[i].type /\ e.ents = k.di[i].ents
  <2>1. k.di[i].nlink \in Int
    BY <1>2, Counts
  <2> QED  BY <1>6, <2>1
<1>11. i = c[p].held
  OBVIOUS
<1> HIDE DEF i, s
<1> QED  BY ONLY <1>1, <1>2, <1>3, <1>7, <1>8, <1>9, <1>10, <1>11, e \in Inode, Core, p \in Procs,
                 Uncounts

(* link counts before it walks. IInv is kept. *)
LEMMA LinkCountKeeps ==
  ASSUME Core, NEW p \in Procs, LinkCount(p) PROVE IInv'
<1> DEFINE i == c[p].ip
           path == c[p].new
           u == ilock(k, p, i)
           t == AddLinks(u, i, 1)
           v == iunlock(t, i)
           a == From(p, path)
           s == Start(v, p, path)
           r == LinkTo(c[p], i, a, path.names)
           w == cwd[p]
           f == fd[p]
           l == "walk"
           q == <<>>
           h == With(k.lock, i, p)
           ref == With(k.ref, a, k.ref[a] + 1)
<1>1. /\ pc[p] = "link" /\ puts[p] = <<>> /\ Rest /\ k.lock[i] = None
      /\ u.ic[i].type = "dir" => Return(p, iunlock(u, i), <<i>>)
      /\ u.ic[i].type # "dir" => Goto(p, s, l, r, q)
  BY DEF LinkCount, At, Free, Counted, LinkTo
<1>2. c[p].op = "link" /\ i \in Inums /\ k.ref[i] > 0 /\ c[p].held = 0 /\ c[p] \in InCall
        /\ pc[p] \in NoLock
  BY <1>1, CoreTypes, OldRef DEF Place, HasIp, HasHeld, InParent, Started, NoLock, Labels
<1>3. /\ u \in Kernel /\ u.ic[i] = k.di[i]
      /\ k.di[i].type = "free" => u.panic = "ilock: no type"
      /\ k.di[i].type # "free" => Becomes(u, k.di, k.ref, h)
  BY <1>1, <1>2, Locking
<1>4. CASE u.ic[i].type = "dir"
  BY <1>1, <1>2, <1>4, Returns
<1>5. CASE u.ic[i].type # "dir"
  <2>1. Goto(p, s, l, r, q) /\ k.di[i].type # "dir"
    BY <1>1, <1>3, <1>5
  <2>2. path \in Path /\ path.names \in Seq(Elems)
    <3>1. path \in [abs : BOOLEAN, names : Seq(Elems)]
      BY <1>2, CalIs
    <3> HIDE DEF path
    <3> QED  BY <3>1, ElemsAre DEF Path
  <2>3. h[i] # None /\ 1 \in Int
    <3>1. k.lock \in [Inums -> Procs \cup {None}] /\ None # p
      BY CoreTypes, Numbers
    <3> QED  BY <1>2, <3>1 DEF With
  <2> HIDE DEF u, h, path
  <2>4. u.panic # "no" \/ (Becomes(u, k.di, k.ref, h) /\ h[i] # None)
    BY <1>3, <2>3
  <2>5. /\ t \in Kernel
        /\ u.panic # "no" => t.panic # "no"
        /\ u.panic = "no" => \E e \in Inode : /\ e.type = k.di[i].type /\ e.nlink = k.di[i].nlink + 1 /\ e.ents = k.di[i].ents
                                              /\ Becomes(t, With(k.di, i, e), k.ref, h)
    BY ONLY <1>2, <1>3, <2>3, <2>4, Adding
  <2> HIDE DEF t
  <2>6. v \in Kernel /\ (t.panic # "no" => v.panic # "no")
    BY <1>2, <2>5, IunlockIs DEF Stays
  <2>7. ASSUME NEW di, Becomes(t, di, k.ref, h) PROVE Becomes(v, di, k.ref, k.lock)
    BY <1>1, <1>2, <2>7, Unlocks DEF h
  <2> HIDE DEF v
  <2>8. /\ a \in Inums /\ s \in Kernel /\ SafeFor(p, a)
        /\ v.panic # "no" => s.panic # "no"
        /\ Good(v) /\ v.ref = k.ref
             => s.panic # "no" \/ Becomes(s, v.di, With(k.ref, a, k.ref[a] + 1), v.lock)
    BY <2>2, <2>6, Starts
  <2>9. cwd' = [cwd EXCEPT ![p] = w] /\ fd' = [fd EXCEPT ![p] = f] /\ left' \in Nat /\ w \in Inums
          /\ f \in 0..NINODES
    BY <1>1, RestIs
  <2>10. q \in Seq(Inums) /\ Len(q) <= 2 /\ Put(q, 1) = 0 /\ Put(q, 2) = 0
    BY <1>2, PutOne
  <2> HIDE DEF a, s
  <2>11. r \in InCall /\ r.op = "link2" /\ r.parent /\ r.ip = a /\ r.held = i
    <3>1. i \in 0..NINODES /\ a \in 0..NINODES
      BY <1>2, <2>8, Numbers
    <3> DEFINE b == path.names
               o == c[p]
    <3>2. r = LinkTo(o, i, a, b) /\ o \in InCall /\ b \in Seq(Elems)
      BY <1>2, <2>2
    <3> HIDE DEF r, i, b, o
    <3> QED  BY ONLY <3>1, <3>2, CalLink
  <2> HIDE DEF r, q
  <2>12. Typed(l, r, q, w, f)
    BY <2>9, <2>10, <2>11 DEF Typed, Labels
  <2>13. Goes(p, s, l, r, q, w, f)
    BY <1>1, <2>1, <2>9, <2>12 DEF Goes
  <2>14. CASE s.panic # "no"
    BY <2>8, <2>13, <2>14, PanicGoto
  <2>15. CASE s.panic = "no"
    <3>1. u.panic = "no" /\ k.di[i].type # "free"
      BY <1>3, <2>5, <2>6, <2>8, <2>15
    <3>2. PICK e \in Inode : /\ e.type = k.di[i].type /\ e.nlink = k.di[i].nlink + 1 /\ e.ents = k.di[i].ents
                             /\ Becomes(t, With(k.di, i, e), k.ref, h)
      BY <2>5, <3>1
    <3>3. Becomes(v, With(k.di, i, e), k.ref, k.lock)
      BY <2>7, <3>2
    <3>4. Becomes(s, With(k.di, i, e), ref, k.lock)
      BY <2>8, <2>15, <3>3 DEF Becomes
    <3>5. SafeFor(p, i) /\ SafeFor(p, a) /\ SafeFor(p, w) /\ (f # 0 => SafeFor(p, f))
      BY <1>1, <1>2, <2>8, <3>1, FoundLocked, OldSafe
    <3>6. RefsFit(p, ref, w, f, r, q)
      <4>1. k.ref \in [Inums -> Nat] /\ ref \in [Inums -> Nat]
        BY <2>8, RefsWith
      <4>2. ASSUME NEW j \in Inums
            PROVE  ref[j] + Is(cwd[p], j) + Is(fd[p], j) + Is(c[p].ip, j) + Is(c[p].held, j)
                     = k.ref[j] + Is(w, j) + Is(f, j) + Is(a, j) + Is(i, j) + Is(0, j) + Is(0, j)
        <5>1. k.ref[j] \in Nat /\ Is(0, j) = 0 /\ Is(i, j) \in Nat /\ Is(a, j) \in Nat
                /\ Is(cwd[p], j) \in Nat /\ Is(fd[p], j) \in Nat
              /\ Is(c[p].held, j) = 0 /\ w = cwd[p] /\ f = fd[p] /\ i = c[p].ip
          BY <1>2, <4>1, IsIs
        <5>2. ref[j] = k.ref[j] + Is(a, j)
          BY <2>8, <4>1, RefMore
        <5> HIDE DEF w, f, i, ref
        <5> QED  BY ONLY <5>1, <5>2
      <4>3. puts[p] = <<>> /\ r.ip = a /\ r.held = i
        BY <1>1, <2>11
      <4> HIDE DEF w, f, i, ref
      <4> QED  BY ONLY <2>10, <4>1, <4>2, <4>3, Core, p \in Procs, FitRefs
    <3>7. LocksFit(p, k.lock, l, r)
      <4>1. puts[p] = <<>> /\ pc[p] \in NoLock /\ l \in NoLock
        BY <1>1, <1>2 DEF NoLock, Labels
      <4> HIDE DEF l
      <4> QED  BY ONLY <4>1, Core, p \in Procs, SameLocks
    <3>8. PlaceFit(l, r, q)
      <4>1. a # 0 /\ i # 0
        BY <1>2, <2>8, Numbers
      <4> QED  BY <2>10, <2>11, <4>1 DEF PlaceFit, InParent, Started
    <3>9. KnowsFit(k.di, l, r, q)
      BY <2>1, <2>11 DEF KnowsFit, InParent
    <3>10. SureFit(p, l, r, q, w, f)
      BY <2>10, <2>11, <3>5 DEF SureFit
    <3>11. \A x \in Inums : (IF x = i THEN e.nlink ELSE k.di[x].nlink) + One(CountedOn(p, x))
             >= k.di[x].nlink + One((r.op = "link2" \/ l = "erased") /\ r.held = x)
      <4> SUFFICES ASSUME NEW x \in Inums
                   PROVE  (IF x = i THEN e.nlink ELSE k.di[x].nlink) + One(CountedOn(p, x))
             >= k.di[x].nlink + One((r.op = "link2" \/ l = "erased") /\ r.held = x)
        OBVIOUS
      <4>1. One(CountedOn(p, x)) \in Nat /\ k.di[x].nlink \in Int
        BY Counts DEF One
      <4>2. One((r.op = "link2" \/ l = "erased") /\ r.held = x) = IF x = i THEN 1 ELSE 0
        BY <2>11 DEF One
      <4> QED  BY <3>2, <4>1, <4>2
    <3>12. l # "ialloc" /\ pc[p] # "ialloc" /\ k.lock[i] \in {p, None} /\ e.type = k.di[i].type
             /\ e.ents = k.di[i].ents
      BY <1>1, <3>2
    <3> HIDE DEF l, w, f, i, ref
    <3> QED  BY ONLY <1>2, <2>13, <3>4, <3>5, <3>6, <3>7, <3>8, <3>9, <3>10, <3>11, <3>12,
                     e \in Inode, Core, p \in Procs, CountGoto
  <2> QED  BY <2>14, <2>15
<1> QED  BY <1>4, <1>5

(* An entry of a directory that is locked. *)
LEMMA Entering ==
  ASSUME NEW s \in Kernel, NEW d \in Inums, NEW n \in AllNames, NEW j \in 0..NINODES, NEW di,
         NEW ref, NEW lock,
         s.panic # "no" \/ (Becomes(s, di, ref, lock) /\ lock[d] # None /\ di[d].type = "dir")
  PROVE  LET t == WriteEntry(s, d, n, j) IN
         /\ t \in Kernel
         /\ s.panic # "no" => t.panic # "no"
         /\ t.panic = "no" => \E e \in Inode : /\ e.type = "dir" /\ e.nlink = di[d].nlink /\ e.ents = With(di[d].ents, n, j)
                                               /\ Becomes(t, With(di, d, e), ref, lock)
<1> DEFINE t == WriteEntry(s, d, n, j)
<1>1. t \in Kernel /\ (s.panic # "no" => t.panic # "no")
  BY WriteEntryIs DEF Stays
<1>2. ASSUME t.panic = "no"
      PROVE  \E e \in Inode : /\ e.type = "dir" /\ e.nlink = di[d].nlink /\ e.ents = With(di[d].ents, n, j)
                              /\ Becomes(t, With(di, d, e), ref, lock)
  <2>1. Good(s) /\ s.di = di /\ s.ref = ref /\ s.lock = lock /\ s.lock[d] # None /\ s.di[d].type = "dir"
    BY <1>1, <1>2 DEF Becomes
  <2>2. \E e \in Inode : /\ e.type = "dir" /\ e.nlink = s.di[d].nlink
                         /\ e.ents = With(s.di[d].ents, n, j)
                         /\ Becomes(t, With(s.di, d, e), s.ref, s.lock)
    BY <1>2, <2>1, GoodWriteEntry
  <2> QED  BY <2>1, <2>2
<1> QED  BY <1>1, <1>2

(* Only a directory that is being made or freed lacks "." if no path climbs. *)
LEMMA LacksName ==
  ASSUME Core, ~Climbs, NEW p \in Procs, NEW d \in Inums, k.di[d].type = "dir", SafeFor(p, d),
         ~Exempt(p, d),
         NEW n \in Elems, k.di[d].ents[n] = 0
  PROVE  n \in Names
<1>1. n # ".." /\ n \in AllNames
  BY ElemsAre DEF Climbs
<1>2. n # "."
  <2> SUFFICES ASSUME n = "." PROVE FALSE
    OBVIOUS
  <2>1. k.di[d].ents["."] # d
    BY Numbers
  <2>2. PICK y \in Procs : Exempt(y, d)
    BY <2>1 DEF Core, DotsRight, Exempt
  <2> QED  BY <2>2 DEF SafeFor, Exempt
<1> QED  BY <1>1, <1>2 DEF AllNames

(* Put of two inodes. *)
LEMMA PutTwo ==
  ASSUME NEW i \in Inums, NEW j \in Inums
  PROVE  <<i, j>> \in Seq(Inums) /\ Len(<<i, j>>) <= 2 /\ Put(<<i, j>>, 1) = i /\ Put(<<i, j>>, 2) = j
BY PutIs

(* The entry is written. *)
LEMMA LinkWrites ==
  ASSUME Core, NEW p \in Procs, puts[p] = <<>>, pc[p] = "link2", NEW dp, dp = c[p].ip, NEW h,
         h = c[p].held,
         k.lock[dp] = None, NEW n, n = Head(c[p].rest), EntryOf(dp, n) = 0,
         Return(p, iunlock(WriteEntry(ilock(k, p, dp), dp, n, h), dp), <<dp, h>>), Rest
  PROVE  IInv'
<1> DEFINE u == ilock(k, p, dp)
           t == WriteEntry(u, dp, n, h)
           s == iunlock(t, dp)
           w == cwd[p]
           f == fd[p]
           l == "idle"
           q == <<dp, h>>
           r == NoCall
           lk == With(k.lock, dp, p)
<1>1. /\ c[p] \in InCall /\ c[p].op = "link2" /\ dp \in Inums /\ k.ref[dp] > 0 /\ h \in Inums
        /\ pc[p] \in NoLock
      /\ k.di[dp].type = "dir" /\ k.di[h].type # "dir" /\ c[p].rest # <<>> /\ SafeFor(p, dp)
           /\ SafeFor(p, h)
  <2>1. c[p] \in InCall /\ Place(p) /\ Knows(p)
    BY CoreTypes
  <2>2. c[p].op = "link2" /\ dp # 0 /\ h # 0 /\ pc[p] \in NoLock /\ pc[p] \in InParent
    BY <2>1 DEF Place, HasIp, HasHeld, InParent, Started, NoLock, Labels
  <2> QED  BY <2>1, <2>2, OldRef, OldSafe DEF Place, Knows, InParent
<1>2. n \in Elems /\ n \in AllNames /\ h \in 0..NINODES
  BY <1>1, HeadIn, Numbers
<1>3. u \in Kernel /\ Becomes(u, k.di, k.ref, lk)
  BY <1>1, Locking
<1>4. lk[dp] # None
  <2>1. k.lock \in [Inums -> Procs \cup {None}] /\ None # p
    BY CoreTypes, Numbers
  <2> QED  BY <1>1, <2>1 DEF With
<1>0. Goto(p, s, l, r, q)
  BY DEF Return
<1> HIDE DEF u, lk
<1>5. /\ t \in Kernel
      /\ t.panic = "no" => \E e \in Inode : /\ e.type = "dir" /\ e.nlink = k.di[dp].nlink /\ e.ents = With(k.di[dp].ents, n, h)
                                            /\ Becomes(t, With(k.di, dp, e), k.ref, lk)
  BY SMTT(30), <1>1, <1>2, <1>3, <1>4, Entering
<1> HIDE DEF t
<1>6. s \in Kernel /\ (t.panic # "no" => s.panic # "no")
  BY <1>1, <1>5, IunlockIs DEF Stays
<1>7. cwd' = [cwd EXCEPT ![p] = w] /\ fd' = [fd EXCEPT ![p] = f] /\ left' \in Nat /\ w \in Inums
        /\ f \in 0..NINODES
  BY RestIs
<1>8. q \in Seq(Inums) /\ Len(q) <= 2 /\ Put(q, 1) = dp /\ Put(q, 2) = h
  BY <1>1, PutTwo
<1>9. r \in InCall /\ r.op = "none" /\ r.ip = 0 /\ r.held = 0
  BY NoCallIs
<1>10. Goes(p, s, l, r, q, w, f)
  <2>1. Typed(l, r, q, w, f)
    BY <1>7, <1>8, <1>9 DEF Typed, Labels
  <2> HIDE DEF s, l, r, q
  <2> QED  BY <1>0, <1>7, <2>1 DEF Goes
<1>11. CASE s.panic # "no"
  BY <1>6, <1>10, <1>11, PanicGoto
<1>12. CASE s.panic = "no"
  <2>1. PICK e \in Inode : /\ e.type = "dir" /\ e.nlink = k.di[dp].nlink /\ e.ents = With(k.di[dp].ents, n, h)
                           /\ Becomes(t, With(k.di, dp, e), k.ref, lk)
    BY <1>5, <1>6, <1>12
  <2> DEFINE di == With(k.di, dp, e)
             d == IF n \in Names THEN dp ELSE Root
             m == IF n \in Names THEN n ELSE "a"
  <2>2. Becomes(s, di, k.ref, k.lock)
    BY <1>1, <2>1, Unlocks DEF lk
  <2>3. k.di \in [Inums -> Inode] /\ k.di[dp].ents \in [AllNames -> 0..NINODES]
          /\ k.ref \in [Inums -> Nat]
    BY <1>1, CoreTypes, InoIs
  <2>4. di[dp] = e /\ \A x \in Inums : x # dp => di[x] = k.di[x]
    BY <1>1, <2>3 DEF With
  <2>5. /\ \A x \in Inums : di[x].type = k.di[x].type /\ di[x].nlink = k.di[x].nlink
        /\ \A x \in Inums, y \in AllNames : (x # dp \/ y # n) => di[x].ents[y] = k.di[x].ents[y]
        /\ di[dp].ents[n] = h
    <3>1. e.ents[n] = h /\ \A y \in AllNames : y # n => e.ents[y] = k.di[dp].ents[y]
      BY <1>2, <2>1, <2>3 DEF With
    <3> HIDE DEF di
    <3> QED  BY ONLY <1>1, <2>1, <2>4, <3>1
  <2>6. d \in Inums /\ m \in Names /\ m \in AllNames
    BY <1>1, Numbers, NamesAre, FsAssumption
  <2>7. RefsFit(p, k.ref, w, f, r, q)
    <3>1. ASSUME NEW j \in Inums
          PROVE  k.ref[j] + Is(cwd[p], j) + Is(fd[p], j) + Is(c[p].ip, j) + Is(c[p].held, j)
                     = k.ref[j] + Is(w, j) + Is(f, j) + Is(0, j) + Is(0, j) + Is(dp, j) + Is(h, j)
      <4>1. k.ref[j] \in Nat /\ Is(0, j) = 0 /\ Is(dp, j) \in Nat /\ Is(h, j) \in Nat
              /\ Is(cwd[p], j) \in Nat /\ Is(fd[p], j) \in Nat
              /\ Is(c[p].ip, j) = Is(dp, j) /\ Is(c[p].held, j) = Is(h, j) /\ w = cwd[p] /\ f = fd[p]
        BY <2>3, IsIs
      <4> HIDE DEF w, f
      <4> QED  BY ONLY <4>1
    <3>2. k.ref \in [Inums -> Nat] /\ puts[p] = <<>>
      BY <2>3
    <3> HIDE DEF w, f, q, r
    <3> QED  BY ONLY <1>8, <1>9, <3>1, <3>2, Core, p \in Procs, FitRefs
  <2>8. LocksFit(p, k.lock, l, r)
    <3>1. l \in NoLock
      BY DEF NoLock, Labels
    <3> HIDE DEF l
    <3> QED  BY ONLY <1>1, <3>1, puts[p] = <<>>, Core, p \in Procs, SameLocks
  <2>9. PlaceFit(l, r, q)
    BY <1>8, <1>9 DEF PlaceFit, InParent, Started
  <2>10. KnowsFit(di, l, r, q)
    BY <1>9 DEF KnowsFit, InParent
  <2>11. SureFit(p, l, r, q, w, f)
    BY <1>1, <1>8, <1>9, OldSafe DEF SureFit
  <2>12. \A i \in Inums : di[i] # k.di[i] => k.lock[i] \in {p, None} /\ SafeFor(p, i)
    BY <1>1, <2>4
  <2>13. \A x \in Inums, y \in Names : <<x, y>> # <<d, m>> => di[x].ents[y] = k.di[x].ents[y]
    BY <2>5, NamesAre
  <2>14. \A x : ~Exempt(p, x)
    BY AtIs DEF Exempt
  <2>15. h # dp /\ \A y \in AllNames : di[h].ents[y] = 0
    <3>1. h # dp
      BY <1>1
    <3>2. k.di[h].ents = NoEnts
      BY SMTT(30), <1>1 DEF Core, Sound, InodesUsed
    <3> QED  BY <1>1, <2>4, <3>1, <3>2 DEF NoEnts
  <2>16. ASSUME NEW i \in Inums
         PROVE  di[i].nlink + One(k.di[d].ents[m] = i) + One(i = d
                  /\ DirAt(k.di, d, m)) + One(CountedOn(p, i))
                  >= k.di[i].nlink + One(di[d].ents[m] = i) + One(i = d /\ DirAt(di, d, m))
                       + One((r.op = "link2" \/ l = "erased") /\ r.held = i)
    <3> DEFINE x1 == One(k.di[d].ents[m] = i)
               x2 == One(i = d /\ DirAt(k.di, d, m))
               x3 == One(CountedOn(p, i))
               y1 == One(di[d].ents[m] = i)
               y2 == One(i = d /\ DirAt(di, d, m))
               y3 == One((r.op = "link2" \/ l = "erased") /\ r.held = i)
               o == k.di[i].nlink
               new == di[i].nlink
    <3>1. new = o /\ o \in Int
      BY <2>5, Counts
    <3>2. x1 \in Nat /\ x2 \in Nat /\ x3 \in Nat
      BY DEF One
    <3>3. y3 = 0
      BY SMTT(30), <1>9 DEF One
    <3>4. CASE n \in Names
      <4>1. d = dp /\ m = n
        BY <3>4
      <4>2. y2 = 0
        <5>1. ~DirAt(di, dp, n)
          BY SMTT(30), <1>1, <2>5 DEF DirAt
        <5> QED  BY <4>1, <5>1 DEF One
      <4>3. y1 = x3
        BY <1>1, <2>5, <4>1 DEF One, CountedOn
      <4>4. new + x1 + x2 + x3 >= o + y1 + y2 + y3
        <5> HIDE DEF x1, x2, x3, y1, y2, y3, new, o
        <5> QED  BY ONLY <3>1, <3>2, <3>3, <4>2, <4>3
      <4> QED  BY <4>4
    <3>5. CASE n \notin Names
      <4>1. m # n /\ di[d].ents[m] = k.di[d].ents[m]
        BY <2>5, <2>6, <3>5
      <4>2. y1 = x1
        BY <4>1
      <4>3. y2 = x2
        <5>1. DirAt(di, d, m) <=> DirAt(k.di, d, m)
          BY <2>5, <4>1, ZenonT(30) DEF DirAt
        <5> QED  BY <5>1 DEF One
      <4>4. new + x1 + x2 + x3 >= o + y1 + y2 + y3
        <5> HIDE DEF x1, x2, x3, y1, y2, y3, new, o
        <5> QED  BY ONLY <3>1, <3>2, <3>3, <4>2, <4>3
      <4> QED  BY <4>4
    <3> QED  BY <3>4, <3>5
  <2>17. ASSUME ~Climbs
         PROVE  /\ di[Root].ents[".."] = k.di[Root].ents[".."]
                /\ \/ di[d].ents[m] \in {k.di[d].ents[m], 0}
                   \/ di[d].ents[m] = h /\ \A y \in Names : di[h].ents[y] = 0
                /\ \A i \in Inums : di[i].type = "dir" =>
                     di[i].ents["."] = i \/ (di[i].ents["."] = k.di[i].ents["."] /\ ~Exempt(p, i))
                /\ \A x, i \in Inums, y \in Names : di[x].ents[y] = i /\ di[i].type = "dir" =>
                     \/ di[i].ents[".."] = x
                     \/ k.di[x].ents[y] = i /\ di[i].ents[".."] = k.di[i].ents[".."]
    <3>1. n \in Names
      BY <1>1, <1>2, <2>14, <2>17, LacksName DEF EntryOf
    <3>2. d = dp /\ m = n /\ n # "." /\ n # ".."
      BY <3>1, NamesAre
    <3>3. \A i \in Inums : di[i].ents["."] = k.di[i].ents["."] /\ di[i].ents[".."] = k.di[i].ents[".."]
      BY SMTT(30), <2>5, <3>2, NamesAre
    <3>4. di[d].ents[m] = h /\ \A y \in Names : di[h].ents[y] = 0
      BY <2>5, <2>15, <3>2, NamesAre
    <3>5. ASSUME NEW x \in Inums, NEW i \in Inums, NEW y \in Names, di[x].ents[y] = i,
                 di[i].type = "dir"
          PROVE  k.di[x].ents[y] = i
      <4>1. i # h
        BY <1>1, <2>5, <3>5
      <4> QED  BY <2>5, <3>5, <4>1, NamesAre
    <3>6. di[Root].ents[".."] = k.di[Root].ents[".."]
      BY <3>3, Numbers
    <3> HIDE DEF di, d, m
    <3> QED  BY <2>14, <3>3, <3>4, <3>5, <3>6
  <2>18. l # "ialloc" /\ \A i \in Inums : di[i].type = k.di[i].type
    BY <2>5
  <2> HIDE DEF s, l, r, q, w, f, di, d, m
  <2> QED  BY ONLY <1>1, <1>10, <2>2, <2>6, <2>7, <2>8, <2>9, <2>10, <2>11, <2>12, <2>13, <2>16,
                   <2>17, <2>18,
                Core, p \in Procs, ChangeGoto
<1> QED  BY <1>11, <1>12

(* link makes its entry, or fails. IInv is kept. *)
LEMMA LinkEntryKeeps ==
  ASSUME Core, NEW p \in Procs, LinkEntry(p) PROVE IInv'
<1> DEFINE dp == c[p].ip
           n == Head(c[p].rest)
           h == c[p].held
           u == ilock(k, p, dp)
           old == u.ic[dp].ents[n]
<1>1. /\ pc[p] = "link2" /\ puts[p] = <<>> /\ k.lock[dp] = None /\ Rest
      /\ old # 0 => Goto(p, iget(u, old), "unlockdp", c[p], <<old>>)
      /\ old = 0 => Return(p, iunlock(WriteEntry(u, dp, n, h), dp), <<dp, h>>)
  BY DEF LinkEntry, At, Free, dirlookup
<1>2. dp \in Inums /\ k.ref[dp] > 0
  BY <1>1, CoreTypes, OldRef DEF Place, HasIp, InParent
<1>3. old = k.di[dp].ents[n]
  BY <1>1, <1>2, Locking
<1> HIDE DEF dp, n, h, old
<1>4. dp = c[p].ip /\ n = Head(c[p].rest) /\ h = c[p].held
  BY DEF dp, n, h
<1>5. CASE old # 0
  BY SMTT(30), <1>1, <1>3, <1>4, <1>5, LinkFinds DEF EntryOf
<1>6. CASE old = 0
  BY <1>1, <1>3, <1>4, <1>6, LinkWrites DEF EntryOf
<1> QED  BY SMTT(30), <1>5, <1>6

(* What unlink knows at the inode below dp. *)
LEMMA ErasesWhat ==
  ASSUME Core, NEW p \in Procs, puts[p] = <<>>, pc[p] = "erase", NEW dp, dp = c[p].ip, NEW h,
         h = c[p].held,
         k.lock[h] = None, NEW n, n = Head(c[p].rest)
  PROVE  /\ c[p] \in InCall /\ dp \in Inums /\ h \in Inums /\ h # dp /\ k.ref[h] > 0 /\ k.ref[dp] > 0
         /\ c[p].op # "link2" /\ c[p].rest # <<>>
         /\ n \in Names /\ n \in AllNames /\ k.di[dp].type = "dir" /\ k.di[dp].ents[n] = h
              /\ k.lock[dp] = p
         /\ k.di[h].nlink >= 1 /\ SafeFor(p, h) /\ SafeFor(p, dp) /\ k.di[h].type # "free"
         /\ c[p].op = "create" => c[p].kind \in {"file", "dir", "dev"}
<1>1. c[p] \in InCall /\ Place(p) /\ Knows(p)
  BY CoreTypes
<1>2. /\ c[p].op # "link2" /\ dp # 0 /\ h # 0 /\ pc[p] \in InParent /\ c[p].rest # <<>>
      /\ c[p].op = "create" => c[p].kind \in {"file", "dir", "dev"}
  BY <1>1 DEF Place, HasIp, HasHeld, InParent, Started
<1>3. dp \in Inums /\ h \in Inums /\ k.ref[h] > 0 /\ k.ref[dp] > 0 /\ SafeFor(p, dp)
  BY <1>2, OldRef, OldSafe
<1>4. k.lock[dp] = p /\ h # dp
  BY <1>3, HasLocks, Numbers
<1>5. n \in Names /\ n \in AllNames /\ k.di[dp].type = "dir" /\ k.di[dp].ents[n] = h
  BY <1>1, NamesAre DEF Knows, InParent
<1>6. k.di[h].nlink >= 1
  BY <1>3, <1>5, Named
<1>7. SafeFor(p, h)
  BY <1>3, <1>6, LinkedSafe
<1> QED  BY <1>1, <1>2, <1>3, <1>4, <1>5, <1>6, <1>7 DEF SafeFor

(* The entry goes, and a directory's count of the subdirectory. *)
Erased(s, dp, n, b) == IF b THEN AddLinks(WriteEntry(s, dp, n, 0), dp, -1) ELSE WriteEntry(s, dp, n, 0)

(* The entry is gone, and for a directory the link of its "..". *)
LEMMA ErasedIs ==
  ASSUME NEW s \in Kernel, NEW d \in Inums, NEW n \in AllNames, NEW b \in BOOLEAN, NEW di, NEW ref,
         NEW lock,
         Becomes(s, di, ref, lock), lock[d] # None, di[d].type = "dir", di \in [Inums -> Inode]
  PROVE  LET t == Erased(s, d, n, b) IN
         /\ t \in Kernel
         /\ t.panic = "no" => \E e \in Inode : /\ e.type = "dir" /\ e.nlink = di[d].nlink - One(b)
                                               /\ e.ents = With(di[d].ents, n, 0)
                                               /\ Becomes(t, With(di, d, e), ref, lock)
<1> DEFINE v == WriteEntry(s, d, n, 0)
           t == Erased(s, d, n, b)
           a == AddLinks(v, d, -1)
<1>1. 0 \in 0..NINODES /\ -1 \in Int /\ di[d].nlink \in Int
  BY Numbers, InoIs
<1>2. /\ v \in Kernel
      /\ v.panic = "no" => \E e \in Inode : /\ e.type = "dir" /\ e.nlink = di[d].nlink /\ e.ents = With(di[d].ents, n, 0)
                                            /\ Becomes(v, With(di, d, e), ref, lock)
  BY <1>1, Entering
<1> HIDE DEF v
<1>3. CASE ~b
  <2>1. t = v /\ One(b) = 0
    BY <1>3 DEF v, Erased, One
  <2> QED  BY <1>1, <1>2, <2>1
<1>4. CASE b
  <2>1. t = a /\ One(b) = 1
    BY <1>4 DEF v, Erased, One
  <2>2. CASE v.panic # "no"
    <3>1. a \in Kernel /\ (v.panic # "no" => a.panic # "no")
      BY <1>1, <1>2, AddLinksIs DEF Stays
    <3> HIDE DEF a, t
    <3> QED  BY <2>1, <2>2, <3>1 DEF t
  <2>3. CASE v.panic = "no"
    <3>1. PICK e \in Inode : /\ e.type = "dir" /\ e.nlink = di[d].nlink /\ e.ents = With(di[d].ents, n, 0)
                             /\ Becomes(v, With(di, d, e), ref, lock)
      BY <1>2, <2>3
    <3> DEFINE g == With(di, d, e)
    <3>2. g[d] = e /\ Becomes(v, g, ref, lock)
      BY <3>1 DEF With
    <3> HIDE DEF g
    <3>3. a \in Kernel /\ \E e2 \in Inode : /\ e2.type = g[d].type /\ e2.nlink = g[d].nlink + (-1) /\ e2.ents = g[d].ents
                                            /\ Becomes(a, With(g, d, e2), ref, lock)
      BY ONLY <1>1, <1>2, <2>3, <3>2, d \in Inums, lock[d] # None, Adding
    <3>4. PICK e2 \in Inode : /\ e2.type = g[d].type /\ e2.nlink = g[d].nlink + (-1) /\ e2.ents = g[d].ents
                              /\ Becomes(a, With(g, d, e2), ref, lock)
      BY <3>3
    <3>5. With(g, d, e2) = With(di, d, e2)
      BY DEF g, With
    <3>6. /\ e2.type = "dir" /\ e2.nlink = di[d].nlink - 1 /\ e2.ents = With(di[d].ents, n, 0)
          /\ Becomes(a, With(di, d, e2), ref, lock)
      BY <1>1, <3>1, <3>2, <3>4, <3>5
    <3> HIDE DEF a, t
    <3> QED  BY <2>1, <3>3, <3>6 DEF t
  <2> QED  BY <2>2, <2>3
<1> QED  BY <1>3, <1>4

(* The entry is erased. *)
LEMMA UnlinkWrites ==
  ASSUME Core, NEW p \in Procs, puts[p] = <<>>, pc[p] = "erase", NEW dp, dp = c[p].ip, NEW h,
         h = c[p].held,
         k.lock[h] = None, NEW n, n = Head(c[p].rest), NEW b \in BOOLEAN, b <=> k.di[h].type = "dir",
         Goto(p, iunlock(Erased(ilock(k, p, h), dp, n, b), dp), "erased", NoIp(c[p]), <<dp>>), Rest
  PROVE  IInv'
<1> DEFINE u == ilock(k, p, h)
           t == Erased(u, dp, n, b)
           s == iunlock(t, dp)
           w == cwd[p]
           f == fd[p]
           l == "erased"
           q == <<dp>>
           r == NoIp(c[p])
           lk == With(k.lock, h, p)
           lock == With(lk, dp, None)
<1>0. Goto(p, s, l, r, q)
  OBVIOUS
<1>1. /\ c[p] \in InCall /\ dp \in Inums /\ h \in Inums /\ h # dp /\ k.ref[h] > 0 /\ k.ref[dp] > 0
      /\ c[p].op # "link2" /\ c[p].rest # <<>>
      /\ n \in Names /\ n \in AllNames /\ k.di[dp].type = "dir" /\ k.di[dp].ents[n] = h /\ k.lock[dp] = p
      /\ SafeFor(p, h) /\ SafeFor(p, dp) /\ k.di[h].type # "free"
      /\ c[p].op = "create" => c[p].kind \in {"file", "dir", "dev"}
  BY ONLY Core, p \in Procs, puts[p] = <<>>, pc[p] = "erase", dp = c[p].ip, h = c[p].held,
          k.lock[h] = None, n = Head(c[p].rest), ErasesWhat
<1>2. k.di \in [Inums -> Inode] /\ k.di[dp].ents \in [AllNames -> 0..NINODES] /\ k.ref \in [Inums -> Nat]
      /\ k.lock \in [Inums -> Procs \cup {None}] /\ None # p /\ k.di[dp].nlink \in Int
  BY <1>1, CoreTypes, InoIs, Numbers
<1>3. u \in Kernel /\ Becomes(u, k.di, k.ref, lk)
  BY <1>1, Locking
<1>4. lk[dp] = p /\ lk[dp] # None
  BY SMTT(30), <1>1, <1>2 DEF With
<1> HIDE DEF u, lk
<1>5. /\ t \in Kernel
      /\ t.panic = "no" => \E e \in Inode : /\ e.type = "dir" /\ e.nlink = k.di[dp].nlink - One(b)
                                            /\ e.ents = With(k.di[dp].ents, n, 0)
                                            /\ Becomes(t, With(k.di, dp, e), k.ref, lk)
  BY SMTT(30), <1>1, <1>2, <1>3, <1>4, ErasedIs
<1> HIDE DEF t
<1>6. s \in Kernel /\ (t.panic # "no" => s.panic # "no")
  BY <1>1, <1>5, IunlockIs DEF Stays
<1>7. cwd' = [cwd EXCEPT ![p] = w] /\ fd' = [fd EXCEPT ![p] = f] /\ left' \in Nat /\ w \in Inums
        /\ f \in 0..NINODES
  BY RestIs
<1>8. q \in Seq(Inums) /\ Len(q) <= 2 /\ Put(q, 1) = dp /\ Put(q, 2) = 0
  BY <1>1, PutOne
<1>9. r \in InCall /\ r.op = c[p].op /\ r.kind = c[p].kind /\ r.ip = 0 /\ r.held = h
  BY <1>1, CalNoIp
<1> HIDE DEF r
<1>10. Goes(p, s, l, r, q, w, f)
  <2>1. Typed(l, r, q, w, f)
    BY <1>7, <1>8, <1>9 DEF Typed, Labels
  <2> HIDE DEF s, l, q
  <2> QED  BY <1>0, <1>7, <2>1 DEF Goes
<1>11. CASE s.panic # "no"
  BY <1>6, <1>10, <1>11, PanicGoto
<1>12. CASE s.panic = "no"
  <2>1. PICK e \in Inode : /\ e.type = "dir" /\ e.nlink = k.di[dp].nlink - One(b) /\ e.ents = With(k.di[dp].ents, n, 0)
                           /\ Becomes(t, With(k.di, dp, e), k.ref, lk)
    BY <1>5, <1>6, <1>12
  <2> DEFINE di == With(k.di, dp, e)
  <2>2. Becomes(s, di, k.ref, lock)
    <3>1. Good(t) /\ t.di = di /\ t.ref = k.ref /\ t.lock = lk
      BY <2>1 DEF Becomes
    <3>2. Becomes(s, t.di, t.ref, With(t.lock, dp, None))
      BY <1>1, <3>1, GoodIunlock
    <3> QED  BY <3>1, <3>2
  <2>4. di[dp] = e /\ \A x \in Inums : x # dp => di[x] = k.di[x]
    BY <1>1, <1>2 DEF With
  <2>5. /\ \A x \in Inums : di[x].type = k.di[x].type /\ di[x].nlink = k.di[x].nlink - One(x = dp /\ b)
        /\ \A x \in Inums, y \in AllNames : (x # dp \/ y # n) => di[x].ents[y] = k.di[x].ents[y]
        /\ di[dp].ents[n] = 0
    <3>1. e.ents[n] = 0 /\ \A y \in AllNames : y # n => e.ents[y] = k.di[dp].ents[y]
      BY <1>1, <1>2, <2>1 DEF With
    <3>2. ASSUME NEW x \in Inums PROVE di[x].nlink = k.di[x].nlink - One(x = dp /\ b)
      <4>1. k.di[x].nlink \in Int
        BY Counts
      <4>2. CASE x = dp
        <5>1. One(x = dp /\ b) = One(b)
          BY <4>2 DEF One
        <5> HIDE DEF di
        <5> QED  BY <2>1, <2>4, <4>2, <5>1
      <4>3. CASE x # dp
        <5>1. One(x = dp /\ b) = 0
          BY <4>3 DEF One
        <5> HIDE DEF di
        <5> QED  BY <2>4, <4>1, <4>3, <5>1
      <4> QED  BY <4>2, <4>3
    <3> HIDE DEF di
    <3> QED  BY ONLY SMTT(30), <1>1, <2>1, <2>4, <3>1, <3>2
  <2>7. RefsFit(p, k.ref, w, f, r, q)
    <3>1. ASSUME NEW j \in Inums
          PROVE  k.ref[j] + Is(cwd[p], j) + Is(fd[p], j) + Is(c[p].ip, j) + Is(c[p].held, j)
                     = k.ref[j] + Is(w, j) + Is(f, j) + Is(0, j) + Is(h, j) + Is(dp, j) + Is(0, j)
      <4>1. k.ref[j] \in Nat /\ Is(0, j) = 0 /\ Is(dp, j) \in Nat /\ Is(h, j) \in Nat
              /\ Is(cwd[p], j) \in Nat /\ Is(fd[p], j) \in Nat
              /\ Is(c[p].ip, j) = Is(dp, j) /\ Is(c[p].held, j) = Is(h, j) /\ w = cwd[p] /\ f = fd[p]
        BY <1>2, IsIs
      <4> HIDE DEF w, f
      <4> QED  BY ONLY <4>1
    <3>2. k.ref \in [Inums -> Nat] /\ puts[p] = <<>> /\ r.ip = 0 /\ r.held = h
      BY <1>2, <1>9
    <3> HIDE DEF w, f, q
    <3> QED  BY ONLY <1>8, <3>1, <3>2, Core, p \in Procs, FitRefs
  <2>8. LocksFit(p, lock, l, r)
    <3>1. \A j \in Inums : k.lock[j] = p <=> j = dp
      BY HasLocks
    <3>2. \A j \in Inums : lock[j] = IF j = dp THEN None ELSE IF j = h THEN p ELSE k.lock[j]
      BY <1>1, <1>2 DEF lk, With
    <3> HIDE DEF lock
    <3> QED  BY ONLY <1>1, <1>2, <1>9, <3>1, <3>2, k.lock[h] = None DEF LocksFit
  <2>9. PlaceFit(l, r, q)
    <3>1. h # 0
      BY <1>1, Numbers
    <3> QED  BY <1>1, <1>8, <1>9, <3>1 DEF PlaceFit, InParent, Started
  <2>10. KnowsFit(di, l, r, q)
    BY <1>1, <1>9 DEF KnowsFit, InParent
  <2>11. SureFit(p, l, r, q, w, f)
    BY <1>1, <1>8, <1>9, OldSafe DEF SureFit
  <2>12. \A i \in Inums : di[i] # k.di[i] => k.lock[i] \in {p, None} /\ SafeFor(p, i)
    BY <1>1, <2>4
  <2>13. \A x \in Inums, y \in Names : <<x, y>> # <<dp, n>> => di[x].ents[y] = k.di[x].ents[y]
    BY <2>5, NamesAre
  <2>14. \A x : ~Exempt(p, x)
    BY AtIs DEF Exempt
  <2>16. ASSUME NEW i \in Inums
         PROVE  di[i].nlink + One(k.di[dp].ents[n] = i) + One(i = dp
                  /\ DirAt(k.di, dp, n)) + One(CountedOn(p, i))
                  >= k.di[i].nlink + One(di[dp].ents[n] = i) + One(i = dp /\ DirAt(di, dp, n))
                       + One((r.op = "link2" \/ l = "erased") /\ r.held = i)
    <3> DEFINE x1 == One(k.di[dp].ents[n] = i)
               x2 == One(i = dp /\ DirAt(k.di, dp, n))
               x3 == One(CountedOn(p, i))
               y1 == One(di[dp].ents[n] = i)
               y2 == One(i = dp /\ DirAt(di, dp, n))
               y3 == One((r.op = "link2" \/ l = "erased") /\ r.held = i)
               o == k.di[i].nlink
               new == di[i].nlink
    <3>1. new = o - x2 /\ o \in Int
      <4>1. DirAt(k.di, dp, n) <=> b
        BY <1>1 DEF DirAt
      <4>2. x2 = One(i = dp /\ b)
        BY <4>1 DEF One
      <4> QED  BY <2>5, <4>2, Counts
    <3>2. x1 \in Nat /\ x2 \in Nat /\ x3 \in Nat
      BY DEF One
    <3>3. y1 = 0 /\ y2 = 0
      <4>1. ~DirAt(di, dp, n)
        BY <2>5, Numbers DEF DirAt
      <4> QED  BY <2>5, <4>1, Numbers DEF One
    <3>4. y3 = x1
      BY <1>1, <1>9 DEF One
    <3>5. new + x1 + x2 + x3 >= o + y1 + y2 + y3
      <4> HIDE DEF x1, x2, x3, y1, y2, y3, new, o
      <4> QED  BY ONLY <3>1, <3>2, <3>3, <3>4
    <3> QED  BY <3>5
  <2>17. /\ di[Root].ents[".."] = k.di[Root].ents[".."]
         /\ di[dp].ents[n] \in {k.di[dp].ents[n], 0}
         /\ \A i \in Inums : di[i].type = "dir" =>
              di[i].ents["."] = i \/ (di[i].ents["."] = k.di[i].ents["."] /\ ~Exempt(p, i))
         /\ \A x, i \in Inums, y \in Names : di[x].ents[y] = i /\ di[i].type = "dir" =>
              \/ di[i].ents[".."] = x
              \/ k.di[x].ents[y] = i /\ di[i].ents[".."] = k.di[i].ents[".."]
    <3>2. n # "." /\ n # ".."
      BY <1>1, NamesAre
    <3>3. \A i \in Inums : di[i].ents["."] = k.di[i].ents["."] /\ di[i].ents[".."] = k.di[i].ents[".."]
      BY <2>5, <3>2, NamesAre
    <3>5. ASSUME NEW x \in Inums, NEW i \in Inums, NEW y \in Names, di[x].ents[y] = i
          PROVE  k.di[x].ents[y] = i
      BY <2>5, <3>5, NamesAre, Numbers
    <3> QED  BY <2>5, <2>14, <3>3, <3>5, Numbers
  <2>18. l # "ialloc" /\ \A i \in Inums : di[i].type = k.di[i].type
    BY <2>5
  <2> HIDE DEF s, l, q, w, f, di, lock
  <2> QED  BY ONLY <1>1, <1>10, <2>2, <2>7, <2>8, <2>9, <2>10, <2>11, <2>12, <2>13, <2>16, <2>17,
                   <2>18,
                Core, p \in Procs, ChangeGoto
<1> QED  BY <1>11, <1>12

(* unlink erases the entry, or fails. IInv is kept. *)
LEMMA UnlinkEraseKeeps ==
  ASSUME Core, NEW p \in Procs, UnlinkErase(p) PROVE IInv'
<1> DEFINE dp == c[p].ip
           n == Head(c[p].rest)
           h == c[p].held
           u == ilock(k, p, h)
           b == u.ic[h].type = "dir"
<1>1. /\ pc[p] = "erase" /\ puts[p] = <<>> /\ k.lock[h] = None /\ Rest
      /\ u.ic[h].nlink < 1 \/ Goto(p, iunlock(u, h), "unlockdp", Holds(c[p], 0), <<h>>)
                           \/ Goto(p, iunlock(Erased(u, dp, n, b), dp), "erased", NoIp(c[p]), <<dp>>)
  BY DEF UnlinkErase, At, Free, Erased, Holds, NoIp
<1>2. dp = c[p].ip /\ n = Head(c[p].rest) /\ h = c[p].held
  OBVIOUS
<1>3. h \in Inums /\ k.ref[h] > 0 /\ k.di[h].nlink >= 1 /\ k.di[h].type # "free"
  <2> HIDE DEF dp, n, h
  <2> QED  BY <1>1, <1>2, ErasesWhat
<1>4. u.ic[h] = k.di[h]
  BY <1>1, <1>3, Locking
<1>5. k.di[h].nlink \in Int /\ ~(u.ic[h].nlink < 1) /\ (b <=> k.di[h].type = "dir") /\ b \in BOOLEAN
  BY <1>3, <1>4, Counts
<1> HIDE DEF dp, n, h, b
<1>6. CASE Goto(p, iunlock(u, h), "unlockdp", Holds(c[p], 0), <<h>>)
  BY <1>1, <1>2, <1>6, UnlinkRefuses
<1>7. CASE Goto(p, iunlock(Erased(u, dp, n, b), dp), "erased", NoIp(c[p]), <<dp>>)
  BY <1>1, <1>2, <1>5, <1>7, UnlinkWrites
<1> QED  BY <1>1, <1>5, <1>6, <1>7

(* A new directory gets "." and "..", and its parent the count of "..". *)
LEMMA DotsAre ==
  ASSUME NEW s \in Kernel, NEW h \in Inums, NEW dp \in Inums, h # dp, NEW di, NEW ref, NEW lock,
         Becomes(s, di, ref, lock), lock[h] # None, lock[dp] # None, di[h].type = "dir"
  PROVE  LET t == Dots(s, h, dp) IN
         /\ t \in Kernel
         /\ t.panic = "no" =>
              \E g \in [Inums -> Inode] :
                /\ Becomes(t, g, ref, lock) /\ \A x \in Inums : x \notin {h, dp} => g[x] = di[x]
                /\ g[h].type = "dir" /\ g[h].nlink = di[h].nlink
                     /\ g[h].ents = With(With(di[h].ents, ".", h), "..", dp)
                /\ g[dp].type = di[dp].type /\ g[dp].nlink = di[dp].nlink + 1 /\ g[dp].ents = di[dp].ents
<1> DEFINE a == AddLinks(s, dp, 1)
           b == WriteEntry(a, h, ".", h)
           t == WriteEntry(b, h, "..", dp)
<1>1. /\ s.panic = "no" /\ di \in [Inums -> Inode] /\ 1 \in Int /\ "." \in AllNames /\ ".." \in AllNames
      /\ h \in 0..NINODES /\ dp \in 0..NINODES
  BY KernIs, Numbers, NamesAre DEF Becomes, Good
<1>2. a \in Kernel /\ \E e \in Inode : /\ e.type = di[dp].type /\ e.nlink = di[dp].nlink + 1 /\ e.ents = di[dp].ents
                                       /\ Becomes(a, With(di, dp, e), ref, lock)
  <2>1. 1 \in Int /\ s.panic = "no"
    BY <1>1
  <2>2. /\ a \in Kernel
        /\ s.panic # "no" => a.panic # "no"
        /\ s.panic = "no" => \E e \in Inode : /\ e.type = di[dp].type /\ e.nlink = di[dp].nlink + 1 /\ e.ents = di[dp].ents
                                              /\ Becomes(a, With(di, dp, e), ref, lock)
    BY ONLY <2>1, s \in Kernel, dp \in Inums, Becomes(s, di, ref, lock), lock[dp] # None, Adding
  <2> QED  BY ONLY <2>1, <2>2
<1>3. PICK e1 \in Inode : /\ e1.type = di[dp].type /\ e1.nlink = di[dp].nlink + 1 /\ e1.ents = di[dp].ents
                          /\ Becomes(a, With(di, dp, e1), ref, lock)
  BY <1>2
<1> DEFINE d1 == With(di, dp, e1)
<1>4. d1 \in [Inums -> Inode] /\ d1[dp] = e1 /\ \A x \in Inums : x # dp => d1[x] = di[x]
  BY ONLY <1>1, dp \in Inums, e1 \in Inode DEF With
<1>5. Becomes(a, d1, ref, lock) /\ d1[h].type = "dir"
  BY <1>3, <1>4
<1> HIDE DEF a, d1
<1>6. /\ b \in Kernel
      /\ b.panic = "no" => \E e \in Inode : /\ e.type = "dir" /\ e.nlink = d1[h].nlink /\ e.ents = With(d1[h].ents, ".", h)
                                            /\ Becomes(b, With(d1, h, e), ref, lock)
  BY <1>1, <1>2, <1>5, Entering
<1> HIDE DEF b
<1>7. CASE b.panic # "no"
  <2>1. t \in Kernel /\ t.panic # "no"
    BY <1>1, <1>6, <1>7, WriteEntryIs DEF Stays
  <2> QED  BY <2>1 DEF Dots, a, b
<1>8. CASE b.panic = "no"
  <2>1. PICK e2 \in Inode : /\ e2.type = "dir" /\ e2.nlink = d1[h].nlink /\ e2.ents = With(d1[h].ents, ".", h)
                            /\ Becomes(b, With(d1, h, e2), ref, lock)
    BY <1>6, <1>8
  <2> DEFINE d2 == With(d1, h, e2)
  <2>2. d2 \in [Inums -> Inode] /\ d2[h] = e2 /\ \A x \in Inums : x # h => d2[x] = d1[x]
    BY ONLY <1>4, h \in Inums, e2 \in Inode DEF With
  <2>3. Becomes(b, d2, ref, lock) /\ d2[h].type = "dir"
    BY <2>1, <2>2
  <2> HIDE DEF d2
  <2>4. /\ t \in Kernel
        /\ t.panic = "no" => \E e \in Inode : /\ e.type = "dir" /\ e.nlink = d2[h].nlink /\ e.ents = With(d2[h].ents, "..", dp)
                                              /\ Becomes(t, With(d2, h, e), ref, lock)
    BY <1>1, <1>6, <2>3, Entering
  <2> HIDE DEF t
  <2>5. ASSUME t.panic = "no"
        PROVE  \E g \in [Inums -> Inode] :
                /\ Becomes(t, g, ref, lock) /\ \A x \in Inums : x \notin {h, dp} => g[x] = di[x]
                /\ g[h].type = "dir" /\ g[h].nlink = di[h].nlink
                     /\ g[h].ents = With(With(di[h].ents, ".", h), "..", dp)
                /\ g[dp].type = di[dp].type /\ g[dp].nlink = di[dp].nlink + 1 /\ g[dp].ents = di[dp].ents
    <3>1. PICK e3 \in Inode : /\ e3.type = "dir" /\ e3.nlink = d2[h].nlink /\ e3.ents = With(d2[h].ents, "..", dp)
                              /\ Becomes(t, With(d2, h, e3), ref, lock)
      BY <2>4, <2>5
    <3> DEFINE g == With(d2, h, e3)
    <3>2. g \in [Inums -> Inode] /\ g[h] = e3 /\ \A x \in Inums : x # h => g[x] = d2[x]
      BY ONLY <2>2, h \in Inums, e3 \in Inode DEF With
    <3> HIDE DEF g
    <3>3. /\ \A x \in Inums : x \notin {h, dp} => g[x] = di[x]
          /\ g[h].type = "dir" /\ g[h].nlink = di[h].nlink
               /\ g[h].ents = With(With(di[h].ents, ".", h), "..", dp)
          /\ g[dp].type = di[dp].type /\ g[dp].nlink = di[dp].nlink + 1 /\ g[dp].ents = di[dp].ents
      BY <1>3, <1>4, <2>1, <2>2, <3>1, <3>2
    <3>4. Becomes(t, g, ref, lock)
      BY <3>1 DEF g
    <3> QED  BY <3>2, <3>3, <3>4
  <2>6. t = Dots(s, h, dp)
    BY DEF t, b, a, Dots
  <2> QED  BY <2>4, <2>5, <2>6
<1> QED  BY <1>7, <1>8

(* create writes the new inode and the entry for it. *)
Made(s, dp, h, n, b) ==
  LET l == AddLinks(s, h, 1)
      m == IF b THEN Dots(l, h, dp) ELSE l
  IN  WriteEntry(m, dp, n, h)

(* What create writes: the new inode with its link and, if it is a         *)
(* directory, with its dots, and the entry in its parent.                  *)
LEMMA MadeIs ==
  ASSUME NEW s \in Kernel, NEW h \in Inums, NEW dp \in Inums, h # dp, NEW n \in AllNames,
         NEW b \in BOOLEAN,
         NEW di, NEW ref, NEW lock,
         Becomes(s, di, ref, lock), lock[h] # None, lock[dp] # None, di[dp].type = "dir", b <=> di[h].type = "dir"
  PROVE  LET t == Made(s, dp, h, n, b) IN
         /\ t \in Kernel
         /\ t.panic = "no" =>
              \E g \in [Inums -> Inode] :
                /\ Becomes(t, g, ref, lock) /\ \A x \in Inums : x \notin {h, dp} => g[x] = di[x]
                /\ g[h].type = di[h].type /\ g[h].nlink = di[h].nlink + 1
                /\ g[h].ents = IF b THEN With(With(di[h].ents, ".", h), "..", dp) ELSE di[h].ents
                /\ g[dp].type = "dir" /\ g[dp].nlink = di[dp].nlink + One(b)
                     /\ g[dp].ents = With(di[dp].ents, n, h)
<1> DEFINE a == AddLinks(s, h, 1)
           m == IF b THEN Dots(a, h, dp) ELSE a
           t == WriteEntry(m, dp, n, h)
<1>1. /\ s.panic = "no" /\ di \in [Inums -> Inode] /\ 1 \in Int /\ h \in 0..NINODES
        /\ di[dp].nlink \in Int
  BY KernIs, Numbers, InoIs DEF Becomes, Good
<1>2. a \in Kernel /\ \E e \in Inode : /\ e.type = di[h].type /\ e.nlink = di[h].nlink + 1 /\ e.ents = di[h].ents
                                       /\ Becomes(a, With(di, h, e), ref, lock)
  <2>1. 1 \in Int /\ s.panic = "no"
    BY <1>1
  <2>2. /\ a \in Kernel
        /\ s.panic # "no" => a.panic # "no"
        /\ s.panic = "no" => \E e \in Inode : /\ e.type = di[h].type /\ e.nlink = di[h].nlink + 1 /\ e.ents = di[h].ents
                                              /\ Becomes(a, With(di, h, e), ref, lock)
    BY ONLY <2>1, s \in Kernel, h \in Inums, Becomes(s, di, ref, lock), lock[h] # None, Adding
  <2> QED  BY ONLY <2>1, <2>2
<1>3. PICK e1 \in Inode : /\ e1.type = di[h].type /\ e1.nlink = di[h].nlink + 1 /\ e1.ents = di[h].ents
                          /\ Becomes(a, With(di, h, e1), ref, lock)
  BY <1>2
<1> DEFINE d1 == With(di, h, e1)
<1>4. d1 \in [Inums -> Inode] /\ d1[h] = e1 /\ \A x \in Inums : x # h => d1[x] = di[x]
  BY ONLY <1>1, h \in Inums, e1 \in Inode DEF With
<1>5. Becomes(a, d1, ref, lock)
  BY <1>3
<1> HIDE DEF a, d1
<1>6. /\ m \in Kernel
      /\ m.panic = "no" =>
           \E g \in [Inums -> Inode] :
                /\ Becomes(m, g, ref, lock) /\ \A x \in Inums : x \notin {h, dp} => g[x] = di[x]
                /\ g[h].type = di[h].type /\ g[h].nlink = di[h].nlink + 1
                /\ g[h].ents = IF b THEN With(With(di[h].ents, ".", h), "..", dp) ELSE di[h].ents
                /\ g[dp].type = "dir" /\ g[dp].nlink = di[dp].nlink + One(b) /\ g[dp].ents = di[dp].ents
  <2>1. CASE b
    <3> DEFINE v == Dots(a, h, dp)
    <3>1. d1[h].type = "dir" /\ One(b) = 1 /\ m = v
      BY <1>3, <1>4, <2>1 DEF One
    <3>2. /\ v \in Kernel
          /\ v.panic = "no" =>
              \E g \in [Inums -> Inode] :
                /\ Becomes(v, g, ref, lock) /\ \A x \in Inums : x \notin {h, dp} => g[x] = d1[x]
                /\ g[h].type = "dir" /\ g[h].nlink = d1[h].nlink
                     /\ g[h].ents = With(With(d1[h].ents, ".", h), "..", dp)
                /\ g[dp].type = d1[dp].type /\ g[dp].nlink = d1[dp].nlink + 1 /\ g[dp].ents = d1[dp].ents
      BY <1>2, <1>5, <3>1, DotsAre
    <3> HIDE DEF v, m
    <3>3. ASSUME v.panic = "no"
          PROVE  \E g \in [Inums -> Inode] :
                /\ Becomes(v, g, ref, lock) /\ \A x \in Inums : x \notin {h, dp} => g[x] = di[x]
                /\ g[h].type = di[h].type /\ g[h].nlink = di[h].nlink + 1
                /\ g[h].ents = IF b THEN With(With(di[h].ents, ".", h), "..", dp) ELSE di[h].ents
                /\ g[dp].type = "dir" /\ g[dp].nlink = di[dp].nlink + One(b) /\ g[dp].ents = di[dp].ents
      <4>1. PICK g \in [Inums -> Inode] :
                /\ Becomes(v, g, ref, lock) /\ \A x \in Inums : x \notin {h, dp} => g[x] = d1[x]
                /\ g[h].type = "dir" /\ g[h].nlink = d1[h].nlink
                     /\ g[h].ents = With(With(d1[h].ents, ".", h), "..", dp)
                /\ g[dp].type = d1[dp].type /\ g[dp].nlink = d1[dp].nlink + 1 /\ g[dp].ents = d1[dp].ents
        BY <3>2, <3>3
      <4>2. /\ \A x \in Inums : x \notin {h, dp} => g[x] = di[x]
            /\ g[h].type = di[h].type /\ g[h].nlink = di[h].nlink + 1
            /\ g[h].ents = With(With(di[h].ents, ".", h), "..", dp)
            /\ g[dp].type = "dir" /\ g[dp].nlink = di[dp].nlink + One(b) /\ g[dp].ents = di[dp].ents
        BY <1>3, <1>4, <2>1, <3>1, <4>1
      <4> QED  BY <2>1, <4>1, <4>2
    <3> QED  BY <3>1, <3>2, <3>3
  <2>2. CASE ~b
    <3>1. m = a /\ One(b) = 0
      BY <2>2 DEF One
    <3>2. /\ \A x \in Inums : x \notin {h, dp} => d1[x] = di[x]
          /\ d1[h].type = di[h].type /\ d1[h].nlink = di[h].nlink + 1
          /\ d1[h].ents = di[h].ents
          /\ d1[dp].type = "dir" /\ d1[dp].nlink = di[dp].nlink + One(b) /\ d1[dp].ents = di[dp].ents
      BY <1>1, <1>3, <1>4, <3>1
    <3> HIDE DEF m
    <3> QED  BY <1>2, <1>4, <1>5, <2>2, <3>1, <3>2
  <2> QED  BY <2>1, <2>2
<1>7. t = Made(s, dp, h, n, b)
  BY DEF Made, a
<1> HIDE DEF m
<1>8. CASE m.panic # "no"
  <2>1. t \in Kernel /\ t.panic # "no"
    BY <1>1, <1>6, <1>8, WriteEntryIs, ZenonT(30) DEF Stays
  <2> QED  BY <1>7, <2>1
<1>9. CASE m.panic = "no"
  <2>1. PICK d2 \in [Inums -> Inode] :
                /\ Becomes(m, d2, ref, lock) /\ \A x \in Inums : x \notin {h, dp} => d2[x] = di[x]
                /\ d2[h].type = di[h].type /\ d2[h].nlink = di[h].nlink + 1
                /\ d2[h].ents = IF b THEN With(With(di[h].ents, ".", h), "..", dp) ELSE di[h].ents
                /\ d2[dp].type = "dir" /\ d2[dp].nlink = di[dp].nlink + One(b)
                     /\ d2[dp].ents = di[dp].ents
    BY <1>6, <1>9
  <2>2. /\ t \in Kernel
        /\ t.panic = "no" => \E e \in Inode : /\ e.type = "dir" /\ e.nlink = d2[dp].nlink /\ e.ents = With(d2[dp].ents, n, h)
                                              /\ Becomes(t, With(d2, dp, e), ref, lock)
    BY <1>1, <1>6, <2>1, Entering
  <2> HIDE DEF t
  <2>3. ASSUME t.panic = "no"
        PROVE  \E g \in [Inums -> Inode] :
                /\ Becomes(t, g, ref, lock) /\ \A x \in Inums : x \notin {h, dp} => g[x] = di[x]
                /\ g[h].type = di[h].type /\ g[h].nlink = di[h].nlink + 1
                /\ g[h].ents = IF b THEN With(With(di[h].ents, ".", h), "..", dp) ELSE di[h].ents
                /\ g[dp].type = "dir" /\ g[dp].nlink = di[dp].nlink + One(b)
                     /\ g[dp].ents = With(di[dp].ents, n, h)
    <3>1. PICK e3 \in Inode : /\ e3.type = "dir" /\ e3.nlink = d2[dp].nlink /\ e3.ents = With(d2[dp].ents, n, h)
                              /\ Becomes(t, With(d2, dp, e3), ref, lock)
      BY <2>2, <2>3
    <3> DEFINE g == With(d2, dp, e3)
    <3>2. g \in [Inums -> Inode] /\ g[dp] = e3 /\ \A x \in Inums : x # dp => g[x] = d2[x]
      BY ONLY <2>1, dp \in Inums, e3 \in Inode DEF With
    <3> HIDE DEF g
    <3>3. /\ \A x \in Inums : x \notin {h, dp} => g[x] = di[x]
          /\ g[h] = d2[h]
          /\ g[dp].type = "dir" /\ g[dp].nlink = di[dp].nlink + One(b)
               /\ g[dp].ents = With(di[dp].ents, n, h)
      BY <2>1, <3>1, <3>2
    <3>4. Becomes(t, g, ref, lock)
      BY <3>1 DEF g
    <3>5. /\ g[h].type = di[h].type /\ g[h].nlink = di[h].nlink + 1
          /\ g[h].ents = IF b THEN With(With(di[h].ents, ".", h), "..", dp) ELSE di[h].ents
      BY <2>1, <3>3
    <3> QED  BY <3>2, <3>3, <3>4, <3>5
  <2> QED  BY <1>7, <2>2, <2>3
<1> QED  BY <1>8, <1>9

(* create makes the entry, and for a directory "." and "..". IInv is kept. *)
LEMMA CreateLinkKeeps ==
  ASSUME Core, NEW p \in Procs, CreateLink(p) PROVE IInv'
<1> DEFINE dp == c[p].ip
           h == c[p].held
           n == Head(c[p].rest)
           b == c[p].kind = "dir"
           u == ilock(k, p, h)
           t == Made(u, dp, h, n, b)
           s == iunlock(t, dp)
           w == cwd[p]
           f == fd[p]
           l == "opened"
           q == <<dp>>
           r == NoIp(c[p])
           lk == With(k.lock, h, p)
           lock == With(lk, dp, None)
<1>0. pc[p] = "ialloc" /\ puts[p] = <<>> /\ k.lock[h] = None /\ Rest /\ Goto(p, s, l, r, q)
  BY DEF CreateLink, At, Free, Made, NoIp
<1>1. /\ c[p] \in InCall /\ dp \in Inums /\ h \in Inums /\ h # dp /\ k.ref[h] > 0 /\ k.ref[dp] > 0
      /\ c[p].op = "create" /\ c[p].rest # <<>> /\ c[p].kind \in {"file", "dir", "dev"} /\ n \in Elems
      /\ n \in AllNames /\ k.di[dp].type = "dir" /\ k.di[dp].ents[n] = 0 /\ k.lock[dp] = p
      /\ SafeFor(p, h) /\ SafeFor(p, dp) /\ k.di[h].type = c[p].kind
  <2>1. c[p] \in InCall /\ Place(p) /\ Knows(p)
    BY CoreTypes
  <2>2. dp # 0 /\ h # 0 /\ pc[p] \in InParent /\ c[p].rest # <<>> /\ c[p].op = "create"
          /\ c[p].kind \in {"file", "dir", "dev"}
    BY <1>0, <2>1 DEF Place, Knows, HasIp, HasHeld, InParent, Started
  <2>3. dp \in Inums /\ h \in Inums /\ k.ref[h] > 0 /\ k.ref[dp] > 0 /\ SafeFor(p, dp) /\ SafeFor(p, h)
    BY <1>0, <2>2, OldRef, OldSafe
  <2>4. k.lock[dp] = p /\ h # dp
    BY <1>0, <2>3, HasLocks, Numbers
  <2>5. n \in Elems /\ n \in AllNames
    BY <2>1, <2>2, HeadIn
  <2>6. k.di[dp].type = "dir" /\ k.di[dp].ents[n] = 0 /\ k.di[h].type = c[p].kind
    BY <1>0, <2>1, <2>2 DEF Knows
  <2> QED  BY <2>1, <2>2, <2>3, <2>4, <2>5, <2>6
<1>2. k.di \in [Inums -> Inode] /\ k.di[dp].ents \in [AllNames -> 0..NINODES] /\ k.ref \in [Inums -> Nat]
      /\ k.lock \in [Inums -> Procs \cup {None}] /\ None # p /\ k.di[dp].nlink \in Int
      /\ k.di[h].ents \in [AllNames -> 0..NINODES]
  BY <1>1, CoreTypes, InoIs, Numbers
<1>3. u \in Kernel /\ Becomes(u, k.di, k.ref, lk)
  BY <1>0, <1>1, Locking
<1>4. lk[dp] # None /\ lk[h] # None
  BY <1>1, <1>2 DEF With
<1>b. b \in BOOLEAN /\ (b <=> k.di[h].type = "dir")
  BY <1>1
<1> HIDE DEF u, lk, b, n, h, dp
<1>5. /\ t \in Kernel
      /\ t.panic = "no" =>
              \E g \in [Inums -> Inode] :
                /\ Becomes(t, g, k.ref, lk) /\ \A x \in Inums : x \notin {h, dp} => g[x] = k.di[x]
                /\ g[h].type = k.di[h].type /\ g[h].nlink = k.di[h].nlink + 1
                /\ g[h].ents = IF b THEN With(With(k.di[h].ents, ".", h), "..", dp) ELSE k.di[h].ents
                /\ g[dp].type = "dir" /\ g[dp].nlink = k.di[dp].nlink + One(b)
                     /\ g[dp].ents = With(k.di[dp].ents, n, h)
  BY ONLY <1>1, <1>b, <1>3, <1>4, MadeIs
<1> HIDE DEF t
<1>6. s \in Kernel /\ (t.panic # "no" => s.panic # "no")
  BY <1>1, <1>5, IunlockIs DEF Stays
<1>7. cwd' = [cwd EXCEPT ![p] = w] /\ fd' = [fd EXCEPT ![p] = f] /\ left' \in Nat /\ w \in Inums
        /\ f \in 0..NINODES
  BY <1>0, RestIs
<1>8. q \in Seq(Inums) /\ Len(q) <= 2 /\ Put(q, 1) = dp /\ Put(q, 2) = 0
  BY <1>1, PutOne
<1>9. r \in InCall /\ r.op = c[p].op /\ r.kind = c[p].kind /\ r.ip = 0 /\ r.held = h
  BY <1>1, CalNoIp DEF h
<1> HIDE DEF r
<1>10. Goes(p, s, l, r, q, w, f)
  <2>1. Typed(l, r, q, w, f)
    BY <1>7, <1>8, <1>9 DEF Typed, Labels
  <2> HIDE DEF s, l, q
  <2> QED  BY <1>0, <1>7, <2>1 DEF Goes
<1>11. CASE s.panic # "no"
  BY <1>6, <1>10, <1>11, PanicGoto
<1>12. CASE s.panic = "no"
  <2>1. PICK di \in [Inums -> Inode] :
                /\ Becomes(t, di, k.ref, lk) /\ \A x \in Inums : x \notin {h, dp} => di[x] = k.di[x]
                /\ di[h].type = k.di[h].type /\ di[h].nlink = k.di[h].nlink + 1
                /\ di[h].ents = IF b THEN With(With(k.di[h].ents, ".", h), "..", dp) ELSE k.di[h].ents
                /\ di[dp].type = "dir" /\ di[dp].nlink = k.di[dp].nlink + One(b)
                     /\ di[dp].ents = With(k.di[dp].ents, n, h)
    BY <1>5, <1>6, <1>12
  <2> DEFINE d == IF n \in Names THEN dp ELSE Root
             m == IF n \in Names THEN n ELSE "a"
  <2>2. Becomes(s, di, k.ref, lock)
    <3>1. Good(t) /\ t.di = di /\ t.ref = k.ref /\ t.lock = lk
      BY <2>1 DEF Becomes
    <3>2. Becomes(s, t.di, t.ref, With(t.lock, dp, None))
      BY <1>1, <3>1, GoodIunlock
    <3> QED  BY <3>1, <3>2
  <2>3. /\ di[dp].ents[n] = h
        /\ \A y \in AllNames : y # n => di[dp].ents[y] = k.di[dp].ents[y]
    BY <1>1, <1>2, <2>1 DEF With
  <2>4. /\ b => di[h].ents["."] = h /\ di[h].ents[".."] = dp
        /\ \A y \in Names : di[h].ents[y] = k.di[h].ents[y]
        /\ ~b => di[h].ents = k.di[h].ents
    <3>1. CASE b
      <4>1. di[h].ents = With(With(k.di[h].ents, ".", h), "..", dp)
        BY <2>1, <3>1
      <4>2. /\ With(With(k.di[h].ents, ".", h), "..", dp)["."] = h
            /\ With(With(k.di[h].ents, ".", h), "..", dp)[".."] = dp
            /\ \A y \in Names : With(With(k.di[h].ents, ".", h), "..", dp)[y] = k.di[h].ents[y]
        BY <1>2, NamesAre DEF With
      <4> QED  BY <3>1, <4>1, <4>2
    <3>2. CASE ~b
      <4>1. di[h].ents = k.di[h].ents
        BY <2>1, <3>2
      <4> QED  BY <3>2, <4>1
    <3> QED  BY <3>1, <3>2
  <2>5. /\ \A x \in Inums : di[x].type = k.di[x].type
        /\ \A x \in Inums, y \in Names : (x # dp \/ y # n) => di[x].ents[y] = k.di[x].ents[y]
    BY <1>1, <2>1, <2>3, <2>4, NamesAre
  <2>6. d \in Inums /\ m \in Names /\ m \in AllNames
    BY <1>1, Numbers, NamesAre, FsAssumption
  <2>7. RefsFit(p, k.ref, w, f, r, q)
    <3>1. ASSUME NEW j \in Inums
          PROVE  k.ref[j] + Is(cwd[p], j) + Is(fd[p], j) + Is(c[p].ip, j) + Is(c[p].held, j)
                     = k.ref[j] + Is(w, j) + Is(f, j) + Is(0, j) + Is(h, j) + Is(dp, j) + Is(0, j)
      <4>1. k.ref[j] \in Nat /\ Is(0, j) = 0 /\ Is(dp, j) \in Nat /\ Is(h, j) \in Nat
              /\ Is(cwd[p], j) \in Nat /\ Is(fd[p], j) \in Nat
              /\ Is(c[p].ip, j) = Is(dp, j) /\ Is(c[p].held, j) = Is(h, j) /\ w = cwd[p] /\ f = fd[p]
        BY <1>2, IsIs DEF h, dp
      <4> HIDE DEF w, f
      <4> QED  BY ONLY <4>1
    <3>2. k.ref \in [Inums -> Nat] /\ puts[p] = <<>> /\ r.ip = 0 /\ r.held = h
      BY <1>0, <1>2, <1>9
    <3> HIDE DEF w, f, q
    <3> QED  BY ONLY <1>8, <3>1, <3>2, Core, p \in Procs, FitRefs
  <2>8. LocksFit(p, lock, l, r)
    <3>1. \A j \in Inums : k.lock[j] = p <=> j = dp
      BY <1>0, HasLocks DEF dp
    <3>2. \A j \in Inums : lock[j] = IF j = dp THEN None ELSE IF j = h THEN p ELSE k.lock[j]
      BY <1>1, <1>2 DEF lk, With
    <3>3. k.lock[h] = None
      BY <1>0
    <3> HIDE DEF lock
    <3> QED  BY ONLY <1>1, <1>2, <1>9, <3>1, <3>2, <3>3 DEF LocksFit
  <2>9. PlaceFit(l, r, q)
    <3>1. h # 0
      BY <1>1, Numbers
    <3> QED  BY <1>1, <1>8, <1>9, <3>1 DEF PlaceFit, InParent, Started
  <2>10. KnowsFit(di, l, r, q)
    BY <1>1, <1>9 DEF KnowsFit, InParent
  <2>11. SureFit(p, l, r, q, w, f)
    BY <1>1, <1>8, <1>9, OldSafe DEF SureFit
  <2>12. \A i \in Inums : di[i] # k.di[i] => k.lock[i] \in {p, None} /\ SafeFor(p, i)
    BY <1>0, <1>1, <2>1
  <2>13. \A x \in Inums, y \in Names : <<x, y>> # <<d, m>> => di[x].ents[y] = k.di[x].ents[y]
    BY <2>5, NamesAre
  <2>14. \A x : Exempt(p, x) => x = h
    BY <1>0, AtIs DEF Exempt, h
  <2>16. ASSUME NEW i \in Inums
         PROVE  di[i].nlink + One(k.di[d].ents[m] = i) + One(i = d
                  /\ DirAt(k.di, d, m)) + One(CountedOn(p, i))
                  >= k.di[i].nlink + One(di[d].ents[m] = i) + One(i = d /\ DirAt(di, d, m))
                       + One((r.op = "link2" \/ l = "erased") /\ r.held = i)
    <3> DEFINE x1 == One(k.di[d].ents[m] = i)
               x2 == One(i = d /\ DirAt(k.di, d, m))
               x3 == One(CountedOn(p, i))
               y1 == One(di[d].ents[m] = i)
               y2 == One(i = d /\ DirAt(di, d, m))
               y3 == One((r.op = "link2" \/ l = "erased") /\ r.held = i)
               z1 == One(i = h)
               z2 == One(i = dp /\ b)
               o == k.di[i].nlink
               new == di[i].nlink
    <3>1. new = o + z1 + z2 /\ o \in Int
      <4>1. o \in Int
        BY Counts
      <4>2. CASE i = h
        <5>1. z1 = 1 /\ z2 = 0
          BY <1>1, <4>2 DEF One
        <5> QED  BY <2>1, <4>1, <4>2, <5>1
      <4>3. CASE i = dp
        <5>1. z1 = 0 /\ z2 = One(b)
          BY <1>1, <4>3 DEF One
        <5>2. new = o + One(b) /\ One(b) \in Nat
          BY <2>1, <4>3 DEF One
        <5> HIDE DEF new, o, z1, z2
        <5> QED  BY ONLY <4>1, <5>1, <5>2
      <4>4. CASE i \notin {h, dp}
        <5>1. z1 = 0 /\ z2 = 0
          BY <4>4 DEF One
        <5> QED  BY <2>1, <4>1, <4>4, <5>1
      <4> QED  BY <4>1, <4>2, <4>3, <4>4
    <3>2. x1 \in Nat /\ x2 \in Nat /\ x3 \in Nat /\ z1 \in Nat /\ z2 \in Nat
      BY DEF One
    <3>3. y3 = 0
      BY <1>1, <1>9 DEF One
    <3>4. CASE n \in Names
      <4>1. d = dp /\ m = n
        BY <3>4
      <4>2. y2 = z2
        <5>1. DirAt(di, dp, n) <=> b
          BY <1>1, <1>b, <2>1, <2>3 DEF DirAt
        <5> QED  BY <4>1, <5>1 DEF One
      <4>3. y1 = z1
        BY <1>1, <2>3, <4>1 DEF One
      <4>4. new + x1 + x2 + x3 >= o + y1 + y2 + y3
        <5> HIDE DEF x1, x2, x3, y1, y2, y3, z1, z2, new, o
        <5> QED  BY ONLY <3>1, <3>2, <3>3, <4>2, <4>3
      <4> QED  BY <4>4
    <3>5. CASE n \notin Names
      <4>1. m # n /\ di[d].ents[m] = k.di[d].ents[m]
        BY <2>5, <2>6, <3>5
      <4>2. y1 = x1
        BY <4>1
      <4>3. y2 = x2
        <5>1. DirAt(di, d, m) <=> DirAt(k.di, d, m)
          BY <2>5, <4>1 DEF DirAt
        <5> QED  BY <5>1 DEF One
      <4>4. new + x1 + x2 + x3 >= o + y1 + y2 + y3
        <5> HIDE DEF x1, x2, x3, y1, y2, y3, z1, z2, new, o
        <5> QED  BY ONLY <3>1, <3>2, <3>3, <4>2, <4>3
      <4> QED  BY <4>4
    <3> QED  BY <3>4, <3>5
  <2>17. ASSUME ~Climbs
         PROVE  /\ di[Root].ents[".."] = k.di[Root].ents[".."]
                /\ \/ di[d].ents[m] \in {k.di[d].ents[m], 0}
                   \/ di[d].ents[m] = h /\ \A y \in Names : di[h].ents[y] = 0
                /\ \A i \in Inums : di[i].type = "dir" =>
                     di[i].ents["."] = i \/ (di[i].ents["."] = k.di[i].ents["."] /\ ~Exempt(p, i))
                /\ \A x, i \in Inums, y \in Names : di[x].ents[y] = i /\ di[i].type = "dir" =>
                     \/ di[i].ents[".."] = x
                     \/ k.di[x].ents[y] = i /\ di[i].ents[".."] = k.di[i].ents[".."]
    <3>1. n \in Names
      BY <1>1, <2>14, <2>17, LacksName
    <3>2. d = dp /\ m = n /\ n # "." /\ n # ".."
      BY <3>1, NamesAre
    <3>3. \A i \in Inums : i # h => di[i].ents["."] = k.di[i].ents["."]
            /\ di[i].ents[".."] = k.di[i].ents[".."]
      BY <2>1, <2>3, <3>2, NamesAre
    <3>4. k.di[h] = Fresh(c[p].kind)
      BY <1>0, <2>17 DEF Core, DotsRight, h
    <3>5. k.di[h].nlink = 0 /\ k.di[h].ents = NoEnts /\ \A y \in AllNames : NoEnts[y] = 0
      BY <1>1, <3>4, FreshIs DEF Types
    <3>6. di[d].ents[m] = h /\ \A y \in Names : di[h].ents[y] = 0
      BY <2>3, <2>4, <3>2, <3>5, NamesAre
    <3>7. \A i \in Inums : di[i].type = "dir" =>
                     di[i].ents["."] = i \/ (di[i].ents["."] = k.di[i].ents["."] /\ ~Exempt(p, i))
      BY <1>b, <2>1, <2>4, <2>14, <3>3
    <3>8. ASSUME NEW x \in Inums, NEW i \in Inums, NEW y \in Names, di[x].ents[y] = i,
                 di[i].type = "dir"
          PROVE  \/ di[i].ents[".."] = x
                 \/ k.di[x].ents[y] = i /\ di[i].ents[".."] = k.di[i].ents[".."]
      <4>1. CASE x = dp /\ y = n
        BY <1>b, <2>1, <2>3, <2>4, <3>8, <4>1
      <4>2. CASE x # dp \/ y # n
        <5>1. k.di[x].ents[y] = i
          BY <2>5, <3>8, <4>2
        <5>2. k.di[i].nlink >= 1
          BY <5>1, Named
        <5>3. i # h
          BY <3>5, <5>2
        <5> QED  BY <3>3, <5>1, <5>3
      <4> QED  BY <4>1, <4>2
    <3>9. Root # h /\ Root \in Inums
      BY <3>5, Named, Numbers
    <3> QED  BY <3>3, <3>6, <3>7, <3>8, <3>9
  <2>18. l # "ialloc" /\ \A i \in Inums : di[i].type = k.di[i].type
    BY <2>5
  <2> HIDE DEF s, l, r, q, w, f, d, m, lock
  <2> QED  BY ONLY <1>1, <1>10, <2>2, <2>6, <2>7, <2>8, <2>9, <2>10, <2>11, <2>12, <2>13, <2>16,
                   <2>17, <2>18,
                Core, p \in Procs, ChangeGoto
<1> QED  BY <1>11, <1>12

(* A pointer to i that y has in the next state, if it is sure then. *)
WillKeep(y, x, i) ==
  /\ k'.di[i].type # "free"
  /\ \A z \in Procs : stage'[z] = "free" /\ Head(puts'[z]) = i => z = y /\ x = "put1"
  /\ ~Climbs => \A z \in Procs : pc'[z] = "ialloc" /\ c'[z].held = i => z = y /\ x = "held"

(* SurePointers after a step, from what each pointer will keep. *)
LEMMA SureNext ==
  ASSUME \A y \in Procs,
         x \in Kinds : Sure(y, x)' /\ Points(y, x)' # 0 => WillKeep(y, x, Points(y, x)')
  PROVE  SurePointers'
<1>0. Climbs' <=> Climbs
  BY DEF Climbs, Elems
<1> SUFFICES ASSUME NEW y \in Procs, NEW x \in Kinds, Sure(y, x)', Points(y, x)' # 0
             PROVE  Kept(y, x, Points(y, x))'
  BY DEF SurePointers
<1> DEFINE i == Points(y, x)'
<1>1. WillKeep(y, x, i)
  OBVIOUS
<1> HIDE DEF i
<1>2. /\ k'.di[i].type # "free"
      /\ \A z \in Procs : stage'[z] = "free" /\ Head(puts'[z]) = i => z = y /\ x = "put1"
      /\ ~Climbs => \A z \in Procs : pc'[z] = "ialloc" /\ c'[z].held = i => z = y /\ x = "held"
  BY <1>1 DEF WillKeep
<1> QED  BY <1>0, <1>2 DEF Kept, i

(* A free inode is blank, unlocked, and no call is at it. *)
LEMMA FreeIs ==
  ASSUME Core, NEW i \in Inums, k.di[i].type = "free"
  PROVE  /\ k.di[i] = Fresh("free") /\ k.lock[i] = None /\ k.di[i].nlink = 0 /\ \A m \in AllNames : k.di[i].ents[m] = 0
         /\ \A q \in Procs : ~(stage[q] = "free" /\ Head(puts[q]) = i) /\ ~(pc[q] = "ialloc"
              /\ c[q].held = i)
<1>1. k.di[i] = Fresh("free") /\ k.lock[i] = None
  <2>1. k.di[i] = Fresh("free") /\ (k.valid[i] => k.ref[i] = 0) /\ (k.lock[i] # None => k.valid[i]
          /\ k.ref[i] > 0)
    BY DEF Core, Sound, InodesUsed
  <2> QED  BY <2>1
<1>2. k.di[i].nlink = 0 /\ \A m \in AllNames : k.di[i].ents[m] = 0
  BY <1>1, FreshIs DEF Types
<1>3. ASSUME NEW q \in Procs PROVE ~(stage[q] = "free" /\ Head(puts[q]) = i) /\ ~(pc[q] = "ialloc" /\ c[q].held = i)
  <2>1. ~(stage[q] = "free" /\ Head(puts[q]) = i)
    BY <1>1, Numbers DEF Core, Locks, Locked
  <2>2. ~(pc[q] = "ialloc" /\ c[q].held = i)
    BY CoreTypes DEF Place, Knows
  <2> QED  BY <2>1, <2>2
<1> QED  BY <1>1, <1>2, <1>3

(* create has found a free inode. *)
LEMMA Allocates ==
  ASSUME Core, NEW p \in Procs, puts[p] = <<>>, pc[p] = "create", NEW dp, dp = c[p].ip,
         k.lock[dp] = None,
         NEW n, n = Head(c[p].rest), k.di[dp].ents[n] = 0, NEW i \in Inums, k.di[i].type = "free",
         NEW kind, kind = c[p].kind,
         NEW s,
         Becomes(s, With(k.di, i, Fresh(kind)), With(k.ref, i, k.ref[i] + 1), With(k.lock, dp, p)),
         Goto(p, s, "ialloc", Holds(c[p], i), <<>>), Rest
  PROVE  IInv'
<1> DEFINE w == cwd[p]
           f == fd[p]
           l == "ialloc"
           q == <<>>
           r == Holds(c[p], i)
           di == With(k.di, i, Fresh(kind))
           ref == With(k.ref, i, k.ref[i] + 1)
           lock == With(k.lock, dp, p)
<1>0. Goto(p, s, l, r, q) /\ Becomes(s, di, ref, lock)
  OBVIOUS
<1>1. /\ c[p] \in InCall /\ dp \in Inums /\ k.di[dp].type = "dir" /\ c[p].op = "create"
        /\ kind \in {"file", "dir", "dev"}
      /\ c[p].rest # <<>> /\ c[p].held = 0 /\ SafeFor(p, dp) /\ dp # i /\ pc[p] \in NoLock
  <2>1. c[p] \in InCall /\ Place(p) /\ Knows(p)
    BY CoreTypes
  <2>2. dp # 0 /\ pc[p] \in InParent /\ c[p].rest # <<>> /\ c[p].op = "create"
          /\ kind \in {"file", "dir", "dev"}
        /\ c[p].held = 0 /\ pc[p] \in NoLock
    BY <2>1 DEF Place, HasIp, HasHeld, InParent, Started, NoLock, Labels
  <2> QED  BY <2>1, <2>2, OldRef, OldSafe DEF Knows
<1>2. /\ k.di[i] = Fresh("free") /\ k.lock[i] = None /\ k.di[i].nlink = 0
        /\ \A m \in AllNames : k.di[i].ents[m] = 0
      /\ \A y \in Procs : ~(stage[y] = "free" /\ Head(puts[y]) = i) /\ ~(pc[y] = "ialloc"
           /\ c[y].held = i)
  BY FreeIs
<1>3. k.di \in [Inums -> Inode] /\ k.ref \in [Inums -> Nat] /\ ref \in [Inums -> Nat]
  BY CoreTypes, RefsWith
<1>4. di[i] = Fresh(kind) /\ \A x \in Inums : x # i => di[x] = k.di[x]
  BY <1>3 DEF With
<1>5. /\ di[i].type = kind /\ di[i].nlink = 0 /\ di[i].type # "free"
        /\ \A m \in AllNames : di[i].ents[m] = 0
  BY <1>1, <1>4, FreshIs DEF Types
<1>6. cwd' = [cwd EXCEPT ![p] = w] /\ fd' = [fd EXCEPT ![p] = f] /\ left' \in Nat /\ w \in Inums
        /\ f \in 0..NINODES
  BY RestIs
<1>7. q \in Seq(Inums) /\ Len(q) <= 2 /\ Put(q, 1) = 0 /\ Put(q, 2) = 0
  BY PutOne
<1>8. r \in InCall /\ r.op = "create" /\ r.kind = kind /\ r.ip = dp /\ r.held = i /\ r.rest = c[p].rest
  <2>1. i \in 0..NINODES
    BY Numbers
  <2> QED  BY <1>1, <2>1, CalHolds
<1> HIDE DEF r, di, ref
<1>9. Goes(p, s, l, r, q, w, f)
  <2>1. Typed(l, r, q, w, f)
    BY <1>6, <1>7, <1>8 DEF Typed, Labels
  <2> HIDE DEF l, q
  <2> QED  BY <1>0, <1>6, <2>1 DEF Goes
<1>10. RefsFit(p, ref, w, f, r, q)
  <2>1. ASSUME NEW j \in Inums
        PROVE  ref[j] + Is(cwd[p], j) + Is(fd[p], j) + Is(c[p].ip, j) + Is(c[p].held, j)
                     = k.ref[j] + Is(w, j) + Is(f, j) + Is(dp, j) + Is(i, j) + Is(0, j) + Is(0, j)
    <3>1. k.ref[j] \in Nat /\ Is(0, j) = 0 /\ Is(dp, j) \in Nat /\ Is(i, j) \in Nat
            /\ Is(cwd[p], j) \in Nat /\ Is(fd[p], j) \in Nat
              /\ Is(c[p].ip, j) = Is(dp, j) /\ Is(c[p].held, j) = 0 /\ w = cwd[p] /\ f = fd[p]
      BY <1>1, <1>3, IsIs
    <3>2. ref[j] = k.ref[j] + Is(i, j)
      BY <1>3, RefMore DEF ref
    <3> HIDE DEF w, f
    <3> QED  BY ONLY <3>1, <3>2
  <2>2. ref \in [Inums -> Nat] /\ puts[p] = <<>> /\ r.ip = dp /\ r.held = i
    BY <1>3, <1>8
  <2> HIDE DEF w, f, q
  <2> QED  BY ONLY <1>7, <2>1, <2>2, Core, p \in Procs, FitRefs
<1>11. LocksFit(p, lock, l, r)
  <2>1. l \in {"ialloc", "erase", "unlockdp"} /\ r.ip = dp
    BY <1>8
  <2> HIDE DEF l
  <2> QED  BY ONLY <1>1, <2>1, Core, p \in Procs, puts[p] = <<>>, k.lock[dp] = None, LockTakes
<1>12. PlaceFit(l, r, q)
  <2>1. dp # 0 /\ i # 0
    BY <1>1, Numbers
  <2> QED  BY <1>1, <1>7, <1>8, <2>1 DEF PlaceFit, InParent, Started
<1>13. KnowsFit(di, l, r, q)
  BY <1>1, <1>4, <1>5, <1>8 DEF KnowsFit, InParent
<1>14. /\ TypeOK' /\ Good(k') /\ Others(p) /\ k'.di = di
       /\ \A x \in Inums : k'.ref[x] + Hits(p, x) = k.ref[x] + Hits(p, x)'
       /\ \A x \in Inums : /\ k'.lock[x] = p <=> x \in Locked(p)'
                           /\ k'.lock[x] # k.lock[x] => k.lock[x] \in {p, None}
                                /\ k'.lock[x] \in {p, None}
       /\ stage[p] # "free" /\ stage'[p] = "lock" /\ Place(p)' /\ Knows(p)'
       /\ pc'[p] = l /\ c'[p] = r
  <2> HIDE DEF l, q, lock, w, f
  <2> QED  BY ONLY Core, p \in Procs, <1>0, <1>9, <1>10, <1>11, <1>12, <1>13, GotoFacts
<1>15. cwd'[p] = w /\ fd'[p] = f /\ puts'[p] = q
  <2>1. s \in Kernel
    BY <1>0 DEF Becomes, Good
  <2> HIDE DEF l, q, w, f
  <2> QED  BY ONLY Core, p \in Procs, <1>9, <2>1, GotoTypes
<1>16. k'.di = di /\ \A x \in Inums : k.di[x].type # "free" => k'.di[x] = k.di[x]
  BY <1>4, <1>14
<1>17. SurePointers'
  <2> SUFFICES ASSUME NEW y \in Procs, NEW x \in Kinds, Sure(y, x)', Points(y, x)' # 0
               PROVE  WillKeep(y, x, Points(y, x)')
    BY SureNext
  <2> DEFINE j == Points(y, x)'
  <2>1. \A z \in Procs : stage'[z] = "free" => z # p /\ stage[z] = "free" /\ puts'[z] = puts[z]
    BY <1>14 DEF Others
  <2>2. \A z \in Procs : pc'[z] = "ialloc" => (z = p /\ c'[z].held = i) \/ (z # p /\ pc[z] = "ialloc"
          /\ c'[z] = c[z])
    BY <1>8, <1>14 DEF Others
  <2>3. ASSUME SafeFor(y, j), y = p, x # "held", j # i
        PROVE  WillKeep(y, x, j)
    <3>1. j \in Inums
      BY <1>14, PointsInNext, Numbers
    <3>2. k'.di[j].type # "free"
      BY <1>16, <2>3, <3>1 DEF SafeFor
    <3>3. \A z \in Procs : ~(stage'[z] = "free" /\ Head(puts'[z]) = j)
      BY <2>1, <2>3 DEF SafeFor
    <3>4. ~Climbs => \A z \in Procs : ~(pc'[z] = "ialloc" /\ c'[z].held = j)
      BY <2>2, <2>3 DEF SafeFor
    <3> HIDE DEF j
    <3> QED  BY <3>2, <3>3, <3>4 DEF WillKeep
  <2>4. CASE y = p
    <3>1. Points(p, "cwd")' = w /\ Points(p, "fd")' = f /\ Points(p, "ip")' = dp
            /\ Points(p, "held")' = i
          /\ Points(p, "put1")' = 0 /\ Points(p, "put2")' = 0
      BY <1>7, <1>8, <1>14, <1>15, PointsAreNext
    <3>2. CASE x = "held"
      <4>1. j = i
        BY <2>4, <3>1, <3>2
      <4>2. k'.di[i].type # "free"
        BY <1>5, <1>16
      <4>3. \A z \in Procs : ~(stage'[z] = "free" /\ Head(puts'[z]) = i)
        BY <1>2, <2>1
      <4>4. \A z \in Procs : pc'[z] = "ialloc" /\ c'[z].held = i => z = p
        BY <1>2, <2>2
      <4> HIDE DEF j
      <4> QED  BY <2>4, <3>2, <4>1, <4>2, <4>3, <4>4 DEF WillKeep, j
    <3>3. CASE x # "held"
      <4>1. j \in {w, f, dp} /\ j # 0
        BY <2>4, <3>1, <3>3 DEF Kinds
      <4>2. SafeFor(p, j)
        BY <1>1, <4>1, OldSafe
      <4>3. j # i
        BY <4>2 DEF SafeFor
      <4> HIDE DEF j
      <4> QED  BY <2>3, <2>4, <3>3, <4>2, <4>3 DEF j
    <3> QED  BY <3>2, <3>3
  <2>5. CASE y # p
    <3>1. Points(y, x) = j /\ Sure(y, x)
      BY <1>14, <2>5, OthersPoint
    <3>2. Kept(y, x, j) /\ j \in Inums
      BY <1>14, <3>1, PointsInNext, Numbers DEF Core, SurePointers
    <3>3. j # i
      BY <3>2 DEF Kept
    <3>4. k'.di[j].type # "free"
      BY <1>16, <3>2 DEF Kept
    <3>5. \A z \in Procs : stage'[z] = "free" /\ Head(puts'[z]) = j => z = y /\ x = "put1"
      BY <2>1, <3>2 DEF Kept
    <3>6. ~Climbs => \A z \in Procs : pc'[z] = "ialloc" /\ c'[z].held = j => z = y /\ x = "held"
      BY <2>2, <3>2, <3>3 DEF Kept
    <3> HIDE DEF j
    <3> QED  BY <3>4, <3>5, <3>6 DEF WillKeep, j
  <2> QED  BY <2>4, <2>5
<1>18. \A x \in Inums, m \in Names : k'.di[x].ents[m] \in {k.di[x].ents[m], 0}
  <2> SUFFICES ASSUME NEW x \in Inums, NEW m \in Names PROVE di[x].ents[m] \in {k.di[x].ents[m], 0}
    BY <1>16
  <2> QED  BY <1>4, <1>5, NamesAre
<1>19. LinksEnough'
  <2>1. \A x \in Inums : k'.di[x].type = "dir" => k.di[x].type = "dir" \/ k.di[x].nlink = 0
    BY <1>2, <1>4, <1>16
  <2>2. \A x \in Inums : k'.di[x].nlink = k.di[x].nlink /\ (CountedOn(p, x)' => CountedOn(p, x))
    <3>1. \A x \in Inums : k'.di[x].nlink = k.di[x].nlink
      BY <1>2, <1>4, <1>5, <1>16
    <3>2. \A x \in Inums : ~CountedOn(p, x)'
      BY <1>8, <1>14 DEF CountedOn
    <3> QED  BY <3>1, <3>2
  <2> QED  BY ONLY <1>14, <1>18, <2>1, <2>2, Core, p \in Procs, LinksLess
<1>20. ASSUME ~Climbs PROVE DotsRight' /\ NoCycle'
  <2>1. NoCycle'
    BY <1>18, <1>20, NoCycleStep DEF Core
  <2>2. \A x \in Inums : k'.di[x] # k.di[x] => SafeFor(p, x) \/ k.di[x].type = "free"
    BY <1>16
  <2>3. pc'[p] = "ialloc" => k'.di[c'[p].held] = Fresh(c'[p].kind)
    BY <1>4, <1>8, <1>14
  <2>4. \A x : ~Exempt(p, x)
    BY <1>14 DEF Exempt
  <2>5. \A x \in Inums : k'.di[x].type = "dir" =>
           k'.di[x].ents["."] = x \/ Exempt(p, x)' \/ (k'.di[x] = k.di[x] /\ ~Exempt(p, x))
    <3>1. Exempt(p, i)'
      BY <1>8, <1>14 DEF Exempt
    <3>2. \A x \in Inums : x # i => k'.di[x] = k.di[x]
      BY <1>4, <1>16
    <3>3. ASSUME NEW x \in Inums, x = i PROVE Exempt(p, x)'
      BY <3>1, <3>3 DEF Exempt
    <3> QED  BY <2>4, <3>2, <3>3
  <2>6. ASSUME NEW x \in Inums, NEW y \in Inums, NEW m \in Names, k'.di[x].ents[m] = y,
               k'.di[y].type = "dir"
        PROVE  k.di[x].ents[m] = y /\ k.di[y].type = "dir" /\ k'.di[y].ents[".."] = k.di[y].ents[".."]
    <3>1. k.di[x].ents[m] = y
      BY <1>18, <2>6, Numbers
    <3>2. k.di[y].nlink >= 1
      BY <3>1, Named
    <3>3. y # i
      BY <1>2, <3>2
    <3>4. k'.di[y] = k.di[y]
      BY <1>4, <1>16, <3>3
    <3> QED  BY <2>6, <3>1, <3>4
  <2>8. k'.di[Root].ents[".."] = k.di[Root].ents[".."]
    <3>1. Root \in Inums /\ k.di[Root].nlink >= 1
      BY Named, Numbers
    <3>2. Root # i
      BY <1>2, <3>1
    <3> QED  BY <1>4, <1>16, <3>1, <3>2
  <2>7. DotsRight'
    BY ONLY <1>14, <1>20, <2>2, <2>3, <2>5, <2>6, <2>8, Core, p \in Procs, DotsStep
  <2> QED  BY <2>1, <2>7
<1>21. /\ \A x \in Inums : k'.di[x] # k.di[x] => k.lock[x] \in {p, None}
       /\ \A x \in Inums : k'.di[x].type # k.di[x].type =>
                            k.di[x].type = "free" \/ (stage[p] = "free" /\ Head(puts[p]) = x)
  BY <1>2, <1>4, <1>16
<1> QED  BY ONLY <1>14, <1>17, <1>19, <1>20, <1>21, Core, p \in Procs, Keeps

(* create looks its name up and allocates an inode. IInv is kept. *)
LEMMA CreateLookupKeeps ==
  ASSUME Core, NEW p \in Procs, CreateLookup(p) PROVE IInv'
<1> DEFINE dp == c[p].ip
           n == Head(c[p].rest)
           kind == c[p].kind
           u == ilock(k, p, dp)
           ip == u.ic[dp].ents[n]
           s == ialloc(u, kind)
           i == Min(FreeInodes(u))
           lk == With(k.lock, dp, p)
<1>1. /\ pc[p] = "create" /\ puts[p] = <<>> /\ k.lock[dp] = None /\ Rest
      /\ ip # 0 => Goto(p, iunlock(iget(u, ip), dp), "exists", FoundIp(c[p], ip), <<dp>>)
      /\ ip = 0 /\ FreeInodes(u) = {} => Goto(p, s, "idle", c[p], <<>>)
      /\ ip = 0 /\ FreeInodes(u) # {} => Goto(p, s, "ialloc", Holds(c[p], i), <<>>)
  BY DEF CreateLookup, At, Free, dirlookup, FoundIp, Holds
<1>2. dp \in Inums /\ k.ref[dp] > 0 /\ SafeFor(p, dp) /\ c[p] \in InCall /\ c[p].rest # <<>>
        /\ kind \in {"file", "dir", "dev"}
  <2>1. Place(p) /\ c[p] \in InCall
    BY SMTT(30), CoreTypes
  <2>2. dp # 0 /\ pc[p] \in InParent /\ c[p].rest # <<>> /\ kind \in {"file", "dir", "dev"}
    BY SMTT(30), <1>1, <2>1 DEF Place, HasIp, InParent, Started
  <2> QED  BY <2>1, <2>2, OldRef, OldSafe
<1>3. u.ic[dp] = k.di[dp] /\ u \in Kernel /\ Becomes(u, k.di, k.ref, lk)
  BY <1>1, <1>2, Locking DEF SafeFor
<1>4. ip = k.di[dp].ents[n] /\ dp = c[p].ip /\ n = Head(c[p].rest) /\ kind = c[p].kind
  BY <1>3
<1> HIDE DEF dp, n, kind, ip, u, lk
<1>5. /\ s \in Kernel
      /\ FreeInodes(u) = {} => s.panic = "ialloc: no inodes"
      /\ FreeInodes(u) # {} =>
                  \/ s.panic = "iget: no inodes"
                  \/ Becomes(s, With(u.di, i, Fresh(kind)), With(u.ref, i, u.ref[i] + 1), u.lock)
  BY ZenonT(40), <1>2, <1>3, GoodIalloc DEF Becomes
<1>6. CASE ip # 0
  BY <1>1, <1>4, <1>6, CreateFinds DEF u, EntryOf
<1>7. ASSUME NEW l \in Labels, NEW r \in InCall, Goto(p, s, l, r, <<>>), s.panic # "no" PROVE IInv'
  <2> DEFINE w == cwd[p]
             f == fd[p]
             q == <<>>
  <2>1. cwd' = [cwd EXCEPT ![p] = w] /\ fd' = [fd EXCEPT ![p] = f] /\ left' \in Nat /\ w \in Inums
          /\ f \in 0..NINODES
    BY <1>1, RestIs
  <2>2. Typed(l, r, q, w, f)
    BY <1>2, <2>1, PutOne DEF Typed
  <2>3. Goes(p, s, l, r, q, w, f)
    BY <1>1, <1>7, <2>1, <2>2 DEF Goes
  <2> HIDE DEF w, f, q
  <2> QED  BY <1>5, <1>7, <2>3, PanicGoto
<1>8. CASE ip = 0 /\ FreeInodes(u) = {}
  <2>1. "idle" \in Labels /\ s.panic # "no" /\ Goto(p, s, "idle", c[p], <<>>)
    BY <1>1, <1>5, <1>8 DEF Labels
  <2> HIDE DEF s
  <2> QED  BY <1>2, <1>7, <2>1
<1>9. CASE ip = 0 /\ FreeInodes(u) # {}
  <2>1. Goto(p, s, "ialloc", Holds(c[p], i), <<>>)
    BY <1>1, <1>9
  <2>2. i \in Inums /\ k.di[i].type = "free"
    BY <1>3, <1>9, FirstFreeInode DEF Becomes
  <2>3. Holds(c[p], i) \in InCall /\ "ialloc" \in Labels
    <3>1. i \in 0..NINODES
      BY <2>2, Numbers
    <3> QED  BY <1>2, <3>1, CalHolds DEF Labels
  <2>4. s.panic # "no" \/ Becomes(s, With(k.di, i, Fresh(kind)), With(k.ref, i, k.ref[i] + 1), lk)
    BY <1>3, <1>5, <1>9 DEF Becomes
  <2>5. CASE s.panic # "no"
    <3> HIDE DEF s, i
    <3> QED  BY <1>7, <2>1, <2>3, <2>5
  <2>6. CASE Becomes(s, With(k.di, i, Fresh(kind)), With(k.ref, i, k.ref[i] + 1), lk)
    <3>1. k.di[dp].ents[n] = 0
      BY <1>4, <1>9
    <3> HIDE DEF s, i
    <3> QED  BY <1>1, <1>4, <2>1, <2>2, <2>6, <3>1, Allocates DEF lk
  <2> QED  BY <2>4, <2>5, <2>6
<1> QED  BY SMTT(30), <1>6, <1>8, <1>9

(* A step of iput that writes inode i: its entries go, and its count stays. *)
LEMMA IputWrites ==
  ASSUME Core, NEW p \in Procs, NEW i, i = Head(puts[p]), NEW to \in {"free", "drop"},
         NEW from \in {"lock", "free"},
         Stage(p, from, to), UNCHANGED puts, NEW e \in Inode, NEW lock, Becomes(k', With(k.di, i, e), k.ref, lock),
         k.lock[i] \in {p, None}, k.di[i].type # "free", k.di[i].nlink = 0,
         e.nlink = 0, e.ents = NoEnts, e.type = IF from = "free" THEN "free" ELSE k.di[i].type,
         to = "free" => e.blk = {},
         lock = With(k.lock, i, IF to = "free" THEN p ELSE None),
         from = "lock" => to = "free" /\ k.ref[i] = 1, from = "free" => to = "drop"
  PROVE  IInv'
<1> DEFINE q == puts[p]
           di == With(k.di, i, e)
<1>1. k' \in Kernel /\ Good(k') /\ k'.di = di /\ k'.ref = k.ref /\ k'.lock = lock /\ q \in Seq(Inums)
      /\ puts' = [puts EXCEPT ![p] = q] /\ to \in {"lock", "free", "drop"}
  BY CoreTypes DEF Becomes, Good, Core, TypeOK
<1>2. /\ TypeOK' /\ Others(p) /\ stage[p] = from /\ stage'[p] = to /\ pc'[p] = pc[p] /\ c'[p] = c[p]
      /\ puts'[p] = puts[p] /\ cwd'[p] = cwd[p] /\ fd'[p] = fd[p] /\ puts[p] # <<>>
           /\ pc[p] \notin {"ialloc", "erase"}
      /\ i \in Inums /\ i = Put(puts[p], 1) /\ k.ref[i] > 0
  <2>1. \/ Stage(p, "lock", "free") /\ from = "lock" /\ to = "free"
        \/ Stage(p, "free", "drop") /\ from = "free" /\ to = "drop"
    OBVIOUS
  <2>2. puts[p] \in Seq(Inums) /\ puts' = [puts EXCEPT ![p] = puts[p]] /\ k' \in Kernel
    BY <1>1
  <2>3. CASE Stage(p, "lock", "free") /\ from = "lock" /\ to = "free"
    BY ONLY <2>2, <2>3, Core, p \in Procs, i = Head(puts[p]), StageIs
  <2>4. CASE Stage(p, "free", "drop") /\ from = "free" /\ to = "drop"
    BY ONLY <2>2, <2>4, Core, p \in Procs, i = Head(puts[p]), StageIs
  <2> QED  BY <2>1, <2>3, <2>4
<1>3. k.di \in [Inums -> Inode] /\ k.ref \in [Inums -> Nat] /\ k.lock \in [Inums -> Procs \cup {None}]
        /\ None # p
  BY CoreTypes, Numbers
<1>4. di[i] = e /\ \A x \in Inums : x # i => di[x] = k.di[x]
  BY <1>2, <1>3 DEF With
<1> HIDE DEF di, q
<1>5. \A x \in Inums : k'.ref[x] + Hits(p, x) = k.ref[x] + Hits(p, x)'
  BY <1>1, <1>2 DEF Hits
<1>6. \A x \in Inums : /\ k'.lock[x] = p <=> x \in Locked(p)'
                       /\ k'.lock[x] # k.lock[x] => k.lock[x] \in {p, None} /\ k'.lock[x] \in {p, None}
  <2>1. lock[i] = (IF to = "free" THEN p ELSE None) /\ \A x \in Inums : x # i => lock[x] = k.lock[x]
    BY <1>2, <1>3 DEF With
  <2>2. \A x \in Inums : k.lock[x] = p <=> x \in Locked(p)
    BY DEF Core, Locks
  <2>3. \A x \in Inums : x # i => (x \in Locked(p)' <=> x \in Locked(p))
    BY <1>2 DEF Locked
  <2>4. i \in Locked(p)' <=> to = "free"
    <3>1. CASE to = "free"
      BY <1>2, <3>1 DEF Locked
    <3>2. CASE to = "drop"
      <4>1. from = "free" /\ i \in Inums
        BY <1>2, <3>2
      <4>2. ~(pc[p] = "unlockdp" /\ i = c[p].ip) /\ ~(pc[p] \in {"opened", "erased"} /\ i = c[p].held)
        <5>1. ASSUME NEW x \in Kinds, Sure(p, x), Points(p, x) = i PROVE x = "put1"
          <6>1. Points(p, x) # 0
            BY <1>2, <5>1, Numbers
          <6> QED  BY <1>2, <4>1, <5>1, <6>1 DEF Core, SurePointers, Kept
        <5> QED  BY <5>1, PointsAre DEF Sure, Kinds, InParent
      <4> QED  BY <1>2, <3>2, <4>2 DEF Locked
    <3> QED  BY <3>1, <3>2
  <2>5. None # p
    BY <1>3
  <2> QED  BY ONLY <1>1, <2>1, <2>2, <2>3, <2>4, <2>5, k.lock[i] \in {p, None}
<1>7. /\ \A x \in Inums : k'.di[x] # k.di[x] => x = i
      /\ \A x \in Inums : x # i => k'.di[x] = k.di[x]
      /\ k'.di[i] = e
  BY <1>1, <1>2, <1>4
<1>8. /\ \A x \in Inums : k'.di[x] # k.di[x] => k.lock[x] \in {p, None}
      /\ \A x \in Inums : k'.di[x].type # k.di[x].type =>
                            k.di[x].type = "free" \/ (stage[p] = "free" /\ Head(puts[p]) = x)
  BY <1>2, <1>7
<1>9. \A x \in Inums, m \in Names : k'.di[x].ents[m] \in {k.di[x].ents[m], 0}
  BY <1>7, NamesAre DEF NoEnts
<1>10. LinksEnough'
  <2>1. \A x \in Inums : k'.di[x].type = "dir" => k.di[x].type = "dir" \/ k.di[x].nlink = 0
    BY <1>7
  <2>2. \A x \in Inums : k'.di[x].nlink = k.di[x].nlink /\ (CountedOn(p, x)' => CountedOn(p, x))
    BY <1>2, <1>7 DEF CountedOn
  <2> QED  BY ONLY <1>2, <1>9, <2>1, <2>2, Core, p \in Procs, LinksLess
<1>11. ASSUME NEW y \in Procs, NEW x \in Kinds
       PROVE  /\ Points(y, x)' = Points(y, x) /\ (Sure(y, x)' => Sure(y, x))
              /\ Sure(y, x)' /\ Points(y, x) = i => y = p /\ x = "put1" /\ to = "free"
  <2>1. Points(y, x)' = Points(y, x) /\ (Sure(y, x)' => Sure(y, x))
    <3>1. CASE y # p
      BY <1>2, <3>1, OthersPoint
    <3>2. CASE y = p
      <4>1. Points(y, x)' = Points(y, x)
        BY <1>2, <3>2, PointsAre, PointsAreNext DEF Kinds
      <4>2. Climbs' <=> Climbs
        BY DEF Climbs, Elems
      <4>3. Sure(y, x)' => Sure(y, x)
        BY <1>2, <3>2, <4>2 DEF Sure
      <4> QED  BY <4>1, <4>3
    <3> QED  BY <3>1, <3>2
  <2>2. ASSUME Sure(y, x)', Points(y, x) = i PROVE y = p /\ x = "put1" /\ to = "free"
    <3>1. CASE from = "lock"
      <4>1. Points(p, "put1") = i /\ "put1" \in Kinds /\ RefsExact /\ k.ref[i] = 1
        BY <1>2, <3>1, PointsAre DEF Kinds, Core
      <4>2. <<y, x>> = <<p, "put1">>
        BY <1>2, <1>3, <2>2, <4>1, HasRef
      <4> QED  BY <3>1, <4>2
    <3>2. CASE from = "free"
      <4>1. Kept(y, x, i)
        <5>1. Sure(y, x) /\ Points(y, x) # 0
          BY <1>2, <2>1, <2>2, Numbers
        <5> QED  BY <2>2, <5>1 DEF Core, SurePointers
      <4>2. y = p /\ x = "put1" /\ to = "drop"
        BY <1>2, <3>2, <4>1 DEF Kept
      <4>3. ~Sure(y, x)'
        BY <1>2, <4>2 DEF Sure
      <4> QED  BY <2>2, <4>3
    <3> QED  BY <3>1, <3>2
  <2> QED  BY <2>1, <2>2
<1>12. SurePointers'
  <2> SUFFICES ASSUME NEW y \in Procs, NEW x \in Kinds, Sure(y, x)', Points(y, x)' # 0
               PROVE  WillKeep(y, x, Points(y, x)')
    BY SureNext
  <2> DEFINE j == Points(y, x)'
  <2>1. j = Points(y, x) /\ Sure(y, x) /\ (j = i => y = p /\ x = "put1" /\ to = "free")
    BY <1>11
  <2>2. Kept(y, x, j) /\ j \in Inums
    BY <1>2, <2>1, PointsInNext, Numbers DEF Core, SurePointers
  <2>3. k'.di[j].type # "free"
    <3>1. k.di[j].type # "free"
      BY <2>2 DEF Kept
    <3>2. to = "free" => e.type # "free"
      OBVIOUS
    <3> HIDE DEF j
    <3> QED  BY <1>7, <2>1, <2>2, <3>1, <3>2
  <2>4. ASSUME NEW z \in Procs, stage'[z] = "free", Head(puts'[z]) = j PROVE z = y /\ x = "put1"
    <3>1. CASE z = p
      BY <1>2, <2>1, <2>4, <3>1
    <3>2. CASE z # p
      <4>1. stage[z] = "free" /\ Head(puts[z]) = j
        BY <1>2, <2>4, <3>2 DEF Others
      <4> HIDE DEF j
      <4> QED  BY <2>2, <4>1 DEF Kept
    <3> QED  BY <3>1, <3>2
  <2>5. ASSUME ~Climbs, NEW z \in Procs, pc'[z] = "ialloc", c'[z].held = j PROVE z = y /\ x = "held"
    <3>1. pc[z] = "ialloc" /\ c[z].held = j
      BY <1>2, <2>5 DEF Others
    <3> HIDE DEF j
    <3> QED  BY <2>2, <2>5, <3>1 DEF Kept
  <2> HIDE DEF j
  <2>6. WillKeep(y, x, j)
    BY <2>3, <2>4, <2>5 DEF WillKeep
  <2> QED  BY <2>6 DEF j
<1>13. Place(p)'
  <2>1. Place(p)
    BY CoreTypes
  <2> QED  BY <1>2, <2>1 DEF Place, HasIp, HasHeld
<1>14. Knows(p)'
  <2>1. Knows(p) /\ Place(p) /\ c[p] \in InCall
    BY CoreTypes
  <2>2. ASSUME pc[p] \in InParent PROVE k'.di[c[p].ip].type = "dir"
    <3>1. k.di[c[p].ip].type = "dir" /\ c[p].ip # 0
      BY <2>1, <2>2 DEF Knows, Place, HasIp, InParent
    <3>2. c[p].ip \in Inums
      BY <3>1, OldRef
    <3>3. CASE c[p].ip # i
      BY <1>7, <3>1, <3>2, <3>3
    <3>4. CASE c[p].ip = i
      <4>1. Points(p, "ip") = i /\ "ip" \in Kinds
        BY <3>4, PointsAre DEF Kinds
      <4>2. Sure(p, "ip")'
        BY <1>2, <2>2 DEF Sure
      <4> QED  BY <1>11, <4>1, <4>2
    <3> QED  BY <3>3, <3>4
  <2>3. ASSUME c[p].op = "link2" PROVE k'.di[c[p].held].type # "dir"
    <3>1. k.di[c[p].held].type # "dir" /\ c[p].held # 0
      BY <2>1, <2>3 DEF Knows, Place, HasHeld
    <3>2. c[p].held \in Inums
      BY <3>1, OldRef
    <3> QED  BY <1>7, <3>1, <3>2
  <2>4. ASSUME to = "free" PROVE k'.di[i].nlink = 0 /\ k'.di[i].blk = {} /\ k'.di[i].ents = NoEnts
    BY <1>7, <2>4
  <2>5. ASSUME pc[p] = "unlockdp"
        PROVE  c[p].rest # <<>> /\ puts[p] \in {<<>>, <<k'.di[c[p].ip].ents[Head(c[p].rest)]>>}
    <3>1. c[p].ip # 0 /\ c[p].rest # <<>>
            /\ puts[p] \in {<<>>, <<k.di[c[p].ip].ents[Head(c[p].rest)]>>}
      BY <2>1, <2>5 DEF Knows, Place, HasIp
    <3>2. c[p].ip \in Inums
      BY <3>1, OldRef
    <3>3. c[p].ip # i
      <4>1. Points(p, "ip") = c[p].ip /\ "ip" \in Kinds
        BY PointsAre DEF Kinds
      <4>2. Sure(p, "ip")'
        BY <1>2, <2>5 DEF Sure
      <4> QED  BY <1>11, <4>1, <4>2
    <3> QED  BY SMTT(30), <1>7, <3>1, <3>2, <3>3
  <2> QED  BY <1>2, <2>2, <2>3, <2>4, <2>5 DEF Knows
<1>15. ASSUME ~Climbs PROVE DotsRight' /\ NoCycle'
  <2>1. NoCycle'
    BY <1>2, <1>9, <1>15, NoCycleStep DEF Core
  <2>2. SafeFor(p, i)
    <3>1. Points(p, "put1") = i /\ "put1" \in Kinds /\ ~("put1" = "put1" /\ stage[p] = "drop")
      BY <1>2, PointsAre DEF Kinds
    <3> QED  BY <1>2, <3>1, LockedSafe
  <2>3. \A x \in Inums : k'.di[x] # k.di[x] => SafeFor(p, x) \/ k.di[x].type = "free"
    BY <1>7, <2>2
  <2>4. pc'[p] = "ialloc" => k'.di[c'[p].held] = Fresh(c'[p].kind)
    BY <1>2
  <2>5. ASSUME NEW x \in Inums, k'.di[x].type = "dir"
        PROVE  Exempt(p, x)' \/ (k'.di[x] = k.di[x] /\ ~Exempt(p, x))
    <3>1. CASE x = i
      <4>1. to = "free"
        BY <1>7, <2>5, <3>1
      <4> QED  BY <1>2, <3>1, <4>1 DEF Exempt
    <3>2. CASE x # i
      BY <1>2, <1>7, <3>2 DEF Exempt
    <3> QED  BY <3>1, <3>2
  <2>6. ASSUME NEW x \in Inums, NEW y \in Inums, NEW m \in Names, k'.di[x].ents[m] = y,
               k'.di[y].type = "dir"
        PROVE  k.di[x].ents[m] = y /\ k.di[y].type = "dir" /\ k'.di[y].ents[".."] = k.di[y].ents[".."]
    <3>1. k.di[x].ents[m] = y
      BY <1>9, <2>6, Numbers
    <3>2. k.di[y].nlink >= 1
      BY <3>1, Named
    <3>3. y # i
      BY <3>2
    <3> QED  BY <1>7, <2>6, <3>1, <3>3
  <2>8. k'.di[Root].ents[".."] = k.di[Root].ents[".."]
    <3>1. Root \in Inums /\ k.di[Root].nlink >= 1
      BY Named, Numbers
    <3> QED  BY <1>7, <3>1
  <2>7. DotsRight'
    BY ONLY <1>2, <1>15, <2>3, <2>4, <2>5, <2>6, <2>8, Core, p \in Procs, DotsStep
  <2> QED  BY SMTT(30), <2>1, <2>7
<1> QED  BY ONLY <1>1, <1>2, <1>5, <1>6, <1>8, <1>10, <1>12, <1>13, <1>14, <1>15, Core, p \in Procs,
                 Keeps

(* iput truncates an inode without links at its last reference. IInv is    *)
(* kept.                                                                   *)
LEMMA IputTruncKeeps ==
  ASSUME Core, NEW p \in Procs, IputTrunc(p) PROVE IInv'
<1> DEFINE i == Head(puts[p])
           t == [k EXCEPT !.lock[i] = p]
           e == Ino(k.di[i].type, k.di[i].nlink, NoEnts, {})
           lock == With(k.lock, i, p)
<1>1. /\ Stage(p, "lock", "free") /\ UNCHANGED puts /\ k.lock[i] = None /\ k.valid[i]
        /\ k.ic[i].nlink = 0 /\ k.ref[i] = 1
      /\ k' = itrunc(t, i)
  BY DEF IputTrunc, Free, LastRef
<1>2. puts[p] # <<>> /\ puts[p] \in Seq(Inums) /\ Good(k) /\ k.lock \in [Inums -> Procs \cup {None}]
        /\ None # p
      /\ k.di \in [Inums -> Inode]
  BY <1>1, CoreTypes, CoreGood, Numbers DEF Stage
<1>3. i \in Inums
  BY <1>2, PutHead
<1>4. k.ref[i] > 0 /\ Becomes(t, k.di, k.ref, lock)
  <2>1. k.ref[i] > 0 /\ k.valid[i]
    BY <1>1
  <2>2. Becomes(t, k.di, k.ref, lock)
    BY ONLY <1>2, <1>3, <2>1, p \in Procs, GoodTake
  <2> QED  BY <2>1, <2>2
<1>5. k.ic[i] = k.di[i] /\ k.di[i].type # "free"
  <2>1. /\ k.valid[i] /\ k.ref[i] > 0 => k.ic[i] = k.di[i]
        /\ k.di[i].type = "free" => (k.valid[i] => k.ref[i] = 0)
    BY <1>3 DEF Core, Sound, WriteThrough, InodesUsed
  <2> QED  BY <1>1, <1>4, <2>1
<1>6. lock[i] # None
  BY <1>2, <1>3 DEF With
<1> HIDE DEF t, lock
<1>7. e \in Inode /\ Becomes(k', With(k.di, i, e), k.ref, lock)
  <2>1. Good(t) /\ t.di = k.di /\ t.ref = k.ref /\ t.lock = lock /\ t.lock[i] # None
    BY <1>4, <1>6 DEF Becomes
  <2>2. LET e2 == Ino(t.di[i].type, t.di[i].nlink, NoEnts, {})
        IN  e2 \in Inode /\ Becomes(itrunc(t, i), With(t.di, i, e2), t.ref, t.lock)
    BY <1>3, <2>1, GoodItrunc
  <2> QED  BY <1>1, <2>1, <2>2
<1>8. e.type = (IF "lock" = "free" THEN "free" ELSE k.di[i].type) /\ e.nlink = 0 /\ e.ents = NoEnts
        /\ e.blk = {} /\ k.di[i].nlink = 0
  BY <1>1, <1>5 DEF Ino
<1>9. lock = With(k.lock, i, IF "free" = "free" THEN p ELSE None) /\ k.lock[i] \in {p, None}
  BY <1>1 DEF lock
<1>10. i = Head(puts[p]) /\ Stage(p, "lock", "free") /\ UNCHANGED puts /\ k.ref[i] = 1
  BY <1>1
<1> HIDE DEF e, i
<1> QED  BY ONLY <1>5, <1>7, <1>8, <1>9, <1>10, Core, p \in Procs, IputWrites

(* iput frees it. IInv is kept. *)
LEMMA IputFreeKeeps ==
  ASSUME Core, NEW p \in Procs, IputFree(p) PROVE IInv'
<1> DEFINE i == Head(puts[p])
           e == Fresh("free")
           lock == With(k.lock, i, None)
<1>1. Stage(p, "free", "drop") /\ UNCHANGED puts /\ k' = Freed(k, i)
  BY DEF IputFree, Freed
<1>2. puts[p] # <<>> /\ puts[p] \in Seq(Inums) /\ Good(k) /\ stage[p] = "free" /\ Knows(p) /\ None # p
  BY <1>1, CoreTypes, CoreGood, Numbers DEF Stage
<1>3. i \in Inums
  BY <1>2, PutHead
<1>4. k.lock[i] = p
  BY <1>2, <1>3 DEF Core, Locks, Locked
<1>5. k.di[i].nlink = 0 /\ k.di[i].blk = {} /\ k.di[i].ents = NoEnts
  BY <1>2 DEF Knows
<1>6. k.di[i].type # "free"
  BY <1>2, <1>3, <1>4, LockedIs
<1>7. Becomes(k', With(k.di, i, e), k.ref, lock)
  <2>1. k.lock[i] # None /\ i # Root
    BY <1>2, <1>3, <1>4, <1>5, Named
  <2> QED  BY <1>1, <1>2, <1>3, <1>5, <2>1, GoodFree
<1>8. e \in Inode /\ e.type = (IF "free" = "free" THEN "free" ELSE k.di[i].type) /\ e.nlink = 0
        /\ e.ents = NoEnts
  BY FreshIs DEF Types
<1>9. lock = With(k.lock, i, IF "drop" = "free" THEN p ELSE None) /\ k.lock[i] \in {p, None}
  BY <1>4
<1>10. i = Head(puts[p]) /\ Stage(p, "free", "drop") /\ UNCHANGED puts
  BY <1>1
<1> HIDE DEF e, i, lock
<1> QED  BY ONLY <1>5, <1>6, <1>7, <1>8, <1>9, <1>10, Core, p \in Procs, IputWrites

(* Every step keeps the invariant, one lemma for each action. *)
LEMMA NextKeeps ==
  ASSUME Core, Next
  PROVE  IInv'
<1>1. PICK p \in Procs :
        \/ IputKeep(p) \/ IputTrunc(p) \/ IputFree(p) \/ IputDrop(p)
        \/ Call(p) \/ NamexTurn(p) \/ NamexEnd(p)
        \/ CreateLookup(p) \/ CreateExists(p) \/ CreateLink(p)
        \/ Open(p) \/ Opened(p) \/ Write(p) \/ Close(p) \/ Chdir(p)
        \/ UnlinkLookup(p) \/ UnlinkErase(p) \/ UnlinkDone(p) \/ UnlockParent(p)
        \/ LinkCount(p) \/ LinkEntry(p) \/ LinkBad(p)
  BY DEF Next
<1>2. CASE IputKeep(p) \/ IputTrunc(p) \/ IputFree(p) \/ IputDrop(p)
  BY ONLY Core, p \in Procs, <1>2, IputKeepKeeps, IputTruncKeeps, IputFreeKeeps, IputDropKeeps
<1>3. CASE Call(p) \/ NamexTurn(p) \/ NamexEnd(p)
  BY ONLY Core, p \in Procs, <1>3, CallKeeps, NamexTurnKeeps, NamexEndKeeps
<1>4. CASE CreateLookup(p) \/ CreateExists(p) \/ CreateLink(p)
  BY ONLY Core, p \in Procs, <1>4, CreateLookupKeeps, CreateExistsKeeps, CreateLinkKeeps
<1>5. CASE Open(p) \/ Opened(p) \/ Write(p) \/ Close(p) \/ Chdir(p)
  BY ONLY Core, p \in Procs, <1>5, OpenKeeps, OpenedKeeps, WriteKeeps, CloseKeeps, ChdirKeeps
<1>6. CASE UnlinkLookup(p) \/ UnlinkErase(p) \/ UnlinkDone(p) \/ UnlockParent(p)
  BY ONLY Core, p \in Procs, <1>6, UnlinkLookupKeeps, UnlinkEraseKeeps, UnlinkDoneKeeps,
          UnlockParentKeeps
<1>7. CASE LinkCount(p) \/ LinkEntry(p) \/ LinkBad(p)
  BY ONLY Core, p \in Procs, <1>7, LinkCountKeeps, LinkEntryKeeps, LinkBadKeeps
<1> QED  BY ONLY <1>1, <1>2, <1>3, <1>4, <1>5, <1>6, <1>7

(* A kernel that has panicked does nothing more. *)
LEMMA PanicStops == Next => k.panic = "no"
<1> SUFFICES ASSUME NEW p \in Procs, k.panic # "no"
             PROVE  ~(\/ IputKeep(p) \/ IputTrunc(p) \/ IputFree(p) \/ IputDrop(p)
                      \/ Call(p) \/ NamexTurn(p) \/ NamexEnd(p)
                      \/ CreateLookup(p) \/ CreateExists(p) \/ CreateLink(p)
                      \/ Open(p) \/ Opened(p) \/ Write(p) \/ Close(p) \/ Chdir(p)
                      \/ UnlinkLookup(p) \/ UnlinkErase(p) \/ UnlinkDone(p) \/ UnlockParent(p)
                      \/ LinkCount(p) \/ LinkEntry(p) \/ LinkBad(p))
  BY DEF Next
<1>1. (\A l : ~At(p, l)) /\ (\A from, to : ~Stage(p, from, to))
  BY DEF At, Stage
<1>2. ~(IputKeep(p) \/ IputTrunc(p) \/ IputFree(p) \/ IputDrop(p))
  BY ONLY <1>1 DEF IputKeep, IputTrunc, IputFree, IputDrop
<1>3. ~(Call(p) \/ NamexTurn(p) \/ NamexEnd(p) \/ CreateLookup(p) \/ CreateExists(p) \/ CreateLink(p))
  BY ONLY <1>1 DEF Call, NamexTurn, NamexEnd, CreateLookup, CreateExists, CreateLink
<1>4. ~(Open(p) \/ Opened(p) \/ Write(p) \/ Close(p) \/ Chdir(p) \/ UnlinkLookup(p))
  BY ONLY <1>1 DEF Open, Opened, Write, Close, Chdir, UnlinkLookup
<1>5. ~(UnlinkErase(p) \/ UnlinkDone(p) \/ UnlockParent(p) \/ LinkCount(p) \/ LinkEntry(p) \/ LinkBad(p))
  BY ONLY <1>1 DEF UnlinkErase, UnlinkDone, UnlockParent, LinkCount, LinkEntry, LinkBad
<1> QED  BY ONLY <1>2, <1>3, <1>4, <1>5

(* No step breaks IInv. *)
LEMMA StepKeeps ==
  ASSUME IInv, [Next]_vars
  PROVE  IInv'
<1>1. CASE Next
  BY ONLY IInv, <1>1, PanicStops, CoreIs, NextKeeps
<1>2. CASE UNCHANGED vars
  <2>1. TypeOK' <=> TypeOK
    BY <1>2 DEF TypeOK, vars
  <2>2. /\ RefsExact' <=> RefsExact
        /\ Sound(k)' <=> Sound(k)
        /\ LinksEnough' <=> LinksEnough
        /\ Locks' <=> Locks
    BY <1>2 DEF vars, RefsExact, Points, Sound, LinksEnough, NamesOf, SubdirsOf, CallsOn, Locks,
           Locked,
                WriteThrough, BlocksExact, InodesUsed
  <2>3. SurePointers' <=> SurePointers
    BY <1>2 DEF vars, SurePointers, Sure, Kept, Points
  <2>4. \A p \in Procs : (Place(p)' <=> Place(p)) /\ (Knows(p)' <=> Knows(p))
    BY <1>2 DEF vars, Place, Knows, HasIp, HasHeld
  <2>5. (DotsRight' <=> DotsRight) /\ (NoCycle' <=> NoCycle) /\ k'.panic = k.panic
    BY <1>2 DEF vars, DotsRight, NoCycle
  <2> QED  BY <2>1, <2>2, <2>3, <2>4, <2>5 DEF IInv
<1> QED  BY <1>1, <1>2

(* What mkfs has written so far. *)
Img(di, i, b) == [di |-> di, freeinode |-> i, freeblock |-> b]

(* The fields of an image. *)
LEMMA ImgIs ==
  ASSUME NEW di, NEW i, NEW b, NEW g, g = Img(di, i, b)
  PROVE  g.di = di /\ g.freeinode = i /\ g.freeblock = b
BY DEF Img

(* mkfs takes the next inode. *)
LEMMA MkfsIallocIs ==
  ASSUME NEW di \in [Inums -> Inode], NEW i \in Inums, NEW b, NEW type \in Types, NEW g,
         g = Img(di, i, b)
  PROVE  LET e == Ino(type, 1, NoEnts, {})
         IN  e \in Inode /\ MkfsIalloc(g, type) = Img(With(di, i, e), i + 1, b)
<1> DEFINE e == Ino(type, 1, NoEnts, {})
           z == [Fresh(type) EXCEPT !.nlink = 1]
<1>1. Fresh(type) \in Inode /\ NoEnts \in [AllNames -> 0..NINODES]
  BY FreshIs
<1>2. z = e
  <2>1. z = Ino(Fresh(type).type, 1, Fresh(type).ents, Fresh(type).blk)
    BY ONLY <1>1, InodeWith
  <2> QED  BY <2>1, FreshIs
<1>3. e \in Inode
  BY <1>1, InoHas
<1>4. g.di = di /\ g.freeinode = i
  BY ONLY g = Img(di, i, b) DEF Img
<1>5. MkfsIalloc(g, type) = [g EXCEPT !.di = [g.di EXCEPT ![g.freeinode] = z], !.freeinode = g.freeinode + 1]
  BY DEF MkfsIalloc
<1> HIDE DEF e, z
<1>6. [g.di EXCEPT ![g.freeinode] = z] = With(di, i, e) /\ g.freeinode + 1 = i + 1
  BY ONLY <1>2, <1>4 DEF With
<1> DEFINE x == [g.di EXCEPT ![g.freeinode] = z]
           y == g.freeinode + 1
<1>7. MkfsIalloc(g, type) = [g EXCEPT !.di = x, !.freeinode = y]
  BY <1>5
<1> HIDE DEF x, y
<1>8. MkfsIalloc(g, type) = Img(x, y, b)
  BY ONLY <1>7, g = Img(di, i, b) DEF Img
<1> QED  BY <1>3, <1>6, <1>8 DEF e, x, y

(* mkfs gives an empty inode the next block. *)
LEMMA MkfsIappendIs ==
  ASSUME NEW di \in [Inums -> Inode], NEW i, NEW b \in 1..NBLOCK, NEW j \in Inums, di[j].blk = {},
         NEW g, g = Img(di, i, b)
  PROVE  LET e == Ino(di[j].type, di[j].nlink, di[j].ents, {b})
         IN  e \in Inode /\ MkfsIappend(g, j) = Img(With(di, j, e), i, b + 1)
<1> DEFINE e == Ino(di[j].type, di[j].nlink, di[j].ents, {b})
           z == [di[j] EXCEPT !.blk = {b}]
<1>1. di[j] \in Inode
  OBVIOUS
<1>2. e \in Inode
  <2>1. {b} \in SUBSET (1..NBLOCK)
    OBVIOUS
  <2> QED  BY <1>1, <2>1, InoIs, InoHas
<1>3. z = e
  BY ONLY <1>1, InodeWith
<1>4. g.di = di /\ g.freeblock = b
  BY ONLY g = Img(di, i, b) DEF Img
<1>5. MkfsIappend(g, j) = [g EXCEPT !.di = [di EXCEPT ![j] = z], !.freeblock = b + 1]
  <2>1. MkfsIappend(g, j) = [g EXCEPT !.di[j].blk = {g.freeblock}, !.freeblock = g.freeblock + 1]
    BY <1>4 DEF MkfsIappend
  <2> QED  BY ONLY <2>1, <1>4
<1> HIDE DEF e, z
<1> DEFINE x == [di EXCEPT ![j] = z]
           y == b + 1
<1>6. x = With(di, j, e)
  BY ONLY <1>3 DEF With
<1>7. MkfsIappend(g, j) = [g EXCEPT !.di = x, !.freeblock = y]
  BY <1>5
<1> HIDE DEF x, y
<1>8. MkfsIappend(g, j) = Img(x, i, y)
  BY ONLY <1>7, g = Img(di, i, b) DEF Img
<1> QED  BY <1>2, <1>6, <1>8 DEF e, y

(* mkfs adds an entry to the root. *)
LEMMA MkfsEntryIs ==
  ASSUME NEW h, NEW g, NEW di \in [Inums -> Inode], NEW i, NEW b, NEW n \in AllNames,
         NEW j \in Inums,
         g = MkfsIappend(h, Root), g = Img(di, i, b)
  PROVE  LET e == Ino(di[Root].type, di[Root].nlink, With(di[Root].ents, n, j), di[Root].blk)
         IN  e \in Inode /\ MkfsEntry(h, n, j) = Img(With(di, Root, e), i, b)
<1> DEFINE f == With(di[Root].ents, n, j)
           e == Ino(di[Root].type, di[Root].nlink, f, di[Root].blk)
           z == [di[Root] EXCEPT !.ents = f]
<1>1. di[Root] \in Inode /\ j \in 0..NINODES
  BY Numbers
<1>2. f \in [AllNames -> 0..NINODES]
  <2>1. di[Root].ents \in [AllNames -> 0..NINODES]
    BY <1>1, InoIs
  <2> QED  BY ONLY <1>1, <2>1, n \in AllNames DEF With
<1> HIDE DEF f
<1>3. e \in Inode
  BY <1>1, <1>2, InoIs, InoHas
<1>4. z = e
  BY ONLY <1>1, InodeWith
<1>5. g.di = di
  BY ONLY g = Img(di, i, b) DEF Img
<1>6. MkfsEntry(h, n, j) = [g EXCEPT !.di = [di EXCEPT ![Root] = z]]
  <2>1. MkfsEntry(h, n, j) = [g EXCEPT !.di[Root].ents[n] = j]
    BY DEF MkfsEntry
  <2>2. MkfsEntry(h, n, j) = [g EXCEPT !.di = [di EXCEPT ![Root] = [di[Root] EXCEPT !.ents = [di[Root].ents EXCEPT ![n] = j]]]]
    BY ONLY <2>1, <1>5
  <2> QED  BY ONLY <2>2 DEF f, With
<1> HIDE DEF e, z
<1> DEFINE x == [di EXCEPT ![Root] = z]
<1>7. MkfsEntry(h, n, j) = [g EXCEPT !.di = x]
  BY <1>6
<1>8. x = With(di, Root, e)
  BY ONLY <1>4 DEF With
<1> HIDE DEF x
<1>9. MkfsEntry(h, n, j) = Img(x, i, b)
  BY ONLY <1>7, g = Img(di, i, b) DEF Img
<1> QED  BY <1>3, <1>8, <1>9 DEF e, f

(* mkfs has written inodes 1 and 2. *)
Shows(g, i, b, x, y) ==
  \E di \in [Inums -> Inode] : /\ g = Img(di, i, b) /\ di[1] = x /\ di[2] = y
                               /\ \A j \in Inums : j \notin {1, 2} => di[j] = Fresh("free")

(* There is room for the first three inodes and blocks. *)
LEMMA Three == {1, 2, 3} \subseteq Inums /\ {1, 2, 3} \subseteq 1..NBLOCK /\ Root = 1 /\ "free" \in Types
  /\ "dir" \in Types /\ "file" \in Types
BY FsAssumption DEF Inums, Root, Types

(* The image before anything is made. *)
LEMMA ShowsBlank == Shows(Blank, 1, 1, Fresh("free"), Fresh("free"))
<1> DEFINE di == [j \in Inums |-> Fresh("free")]
<1>1. di \in [Inums -> Inode]
  BY FreshIs, Three
<1>2. Blank = Img(di, 1, 1)
  BY DEF Blank, Img, Root
<1>3. di[1] = Fresh("free") /\ di[2] = Fresh("free") /\ \A j \in Inums : j \notin {1, 2}
        => di[j] = Fresh("free")
  BY Three
<1> HIDE DEF di
<1> QED  BY <1>1, <1>2, <1>3 DEF Shows

(* The image with one inode more. *)
LEMMA ShowsIalloc ==
  ASSUME NEW g, NEW i \in {1, 2}, NEW b, NEW x, NEW y, Shows(g, i, b, x, y),
         NEW type \in {"dir", "file"}
  PROVE  LET e == Ino(type, 1, NoEnts, {})
         IN  Shows(MkfsIalloc(g, type), i + 1, b, IF i = 1 THEN e ELSE x, IF i = 2 THEN e ELSE y)
<1> DEFINE e == Ino(type, 1, NoEnts, {})
<1>1. PICK di \in [Inums -> Inode] : /\ g = Img(di, i, b) /\ di[1] = x /\ di[2] = y
                                     /\ \A j \in Inums : j \notin {1, 2} => di[j] = Fresh("free")
  BY DEF Shows
<1>2. i \in Inums /\ type \in Types
  BY Three
<1>3. e \in Inode /\ MkfsIalloc(g, type) = Img(With(di, i, e), i + 1, b)
  BY <1>1, <1>2, MkfsIallocIs
<1> DEFINE f == With(di, i, e)
<1> HIDE DEF e
<1>4. f \in [Inums -> Inode] /\ f[i] = e /\ \A j \in Inums : j # i => f[j] = di[j]
  BY <1>2, <1>3 DEF With
<1> HIDE DEF f
<1>5. f[1] = (IF i = 1 THEN e ELSE x) /\ f[2] = (IF i = 2 THEN e ELSE y)
      /\ \A j \in Inums : j \notin {1, 2} => f[j] = Fresh("free")
  BY <1>1, <1>4, Three
<1>6. MkfsIalloc(g, type) = Img(f, i + 1, b)
  BY <1>3 DEF f
<1> QED  BY <1>4, <1>5, <1>6 DEF Shows, e

(* The image with one block more. *)
LEMMA ShowsIappend ==
  ASSUME NEW g, NEW j \in {1, 2}, NEW i, NEW b \in 1..NBLOCK, NEW x, NEW y, Shows(g, i, b, x, y),
         NEW e,
         e = IF j = 1 THEN x ELSE y, e.blk = {}
  PROVE  LET z == Ino(e.type, e.nlink, e.ents, {b})
         IN  Shows(MkfsIappend(g, j), i, b + 1, IF j = 1 THEN z ELSE x, IF j = 2 THEN z ELSE y)
<1> DEFINE z == Ino(e.type, e.nlink, e.ents, {b})
<1>1. PICK di \in [Inums -> Inode] : /\ g = Img(di, i, b) /\ di[1] = x /\ di[2] = y
                                     /\ \A n \in Inums : n \notin {1, 2} => di[n] = Fresh("free")
  BY DEF Shows
<1>2. j \in Inums /\ di[j] = e
  BY <1>1, Three
<1>3. z \in Inode /\ MkfsIappend(g, j) = Img(With(di, j, z), i, b + 1)
  BY <1>1, <1>2, MkfsIappendIs
<1> DEFINE f == With(di, j, z)
<1> HIDE DEF z
<1>4. f \in [Inums -> Inode] /\ f[j] = z /\ \A n \in Inums : n # j => f[n] = di[n]
  BY <1>2, <1>3 DEF With
<1> HIDE DEF f
<1>5. f[1] = (IF j = 1 THEN z ELSE x) /\ f[2] = (IF j = 2 THEN z ELSE y)
      /\ \A n \in Inums : n \notin {1, 2} => f[n] = Fresh("free")
  BY <1>1, <1>4, Three
<1>6. MkfsIappend(g, j) = Img(f, i, b + 1)
  BY <1>3 DEF f
<1> QED  BY <1>4, <1>5, <1>6 DEF Shows, z

(* Data that fit into the block of the root take no other. *)
LEMMA ShowsSame ==
  ASSUME NEW g, NEW i, NEW b, NEW x, NEW y, Shows(g, i, b, x, y), x.blk # {}
  PROVE  MkfsIappend(g, Root) = g
<1>1. PICK di \in [Inums -> Inode] : g = Img(di, i, b) /\ di[1] = x
  BY DEF Shows
<1>2. g.di[Root] = x
  BY <1>1, ImgIs, Three
<1> QED  BY <1>2 DEF MkfsIappend

(* The image with one entry more in the root. *)
LEMMA ShowsEntry ==
  ASSUME NEW h, NEW i, NEW b, NEW x, NEW y, Shows(MkfsIappend(h, Root), i, b, x, y),
         NEW n \in AllNames, NEW j \in Inums
  PROVE  Shows(MkfsEntry(h, n, j), i, b, Ino(x.type, x.nlink, With(x.ents, n, j), x.blk), y)
<1> DEFINE z == Ino(x.type, x.nlink, With(x.ents, n, j), x.blk)
           g == MkfsIappend(h, Root)
<1>1. PICK di \in [Inums -> Inode] : /\ g = Img(di, i, b) /\ di[1] = x /\ di[2] = y
                                     /\ \A m \in Inums : m \notin {1, 2} => di[m] = Fresh("free")
  BY DEF Shows
<1>2. di[Root] = x
  BY <1>1, Three
<1>3. z \in Inode /\ MkfsEntry(h, n, j) = Img(With(di, Root, z), i, b)
  BY <1>1, <1>2, MkfsEntryIs
<1> DEFINE f == With(di, Root, z)
<1> HIDE DEF z, g
<1>4. f \in [Inums -> Inode] /\ f[1] = z /\ \A m \in Inums : m # 1 => f[m] = di[m]
  BY <1>3, Three DEF With
<1> HIDE DEF f
<1>5. f[2] = y /\ \A m \in Inums : m \notin {1, 2} => f[m] = Fresh("free")
  BY <1>1, <1>4, Three
<1>6. MkfsEntry(h, n, j) = Img(f, i, b)
  BY <1>3 DEF f
<1> QED  BY <1>4, <1>5, <1>6 DEF Shows, z

(* The entries of the root. *)
Dotted(d, e) == With(With(NoEnts, ".", d), "..", e)
(* The entries of an empty directory. *)
LEMMA DottedIs ==
  ASSUME NEW d \in Inums, NEW e \in Inums
  PROVE  /\ Dotted(d, e) \in [AllNames -> 0..NINODES] /\ Dotted(d, e)["."] = d /\ Dotted(d, e)[".."] = e
         /\ \A n \in Names : Dotted(d, e)[n] = 0
<1>1. d \in 0..NINODES /\ e \in 0..NINODES /\ NoEnts \in [AllNames -> 0..NINODES]
        /\ \A n \in AllNames : NoEnts[n] = 0
  BY Numbers, FreshIs, Three
<1> DEFINE f == With(NoEnts, ".", d)
<1>2. f \in [AllNames -> 0..NINODES] /\ f["."] = d /\ \A n \in AllNames : n # "." => f[n] = 0
  BY <1>1, NamesAre DEF With
<1> HIDE DEF f
<1>3. LET g == With(f, "..", e)
      IN  g \in [AllNames -> 0..NINODES] /\ g[".."] = e /\ \A n \in AllNames : n # ".." => g[n] = f[n]
  BY <1>1, <1>2, NamesAre DEF With
<1> QED  BY <1>2, <1>3, NamesAre DEF Dotted, f

(* What mkfs makes: the root with "a", and the file. *)
LEMMA ImageIs ==
  Shows(Image, 3, 3, Ino("dir", 1, With(Dotted(1, 1), "a", 2), {1}), Ino("file", 1, NoEnts, {2}))
<1> DEFINE free == Fresh("free")
           g1 == MkfsIalloc(Blank, "dir")
           g2 == MkfsEntry(g1, ".", Root)
           g3 == MkfsEntry(g2, "..", Root)
           g4 == MkfsIalloc(g3, "file")
           g5 == MkfsEntry(g4, "a", 2)
           file == Ino("file", 1, NoEnts, {})
<1>0. /\ NoEnts \in [AllNames -> 0..NINODES] /\ "a" \in AllNames /\ "." \in AllNames /\ ".." \in AllNames
      /\ 1 \in Inums /\ 2 \in Inums /\ Root = 1 /\ 1 \in 1..NBLOCK /\ 2 \in 1..NBLOCK
  BY Three, FreshIs, NamesAre, FsAssumption
<1>I. \A type, nlink, ents, blk :
        LET n == Ino(type, nlink, ents, blk) IN n.type = type /\ n.nlink = nlink /\ n.ents = ents
          /\ n.blk = blk
  BY DEF Ino
<1>1. Shows(g1, 2, 1, Ino("dir", 1, NoEnts, {}), free)
  <2>1. Shows(Blank, 1, 1, free, free)
    BY ShowsBlank
  <2> HIDE DEF free
  <2>2. Shows(MkfsIalloc(Blank, "dir"), 1 + 1, 1, IF 1 = 1 THEN Ino("dir", 1, NoEnts, {}) ELSE free,
              IF 1 = 2 THEN Ino("dir", 1, NoEnts, {}) ELSE free)
    BY ONLY <2>1, ShowsIalloc
  <2> QED  BY ONLY <2>2
<1> HIDE DEF free, g1
<1>2. Shows(g2, 2, 2, Ino("dir", 1, With(NoEnts, ".", 1), {1}), free)
  <2> DEFINE e == Ino("dir", 1, NoEnts, {})
  <2>1. e.type = "dir" /\ e.nlink = 1 /\ e.ents = NoEnts /\ e.blk = {}
    BY <1>I
  <2>2. Shows(MkfsIappend(g1, 1), 2, 1 + 1, IF 1 = 1 THEN Ino(e.type, e.nlink, e.ents, {1}) ELSE e,
              IF 1 = 2 THEN Ino(e.type, e.nlink, e.ents, {1}) ELSE free)
    <3> HIDE DEF e
    <3> QED  BY ONLY <1>0, <1>1, <2>1, ShowsIappend DEF e
  <2>3. Shows(MkfsIappend(g1, Root), 2, 2, Ino("dir", 1, NoEnts, {1}), free)
    BY ONLY <1>0, <2>1, <2>2
  <2> DEFINE x == Ino("dir", 1, NoEnts, {1})
  <2>4. x.type = "dir" /\ x.nlink = 1 /\ x.ents = NoEnts /\ x.blk = {1}
    BY <1>I
  <2> HIDE DEF e, x
  <2>5. Shows(MkfsEntry(g1, ".", 1), 2, 2, Ino(x.type, x.nlink, With(x.ents, ".", 1), x.blk), free)
    BY ONLY <1>0, <2>3, ShowsEntry DEF x
  <2> QED  BY ONLY <1>0, <2>4, <2>5
<1> HIDE DEF g2
<1>3. Shows(g3, 2, 2, Ino("dir", 1, Dotted(1, 1), {1}), free)
  <2> DEFINE x == Ino("dir", 1, With(NoEnts, ".", 1), {1})
  <2>1. x.type = "dir" /\ x.nlink = 1 /\ x.ents = With(NoEnts, ".", 1) /\ x.blk = {1}
    BY <1>I
  <2> HIDE DEF x
  <2>2. Shows(g2, 2, 2, x, free)
    BY <1>2 DEF x
  <2>3. MkfsIappend(g2, Root) = g2
    BY ONLY <2>1, <2>2, ShowsSame
  <2>4. Shows(MkfsEntry(g2, "..", 1), 2, 2, Ino(x.type, x.nlink, With(x.ents, "..", 1), x.blk), free)
    BY ONLY <1>0, <2>2, <2>3, ShowsEntry
  <2> QED  BY ONLY <1>0, <2>1, <2>4 DEF Dotted
<1> HIDE DEF g3
<1>4. Shows(g4, 3, 2, Ino("dir", 1, Dotted(1, 1), {1}), file)
  <2> DEFINE x == Ino("dir", 1, Dotted(1, 1), {1})
  <2> HIDE DEF x
  <2>1. Shows(g3, 2, 2, x, free)
    BY <1>3 DEF x
  <2>2. Shows(MkfsIalloc(g3, "file"), 2 + 1, 2, IF 2 = 1 THEN file ELSE x, IF 2 = 2 THEN file ELSE free)
    BY ONLY <2>1, ShowsIalloc
  <2> QED  BY ONLY <2>2 DEF x
<1> HIDE DEF g4
<1>5. Shows(g5, 3, 2, Ino("dir", 1, With(Dotted(1, 1), "a", 2), {1}), file)
  <2> DEFINE x == Ino("dir", 1, Dotted(1, 1), {1})
  <2>1. x.type = "dir" /\ x.nlink = 1 /\ x.ents = Dotted(1, 1) /\ x.blk = {1}
    BY <1>I
  <2> HIDE DEF x, file
  <2>2. Shows(g4, 3, 2, x, file)
    BY <1>4 DEF x
  <2>3. MkfsIappend(g4, Root) = g4
    BY ONLY <2>1, <2>2, ShowsSame
  <2>4. Shows(MkfsEntry(g4, "a", 2), 3, 2, Ino(x.type, x.nlink, With(x.ents, "a", 2), x.blk), file)
    BY ONLY <1>0, <2>2, <2>3, ShowsEntry
  <2> QED  BY ONLY <1>0, <2>1, <2>4
<1> HIDE DEF g5
<1>6. Shows(MkfsIappend(g5, 2), 3, 3, Ino("dir", 1, With(Dotted(1, 1), "a", 2), {1}), Ino("file", 1, NoEnts, {2}))
  <2> DEFINE x == Ino("dir", 1, With(Dotted(1, 1), "a", 2), {1})
  <2>1. file.type = "file" /\ file.nlink = 1 /\ file.ents = NoEnts /\ file.blk = {}
    BY <1>I
  <2> HIDE DEF x, file
  <2>2. Shows(g5, 3, 2, x, file) /\ file = IF 2 = 1 THEN x ELSE file
    BY <1>5 DEF x
  <2>3. Shows(MkfsIappend(g5, 2), 3, 2 + 1, IF 2 = 1 THEN Ino(file.type, file.nlink, file.ents, {2}) ELSE x,
              IF 2 = 2 THEN Ino(file.type, file.nlink, file.ents, {2}) ELSE file)
    BY ONLY <1>0, <2>1, <2>2, ShowsIappend
  <2> QED  BY ONLY <2>1, <2>3 DEF x
<1>7. Image = MkfsIappend(g5, 2)
  <2>1. g3.freeinode = 2
    <3>1. PICK di \in [Inums -> Inode] : g3 = Img(di, 2, 2)
      BY <1>3 DEF Shows
    <3> QED  BY ONLY <3>1 DEF Img
  <2> QED  BY <2>1 DEF Image, g5, g4, g3, g2, g1
<1> QED  BY <1>6, <1>7

(* The disk that the processes start with. *)
FirstDisk(di) ==
  /\ di \in [Inums -> Inode]
  /\ di[1] = Ino("dir", 2, With(With(Dotted(1, 1), "a", 2), "d", 3), {1})
  /\ di[2] = Ino("file", 1, NoEnts, {2})
  /\ di[3] = Ino("dir", 1, Dotted(3, 1), {3})
  /\ \A j \in Inums : j \notin {1, 2, 3} => di[j] = Fresh("free")

(* What Init finds on the disk. *)
LEMMA PopulatedIs == FirstDisk(Populated.di) /\ MkfsBitmap(Populated) = 1..3
<1> DEFINE f == With(Dotted(1, 1), "a", 2)
           g == With(f, "d", 3)
           x == Ino("dir", 1, f, {1})
           root == Ino("dir", 2, g, {1})
           sub == Ino("dir", 1, Dotted(3, 1), {3})
<1>1. PICK di \in [Inums -> Inode] : /\ Image = Img(di, 3, 3) /\ di[1] = x /\ di[2] = Ino("file", 1, NoEnts, {2})
                                     /\ \A j \in Inums : j \notin {1, 2} => di[j] = Fresh("free")
  BY ImageIs DEF Shows
<1>2. /\ 1 \in Inums /\ 2 \in Inums /\ 3 \in Inums /\ 1 \in 0..NINODES /\ 2 \in 0..NINODES
        /\ 3 \in 0..NINODES
      /\ {1} \in SUBSET (1..NBLOCK) /\ {3} \in SUBSET (1..NBLOCK) /\ "dir" \in Types
      /\ "a" \in AllNames /\ "d" \in AllNames /\ Root = 1
  BY Three, Numbers, NamesAre, FsAssumption
<1>3. f \in [AllNames -> 0..NINODES]
  <2>1. Dotted(1, 1) \in [AllNames -> 0..NINODES]
    BY <1>2, DottedIs
  <2> QED  BY ONLY <1>2, <2>1 DEF With
<1>4. g \in [AllNames -> 0..NINODES]
  BY ONLY <1>2, <1>3 DEF With
<1>5. x \in Inode /\ root \in Inode /\ sub \in Inode
  <2>1. Dotted(3, 1) \in [AllNames -> 0..NINODES]
    BY <1>2, DottedIs
  <2> HIDE DEF f, g
  <2> QED  BY <1>2, <1>3, <1>4, <2>1, InoHas
<1>6. Image.di = di /\ Image.freeinode = 3 /\ Image.freeblock = 3
  BY <1>1, ImgIs
<1> DEFINE y == [x EXCEPT !.ents["d"] = 3, !.nlink = @ + 1]
           w == [type |-> "dir", nlink |-> 1, blk |-> {3}, ents |-> [NoEnts EXCEPT !["."] = 3, ![".."] = 1]]
<1>7. y = root
  <2>1. x.ents = f /\ x.nlink = 1
    BY DEF Ino
  <2>2. y = [[x EXCEPT !.ents = g] EXCEPT !.nlink = 2]
    <3> HIDE DEF x, f
    <3>1. y = [x EXCEPT !.ents = [f EXCEPT !["d"] = 3], !.nlink = 1 + 1]
      BY ONLY <2>1
    <3> QED  BY ONLY <3>1 DEF With
  <2> DEFINE z == [x EXCEPT !.ents = g]
  <2>3. z = Ino("dir", 1, g, {1})
    <3> HIDE DEF f, g, z
    <3>1. z = [x EXCEPT !.ents = g]
      BY DEF z
    <3> QED  BY ONLY <3>1 DEF Ino
  <2>4. y = [z EXCEPT !.nlink = 2]
    BY <2>2
  <2> HIDE DEF f, g, y, z
  <2> QED  BY ONLY <2>3, <2>4 DEF Ino
<1>8. w = sub
  <2>1. [NoEnts EXCEPT !["."] = 3, ![".."] = 1] = Dotted(3, 1)
    BY DEF Dotted, With
  <2> QED  BY <2>1 DEF Ino
<1> HIDE DEF f, g, x, root, sub
<1> DEFINE e == With(With(di, 1, root), 3, sub)
<1>9. /\ e \in [Inums -> Inode] /\ e[1] = root /\ e[3] = sub
      /\ \A j \in Inums : j \notin {1, 3} => e[j] = di[j]
  BY <1>2, <1>5 DEF With
<1>10. Populated = [Image EXCEPT !.di = e, !.freeblock = 4]
  <2>1. Populated = [Image EXCEPT !.di = [di EXCEPT ![1] = [x EXCEPT !.ents["d"] = 3, !.nlink = @ + 1],
                                                    ![3] = [type |-> "dir", nlink |-> 1, blk |-> {3},
                                                            ents |-> [NoEnts EXCEPT !["."] = 3, ![".."] = 1]]],
                                  !.freeblock = 3 + 1]
    BY ONLY <1>1, <1>2, <1>6 DEF Populated
  <2> DEFINE m == [di EXCEPT ![1] = y, ![3] = w]
  <2>2. Populated = [Image EXCEPT !.di = m, !.freeblock = 4]
    BY <2>1
  <2> HIDE DEF y, w
  <2>3. m = e
    BY ONLY <1>7, <1>8 DEF With
  <2> HIDE DEF m
  <2> QED  BY ONLY <2>2, <2>3
<1> HIDE DEF e
<1>11. Populated.di = e /\ Populated.freeblock = 4
  BY ONLY <1>1, <1>10 DEF Img
<1>12. MkfsBitmap(Populated) = 1..3
  BY <1>11 DEF MkfsBitmap
<1>13. FirstDisk(e)
  BY <1>1, <1>2, <1>9 DEF FirstDisk, f, g, root, sub
<1> QED  BY <1>11, <1>12, <1>13

(* That disk, inode by inode. *)
LEMMA FirstIs ==
  ASSUME NEW di, FirstDisk(di)
  PROVE  /\ di \in [Inums -> Inode]
         /\ di[1].type = "dir" /\ di[2].type = "file" /\ di[3].type = "dir"
         /\ di[1].nlink = 2 /\ di[2].nlink = 1 /\ di[3].nlink = 1
         /\ di[1].blk = {1} /\ di[2].blk = {2} /\ di[3].blk = {3}
         /\ di[1].ents["."] = 1 /\ di[1].ents[".."] = 1 /\ di[3].ents["."] = 3 /\ di[3].ents[".."] = 1
              /\ di[2].ents = NoEnts
         /\ \A j \in Inums : j \notin {1, 2, 3} => di[j] = Fresh("free")
         /\ \A n \in Names : di[1].ents[n] = (IF n = "a" THEN 2 ELSE IF n = "d" THEN 3 ELSE 0)
         /\ \A j \in Inums, n \in Names : j # 1 => di[j].ents[n] = 0
<1>1. /\ di \in [Inums -> Inode]
      /\ di[1] = Ino("dir", 2, With(With(Dotted(1, 1), "a", 2), "d", 3), {1})
      /\ di[2] = Ino("file", 1, NoEnts, {2})
      /\ di[3] = Ino("dir", 1, Dotted(3, 1), {3})
      /\ \A j \in Inums : j \notin {1, 2, 3} => di[j] = Fresh("free")
  BY DEF FirstDisk
<1>2. \A type, nlink, ents, blk :
        LET n == Ino(type, nlink, ents, blk) IN n.type = type /\ n.nlink = nlink /\ n.ents = ents
          /\ n.blk = blk
  BY DEF Ino
<1> DEFINE f == Dotted(1, 1)
           g == With(f, "a", 2)
           h == With(g, "d", 3)
<1>3. /\ f \in [AllNames -> 0..NINODES] /\ f["."] = 1 /\ f[".."] = 1 /\ \A n \in Names : f[n] = 0
        /\ Dotted(3, 1)[n] = 0
      /\ Dotted(3, 1)["."] = 3 /\ Dotted(3, 1)[".."] = 1
  BY DottedIs, Three
<1>4. 2 \in 0..NINODES /\ 3 \in 0..NINODES /\ "a" \in AllNames /\ "d" \in AllNames
  BY Three, Numbers, NamesAre, FsAssumption
<1> HIDE DEF f
<1>5. g \in [AllNames -> 0..NINODES] /\ g["a"] = 2 /\ \A n \in AllNames : n # "a" => g[n] = f[n]
  BY ONLY <1>3, <1>4 DEF With
<1> HIDE DEF g
<1>6. h["d"] = 3 /\ \A n \in AllNames : n # "d" => h[n] = g[n]
  BY ONLY <1>4, <1>5 DEF With
<1>7. di[1].ents = h /\ di[2].ents = NoEnts /\ di[3].ents = Dotted(3, 1)
  BY ONLY <1>1, <1>2 DEF f, g
<1>8. /\ di[1].type = "dir" /\ di[2].type = "file" /\ di[3].type = "dir"
      /\ di[1].nlink = 2 /\ di[2].nlink = 1 /\ di[3].nlink = 1
      /\ di[1].blk = {1} /\ di[2].blk = {2} /\ di[3].blk = {3}
  BY ONLY <1>1, <1>2
<1> HIDE DEF h
<1>9. \A n \in AllNames : NoEnts[n] = 0 /\ Fresh("free").ents[n] = 0
  BY FreshIs, Three
<1>10. \A n \in Names : di[1].ents[n] = (IF n = "a" THEN 2 ELSE IF n = "d" THEN 3 ELSE 0)
  BY ONLY <1>3, <1>5, <1>6, <1>7, NamesAre
<1>11. \A j \in Inums, n \in Names : j # 1 => di[j].ents[n] = 0
  BY ONLY <1>1, <1>3, <1>7, <1>9, NamesAre
<1>12. di[1].ents["."] = 1 /\ di[1].ents[".."] = 1 /\ di[3].ents["."] = 3 /\ di[3].ents[".."] = 1
         /\ di[2].ents = NoEnts
  <2>1. h["."] = g["."] /\ g["."] = f["."] /\ h[".."] = g[".."] /\ g[".."] = f[".."]
    BY ONLY <1>5, <1>6, NamesAre
  <2> QED  BY ONLY <1>3, <1>7, <2>1
<1> QED  BY ONLY <1>1, <1>8, <1>10, <1>11, <1>12

(* Processes that do nothing yet have only a current directory. *)
LEMMA InitIs ==
  ASSUME Init
  PROVE  /\ FirstDisk(k.di) /\ k.ic = k.di /\ k.used = 1..3 /\ k.panic = "no" /\ k \in Kernel
         /\ \A i \in Inums : /\ k.ref[i] = IF i = 1 THEN Cardinality(Procs) ELSE 0
                             /\ k.valid[i] <=> i = 1
                             /\ k.lock[i] = None
         /\ \A p \in Procs : /\ pc[p] = "idle" /\ c[p] = NoCall /\ puts[p] = <<>> /\ stage[p] = "lock"
                             /\ cwd[p] = 1 /\ fd[p] = 0
         /\ TypeOK
<1> DEFINE di == Populated.di
           used == MkfsBitmap(Populated)
           ref == [i \in Inums |-> IF i = Root THEN Cardinality(Procs) ELSE 0]
           valid == [i \in Inums |-> i = Root]
           lock == [i \in Inums |-> None]
<1>1. FirstDisk(di) /\ used = 1..3
  BY PopulatedIs
<1> HIDE DEF di, used
<1>2. Root = 1 /\ Root \in Inums /\ 1..3 \in SUBSET (1..NBLOCK)
  BY Three
<1>3. Cardinality(Procs) \in Nat
  BY InumsFinite, Size
<1>4. di \in [Inums -> Inode] /\ used \in SUBSET (1..NBLOCK) /\ ref \in [Inums -> Nat]
        /\ valid \in [Inums -> BOOLEAN]
      /\ lock \in [Inums -> Procs \cup {None}] /\ "no" \in Panics
  BY <1>1, <1>2, <1>3 DEF FirstDisk, Panics
<1>5. \A i \in Inums : /\ ref[i] = IF i = 1 THEN Cardinality(Procs) ELSE 0
                       /\ valid[i] <=> i = 1
                       /\ lock[i] = None
  BY <1>2
<1> HIDE DEF ref, valid, lock
<1>6. k = Kern(di, di, used, ref, valid, lock, "no")
  BY DEF Init, Kern, di, used, ref, valid, lock
<1>7. k \in Kernel /\ k.di = di /\ k.ic = di /\ k.used = used /\ k.ref = ref /\ k.valid = valid
      /\ k.lock = lock /\ k.panic = "no"
  BY ONLY <1>4, <1>6, KernHas
<1>8. \A p \in Procs : /\ pc[p] = "idle" /\ c[p] = NoCall /\ puts[p] = <<>> /\ stage[p] = "lock"
                       /\ cwd[p] = 1 /\ fd[p] = 0
  BY <1>2 DEF Init
<1>9. TypeOK
  <2>1. NoCall \in InCall /\ <<>> \in Seq(Inums) /\ "idle" \in Labels /\ 0 \in 0..NINODES
          /\ MaxCalls \in Nat
    BY NoCallIs, Numbers, FsAssumption DEF Labels
  <2>2. pc \in [Procs -> Labels] /\ c \in [Procs -> InCall] /\ puts \in [Procs -> Seq(Inums)]
        /\ stage \in [Procs -> {"lock", "free", "drop"}] /\ cwd \in [Procs -> Inums]
             /\ fd \in [Procs -> 0..NINODES]
        /\ left \in Nat
    BY <1>2, <2>1 DEF Init
  <2> QED  BY <1>7, <2>2 DEF TypeOK
<1> QED  BY <1>1, <1>5, <1>7, <1>8, <1>9

(* At first bitmap and cache are right. *)
LEMMA InitSound ==
  ASSUME Init
  PROVE  Sound(k)
<1>1. /\ FirstDisk(k.di) /\ k.ic = k.di /\ k.used = 1..3
      /\ \A i \in Inums : (k.valid[i] <=> i = 1) /\ k.lock[i] = None
  BY InitIs
<1> DEFINE di == k.di
<1>2. /\ di[1].type = "dir" /\ di[2].type = "file" /\ di[3].type = "dir"
      /\ di[1].blk = {1} /\ di[2].blk = {2} /\ di[3].blk = {3} /\ di[2].ents = NoEnts
      /\ \A j \in Inums : j \notin {1, 2, 3} => di[j] = Fresh("free")
  BY <1>1, FirstIs
<1>3. Fresh("free").blk = {} /\ Fresh("free").ents = NoEnts /\ Fresh("free").type = "free"
  BY FreshIs, Three
<1>4. BlocksExact(k)
  <2>1. \A i \in Inums : (i \in {1, 2, 3} => di[i].blk = {i}) /\ (i \notin {1, 2, 3} => di[i].blk = {})
    BY <1>2, <1>3
  <2> HIDE DEF di
  <2>2. k.used = UNION {di[i].blk : i \in Inums}
    <3>1. k.used = {1, 2, 3}
      BY <1>1
    <3>2. ASSUME NEW b PROVE b \in {1, 2, 3} <=> \E i \in Inums : b \in di[i].blk
      <4>1. CASE b \in {1, 2, 3}
        <5>1. b \in Inums
          BY <4>1, Three
        <5>2. di[b].blk = {b}
          BY <2>1, <4>1, <5>1
        <5>3. b \in di[b].blk
          BY ONLY <5>2
        <5> QED  BY ONLY <5>1, <5>3, <4>1
      <4>2. ASSUME NEW i \in Inums, b \in di[i].blk PROVE b \in {1, 2, 3}
        <5>1. CASE i \in {1, 2, 3}
          <6>1. di[i].blk = {i}
            BY <2>1, <4>2, <5>1
          <6> QED  BY ONLY <6>1, <4>2, <5>1
        <5>2. CASE i \notin {1, 2, 3}
          <6>1. di[i].blk = {}
            BY <2>1, <4>2, <5>2
          <6> QED  BY ONLY <6>1, <4>2
        <5> QED  BY <5>1, <5>2
      <4> QED  BY <4>1, <4>2
    <3> QED  BY <3>1, <3>2
  <2>3. ASSUME NEW i \in Inums, NEW j \in Inums, i # j PROVE di[i].blk \cap di[j].blk = {}
    <3>1. di[i].blk \in {{i}, {}} /\ di[j].blk \in {{j}, {}}
      BY <2>1
    <3> QED  BY ONLY <2>3, <3>1
  <2> QED  BY <2>2, <2>3 DEF BlocksExact, di
<1>5. InodesUsed(k)
  BY <1>1, <1>2, <1>3 DEF InodesUsed
<1>6. WriteThrough(k)
  BY <1>1 DEF WriteThrough
<1> QED  BY <1>2, <1>4, <1>5, <1>6 DEF Sound, Root

(* At first every inode has its links. *)
LEMMA InitLinks ==
  ASSUME Init
  PROVE  LinksEnough
<1> DEFINE di == k.di
<1>1. FirstDisk(di) /\ \A p \in Procs : pc[p] = "idle" /\ c[p] = NoCall
  BY InitIs
<1>2. /\ di[1].type = "dir" /\ di[2].type = "file" /\ di[3].type = "dir"
      /\ di[1].nlink = 2 /\ di[2].nlink = 1 /\ di[3].nlink = 1
      /\ \A j \in Inums : j \notin {1, 2, 3} => di[j] = Fresh("free")
      /\ \A n \in Names : di[1].ents[n] = (IF n = "a" THEN 2 ELSE IF n = "d" THEN 3 ELSE 0)
      /\ \A j \in Inums, n \in Names : j # 1 => di[j].ents[n] = 0
  BY <1>1, FirstIs
<1>3. Fresh("free").nlink = 0 /\ {"a", "d"} \subseteq Names /\ 0 \notin Inums /\ Root = 1
  BY FreshIs, Three, FsAssumption, Numbers
<1> SUFFICES ASSUME NEW i \in Inums
             PROVE  di[i].nlink >= Cardinality(NamesOf(i)) + Cardinality(SubdirsOf(i)) + Cardinality(CallsOn(i))
                                     + (IF i = Root THEN 1 ELSE 0)
  BY DEF LinksEnough
<1>4. CallsOn(i) = {}
  BY <1>1, NoCallIs DEF CallsOn
<1>5. NamesOf(i) = IF i = 2 THEN {<<1, "a">>} ELSE IF i = 3 THEN {<<1, "d">>} ELSE {}
  <2>1. ASSUME NEW y \in Inums \X Names
        PROVE  di[y[1]].ents[y[2]] = i <=> (i = 2 /\ y = <<1, "a">>) \/ (i = 3 /\ y = <<1, "d">>)
    <3>1. y = <<y[1], y[2]>> /\ y[1] \in Inums /\ y[2] \in Names
      OBVIOUS
    <3> DEFINE a == y[1]
               b == y[2]
    <3>2. y = <<a, b>> /\ a \in Inums /\ b \in Names
      BY <3>1
    <3> HIDE DEF a, b, di
    <3>3. di[a].ents[b] = i <=> a = 1 /\ ((i = 2 /\ b = "a") \/ (i = 3 /\ b = "d"))
      BY <1>2, <1>3, <3>2
    <3> QED  BY <3>2, <3>3 DEF a, b
  <2>2. NamesOf(i) = {y \in Inums \X Names : (i = 2 /\ y = <<1, "a">>) \/ (i = 3 /\ y = <<1, "d">>)}
    BY <2>1 DEF NamesOf
  <2>3. <<1, "a">> \in Inums \X Names /\ <<1, "d">> \in Inums \X Names
    BY <1>3, Three
  <2> QED  BY ONLY <2>2, <2>3
<1>6. SubdirsOf(i) = IF i = 1 THEN {"d"} ELSE {}
  <2> HIDE DEF di
  <2>1. ASSUME NEW n \in Names
        PROVE  (\E j \in Inums : di[i].ents[n] = j /\ di[j].type = "dir") <=> i = 1 /\ n = "d"
    BY <1>2, <1>3, Three
  <2>2. SubdirsOf(i) = {n \in Names : i = 1 /\ n = "d"}
    BY <2>1 DEF SubdirsOf, di
  <2> QED  BY <1>3, <2>2
<1>7. Cardinality({}) = 0 /\ \A x : Cardinality({x}) = 1
  BY FS_EmptySet, FS_Singleton
<1>8. /\ Cardinality(NamesOf(i)) = (IF i = 2 THEN 1 ELSE IF i = 3 THEN 1 ELSE 0)
      /\ Cardinality(SubdirsOf(i)) = (IF i = 1 THEN 1 ELSE 0) /\ Cardinality(CallsOn(i)) = 0
  BY ONLY <1>4, <1>5, <1>6, <1>7
<1>9. di[i].nlink = IF i = 1 THEN 2 ELSE IF i \in {2, 3} THEN 1 ELSE 0
  BY <1>2, <1>3
<1> QED  BY ONLY <1>3, <1>8, <1>9

(* At first only the current directories of the processes point to an      *)
(* inode.                                                                  *)
LEMMA InitRefs ==
  ASSUME Init
  PROVE  RefsExact
<1>1. /\ \A i \in Inums : k.ref[i] = IF i = 1 THEN Cardinality(Procs) ELSE 0
      /\ \A p \in Procs : c[p] = NoCall /\ puts[p] = <<>> /\ cwd[p] = 1 /\ fd[p] = 0
  BY InitIs
<1>2. ASSUME NEW p \in Procs, NEW x \in Kinds
      PROVE  Points(p, x) = IF x = "cwd" THEN 1 ELSE 0
  BY <1>1, PointsAre, PutIs, NoCallIs DEF Kinds
<1> SUFFICES ASSUME NEW i \in Inums
             PROVE  k.ref[i] = Cardinality({x \in Procs \X Kinds : Points(x[1], x[2]) = i})
  BY DEF RefsExact
<1> DEFINE S == {x \in Procs \X Kinds : Points(x[1], x[2]) = i}
<1>3. S = {x \in Procs \X Kinds : (IF x[2] = "cwd" THEN 1 ELSE 0) = i}
  BY <1>2
<1>4. CASE i = 1
  <2>1. S = Procs \X {"cwd"}
    BY <1>3, <1>4 DEF Kinds
  <2>2. IsFiniteSet(Procs) /\ IsFiniteSet({"cwd"}) /\ Cardinality({"cwd"}) = 1
    BY FsAssumption, FS_Singleton
  <2>3. Cardinality(Procs \X {"cwd"}) = Cardinality(Procs) * 1 /\ Cardinality(Procs) \in Nat
    BY <2>2, FS_Product, Size
  <2>4. Cardinality(S) = Cardinality(Procs)
    <3> HIDE DEF S
    <3> QED  BY <2>1, <2>3
  <2>5. k.ref[i] = Cardinality(Procs)
    BY <1>1, <1>4
  <2> QED  BY ONLY <2>4, <2>5
<1>5. CASE i # 1
  <2>1. S = {}
    BY <1>3, <1>5, Numbers
  <2> QED  BY <1>1, <1>5, <2>1, FS_EmptySet
<1> QED  BY <1>4, <1>5

(* The first state satisfies IInv. *)
LEMMA InitKeeps == Init => IInv
<1> SUFFICES ASSUME Init PROVE IInv
  OBVIOUS
<1> DEFINE di == k.di
<1>1. /\ FirstDisk(di) /\ k.panic = "no" /\ TypeOK
      /\ \A i \in Inums : k.lock[i] = None
      /\ \A p \in Procs : /\ pc[p] = "idle" /\ c[p] = NoCall /\ puts[p] = <<>> /\ stage[p] = "lock"
                          /\ cwd[p] = 1 /\ fd[p] = 0
  BY InitIs
<1>2. /\ di[1].type = "dir" /\ di[2].type = "file" /\ di[3].type = "dir"
      /\ di[1].ents["."] = 1 /\ di[1].ents[".."] = 1 /\ di[3].ents["."] = 3 /\ di[3].ents[".."] = 1
      /\ \A j \in Inums : j \notin {1, 2, 3} => di[j] = Fresh("free")
      /\ \A n \in Names : di[1].ents[n] = (IF n = "a" THEN 2 ELSE IF n = "d" THEN 3 ELSE 0)
      /\ \A j \in Inums, n \in Names : j # 1 => di[j].ents[n] = 0
  BY <1>1, FirstIs
<1>3. NoCall.op = "none" /\ NoCall.ip = 0 /\ NoCall.held = 0 /\ Fresh("free").type = "free"
        /\ 0 \notin Inums
      /\ None \notin Procs
  BY NoCallIs, FreshIs, Three, Numbers
<1>4. Locks
  BY <1>1, <1>3 DEF Locks, Locked
<1>5. SurePointers
  <2>1. ASSUME NEW p \in Procs, NEW x \in Kinds, Points(p, x) # 0
        PROVE  Points(p, x) = 1
    BY <1>1, <2>1, PointsAre, PutIs, NoCallIs DEF Kinds
  <2>2. \A p \in Procs, x \in Kinds : Kept(p, x, 1)
    BY <1>1, <1>2 DEF Kept
  <2> QED  BY <2>1, <2>2 DEF SurePointers
<1>6. ASSUME NEW p \in Procs PROVE Place(p) /\ Knows(p)
  <2>1. Place(p)
    BY <1>1, <1>3 DEF Place, HasIp, HasHeld, InParent, Started
  <2>2. Knows(p)
    BY <1>1, <1>3 DEF Knows, InParent
  <2> QED  BY <2>1, <2>2
<1>7. DotsRight
  <2>1. \A i \in Inums : di[i].type = "dir" => i \in {1, 3}
    BY <1>2, <1>3
  <2>2. \A i \in Inums : di[i].type = "dir" => di[i].ents["."] = i
    BY <1>2, <2>1
  <2>3. \A d, i \in Inums, n \in Names : di[d].ents[n] = i /\ di[i].type = "dir" => di[i].ents[".."] = d
    <3> HIDE DEF di
    <3> QED  BY <1>2, <1>3, <2>1
  <2>4. k.di[Root].ents[".."] = Root
    BY <1>2, Three
  <2> QED  BY <1>1, <2>2, <2>3, <2>4 DEF DotsRight
<1>8. NoCycle
  <2> SUFFICES ASSUME NEW S \in SUBSET Inums, S # {}
               PROVE  \E d \in S : \A n \in Names : di[d].ents[n] \notin S
    BY DEF NoCycle
  <2> HIDE DEF di
  <2>1. CASE \E d \in S : d # 1
    BY <1>2, <1>3, <2>1
  <2>2. CASE S = {1}
    BY <1>2, <2>2
  <2> QED  BY <2>1, <2>2
<1> QED  BY <1>1, <1>4, <1>5, <1>6, <1>7, <1>8, InitSound, InitLinks, InitRefs DEF IInv

(* The counts, the bitmap, the locks and the pointers are right in every state, whatever *)
(* calls the processes make.                                                             *)
THEOREM Invariance == Spec => []IInv
<1>1. Init => IInv
  BY InitKeeps
<1>2. IInv /\ [Next]_vars => IInv'
  BY StepKeeps
<1> QED  BY <1>1, <1>2, PTL DEF Spec

(* Who has a lock that is waited for, and waits, without putting upwards: it is at the *)
(* entry it makes, erases or refuses, and has the directory of the entry locked.        *)
LEMMA Holder ==
  ASSUME Core, NEW P \in SUBSET Procs, Deadlocked(P), \A p \in P : ~PutsUp(p),
         NEW q \in P, NEW i \in Inums, k.lock[i] = q
  PROVE  pc[q] \in {"ialloc", "erase", "unlockdp"} /\ c[q].ip = i
<1>1. q \in Procs /\ WaitsFor(q) # 0 /\ k.panic = "no"
  BY DEF Deadlocked, Blocked, Core
<1>2. i \in Locked(q)
  BY <1>1 DEF Core, Locks
<1>3. stage[q] # "free"
  <2>1. Place(q)
    BY <1>1, CoreTypes
  <2> QED  BY <1>1, <2>1 DEF WaitsFor, Place
<1>4. pc[q] \notin {"opened", "erased"}
  BY <1>1 DEF WaitsFor, PutsUp
<1> QED  BY <1>2, <1>3, <1>4 DEF Locked

(* What is waited for is an inode; so is what has its lock, and is not the one made. *)
LEMMA Waiting ==
  ASSUME Core, ~Climbs, NEW P \in SUBSET Procs, Deadlocked(P), \A p \in P : ~PutsUp(p),
         NEW p \in P
  PROVE  /\ WaitsFor(p) \in Inums
         /\ \E q \in P : pc[q] \in {"erase", "unlockdp"} /\ c[q].ip = WaitsFor(p)
<1>0. ASSUME NEW z \in P PROVE z \in Procs /\ WaitsFor(z) \in Inums /\ k.lock[WaitsFor(z)] \in P
  <2>1. z \in Procs /\ WaitsFor(z) # 0 /\ k.lock[WaitsFor(z)] \in P /\ k.panic = "no"
    BY <1>0 DEF Deadlocked, Blocked, Core
  <2>2. c[z] \in InCall /\ puts[z] \in Seq(Inums)
    BY <2>1, CoreTypes
  <2>3. WaitsFor(z) \in {c[z].ip, c[z].held} \/ (puts[z] # <<>> /\ WaitsFor(z) = Head(puts[z]))
    BY <2>1 DEF WaitsFor
  <2>4. puts[z] # <<>> => Head(puts[z]) \in Inums
    BY <2>2
  <2>5. WaitsFor(z) \in Inums
    BY <2>1, <2>2, <2>3, <2>4, CalIs, Numbers
  <2> QED  BY <2>1, <2>5
<1> DEFINE i == WaitsFor(p)
           q == k.lock[i]
<1>1. i \in Inums /\ q \in P /\ q \in Procs
  BY <1>0
<1>2. pc[q] \in {"ialloc", "erase", "unlockdp"} /\ c[q].ip = i
  BY <1>1, Holder
<1>3. pc[q] # "ialloc"
  <2> SUFFICES ASSUME pc[q] = "ialloc" PROVE FALSE
    OBVIOUS
  <2> DEFINE j == c[q].held
             r == k.lock[j]
  <2>1. puts[q] = <<>> /\ k.panic = "no"
    BY <1>1, CoreTypes DEF Place, Core
  <2>2. WaitsFor(q) = j
    BY <2>1 DEF WaitsFor
  <2>3. j \in Inums /\ r \in P /\ r \in Procs
    BY <1>0, <1>1, <2>2
  <2>4. pc[r] \in {"ialloc", "erase", "unlockdp"} /\ c[r].ip = j
    BY <2>3, Holder
  <2>5. Sure(r, "ip") /\ Points(r, "ip") = j /\ "ip" \in Kinds /\ j # 0
    BY <2>3, <2>4, PointsAre, Numbers DEF Sure, InParent, Kinds
  <2>6. Kept(r, "ip", j)
    BY <2>3, <2>5 DEF Core, SurePointers
  <2> QED  BY <1>1, <2>6 DEF Kept
<1> QED  BY <1>1, <1>2, <1>3

(* Processes at entries that they erase or refuse wait downwards, and nothing is below itself. *)
LEMMA WaitsDown ==
  ASSUME Core, ~Climbs
  PROVE  OnlyIputDeadlocks
<1> SUFFICES ASSUME NEW P \in (SUBSET Procs) \ {{}}, Deadlocked(P), \A p \in P : ~PutsUp(p)
             PROVE  FALSE
  BY DEF OnlyIputDeadlocks
<1> DEFINE S == {i \in Inums : \E q \in P : pc[q] \in {"erase", "unlockdp"} /\ c[q].ip = i}
<1>1. PICK p \in P : TRUE
  OBVIOUS
<1>2. S # {}
  BY <1>1, Waiting
<1>3. PICK d \in S : \A n \in Names : k.di[d].ents[n] \notin S
  BY <1>2 DEF Core, NoCycle
<1>4. PICK q \in P : pc[q] \in {"erase", "unlockdp"} /\ c[q].ip = d
  BY <1>3
<1>5. /\ q \in Procs /\ WaitsFor(q) # 0 /\ Knows(q) /\ c[q] \in InCall /\ k.panic = "no"
      /\ pc[q] = "erase" => puts[q] = <<>>
  <2>1. q \in Procs
    BY <1>4
  <2> QED  BY <1>4, <2>1, CoreTypes DEF Deadlocked, Blocked, Core, Place
<1>6. Head(c[q].rest) \in Names /\ k.di[d].ents[Head(c[q].rest)] = WaitsFor(q)
  <2>1. CASE pc[q] = "erase"
    <3>1. Head(c[q].rest) \in Names /\ k.di[d].ents[Head(c[q].rest)] = c[q].held
      BY <1>4, <1>5, <2>1 DEF Knows
    <3>2. WaitsFor(q) = c[q].held
      BY <1>5, <2>1 DEF WaitsFor
    <3> QED  BY <3>1, <3>2
  <2>2. CASE pc[q] = "unlockdp"
    <3>1. puts[q] # <<>> /\ WaitsFor(q) = Head(puts[q])
      BY <1>5, <2>2 DEF WaitsFor
    <3>2. c[q].rest # <<>> /\ puts[q] = <<k.di[d].ents[Head(c[q].rest)]>>
      BY <1>4, <1>5, <2>2, <3>1 DEF Knows
    <3>3. Head(c[q].rest) \in Elems /\ Head(c[q].rest) \in AllNames
      BY <1>5, <3>2, HeadIn
    <3>4. Head(c[q].rest) \notin {".", ".."}
      BY <2>2, <3>1, <3>3 DEF PutsUp, Climbs
    <3> QED  BY <3>1, <3>2, <3>3, <3>4 DEF AllNames
  <2> QED  BY <1>4, <2>1, <2>2
<1>7. WaitsFor(q) \in S
  BY <1>4, Waiting
<1> QED  BY <1>3, <1>6, <1>7

(* If no path climbs: whenever processes wait for each other's inode locks, one of them *)
(* puts a directory with an inode below it locked, or one that it has locked itself;    *)
(* everywhere else locks are taken down the tree.                                       *)
THEOREM OnlyIput ==
  ASSUME ~Climbs
  PROVE  Spec => []OnlyIputDeadlocks
<1>1. IInv => OnlyIputDeadlocks
  <2>1. CASE k.panic = "no"
    BY <2>1, CoreIs, WaitsDown
  <2>2. CASE k.panic # "no"
    <3>1. \A p : WaitsFor(p) = 0
      BY <2>2 DEF WaitsFor
    <3>2. \A P \in (SUBSET Procs) \ {{}} : ~Deadlocked(P)
      BY <3>1 DEF Deadlocked, Blocked
    <3> QED  BY <3>2 DEF OnlyIputDeadlocks
  <2> QED  BY <2>1, <2>2
<1> QED  BY <1>1, Invariance, PTL

(* A kernel state without one of the panics that NoPanic excludes. *)
Calm(s) == s \in Kernel /\ s.panic \in {"no", "balloc: out of blocks", "iget: no inodes", "ialloc: no inodes"}

(* What looks an inode up, or unlocks one, causes none of them. *)
LEMMA LookCalm ==
  ASSUME NEW s, Calm(s), NEW i \in Inums
  PROVE  Calm(idup(s, i)) /\ Calm(iunlock(s, i)) /\ Calm(iget(s, i))
<1>1. s \in Kernel
  BY DEF Calm
<1>2. idup(s, i) \in Kernel /\ idup(s, i).panic = s.panic
  BY <1>1, IdupIs, KernFields DEF Stays
<1>3. iunlock(s, i) \in Kernel /\ iunlock(s, i).panic = s.panic
  BY <1>1, IunlockIs, KernFields DEF Stays
<1>4. iget(s, i) \in Kernel /\ iget(s, i).panic \in {s.panic, "iget: no inodes"}
  <2>1. iget(s, i) \in Kernel
    BY <1>1, IgetIs DEF Stays
  <2>2. ASSUME iget(s, i) = Kern(s.di, s.ic, s.used, With(s.ref, i, 1), With(s.valid, i, FALSE), s.lock, s.panic)
        PROVE  iget(s, i).panic = s.panic
    <3> DEFINE ref == With(s.ref, i, 1)
               valid == With(s.valid, i, FALSE)
               t == iget(s, i)
    <3>1. t = Kern(s.di, s.ic, s.used, ref, valid, s.lock, s.panic) /\ t \in Kernel
      BY <2>1, <2>2
    <3> HIDE DEF ref, valid, t
    <3>2. t.panic = s.panic
      BY <3>1, KernFields
    <3> QED  BY <3>2 DEF t
  <2> QED  BY <1>1, <1>2, <2>1, <2>2, IgetIs
<1> QED  BY <1>2, <1>3, <1>4 DEF Calm

(* What writes one causes at most the panic of balloc. *)
LEMMA WriteCalm ==
  ASSUME NEW s, Calm(s), NEW i \in Inums
  PROVE  /\ \A n \in Int : Calm(AddLinks(s, i, n))
         /\ \A n \in AllNames, j \in 0..NINODES : Calm(WriteEntry(s, i, n, j))
         /\ Calm(iupdate(bmap(s, i), i))
<1>1. s \in Kernel /\ s.used \in SUBSET (1..NBLOCK) /\ s.panic \in Panics
  BY KernIs DEF Calm
<1>2. ASSUME NEW n \in Int PROVE Calm(AddLinks(s, i, n))
  <2>1. AddLinks(s, i, n) \in Kernel /\ AddLinks(s, i, n).panic = s.panic
    BY <1>1, AddLinksIs, WritesIs
  <2> QED  BY <2>1 DEF Calm
<1>3. ASSUME NEW n \in AllNames, NEW j \in 0..NINODES PROVE Calm(WriteEntry(s, i, n, j))
  <2> DEFINE t == WriteEntry(s, i, n, j)
  <2>1. t \in Kernel /\ (t.panic = "balloc: out of blocks"
          \/ \E B, U \in SUBSET (1..NBLOCK), e \in Inode : Writes(s, t, i, e, U, s.panic))
    BY <1>1, WriteEntryIs DEF Stays
  <2> HIDE DEF t
  <2>2. t.panic \in {s.panic, "balloc: out of blocks"}
    <3>1. ASSUME NEW U \in SUBSET (1..NBLOCK), NEW e \in Inode, Writes(s, t, i, e, U, s.panic)
          PROVE  t.panic = s.panic
      BY ONLY <3>1 DEF Writes, Kern
    <3> QED  BY <2>1, <3>1
  <2>3. Calm(t)
    BY <2>1, <2>2 DEF Calm
  <2> QED  BY <2>3 DEF t
<1>4. Calm(iupdate(bmap(s, i), i))
  <2> DEFINE t == iupdate(bmap(s, i), i)
  <2>1. t \in Kernel /\ (t.panic = "balloc: out of blocks"
          \/ \E U \in SUBSET (1..NBLOCK), e \in Inode : Writes(s, t, i, e, U, s.panic))
    <3>1. Stays(s, t)
      BY <1>1, AppendIs
    <3>2. ASSUME t.panic # "balloc: out of blocks"
          PROVE  \E U \in SUBSET (1..NBLOCK), e \in Inode : Writes(s, t, i, e, U, s.panic)
      <4>1. PICK b \in (1..NBLOCK) \ s.used :
                 LET e == Ino(s.ic[i].type, s.ic[i].nlink, s.ic[i].ents, s.ic[i].blk \cup {b})
                 IN  e \in Inode /\ Writes(s, t, i, e, s.used \cup {b}, s.panic)
        BY <1>1, <3>2, AppendIs
      <4>2. s.used \cup {b} \in SUBSET (1..NBLOCK)
        BY <1>1
      <4> QED  BY <4>1, <4>2
    <3> QED  BY <3>1, <3>2 DEF Stays
  <2> HIDE DEF t
  <2>2. t.panic \in {s.panic, "balloc: out of blocks"}
    <3>1. ASSUME NEW U \in SUBSET (1..NBLOCK), NEW e \in Inode, Writes(s, t, i, e, U, s.panic)
          PROVE  t.panic = s.panic
      BY ONLY <3>1 DEF Writes, Kern
    <3> QED  BY <2>1, <3>1
  <2>3. Calm(t)
    BY <2>1, <2>2 DEF Calm
  <2> QED  BY <2>3 DEF t
<1> QED  BY <1>2, <1>3, <1>4

(* ilock finds an inode in use if p is sure of it. *)
LEMMA LockCalm ==
  ASSUME Core, NEW p \in Procs, NEW i \in Inums, k.ref[i] > 0, k.lock[i] = None, SafeFor(p, i)
  PROVE  Calm(ilock(k, p, i)) /\ ilock(k, p, i).ic[i] = k.di[i] /\ Good(ilock(k, p, i))
<1>1. /\ ilock(k, p, i) \in Kernel /\ ilock(k, p, i).ic[i] = k.di[i]
      /\ Becomes(ilock(k, p, i), k.di, k.ref, With(k.lock, i, p))
  BY Locking DEF SafeFor
<1> QED  BY <1>1 DEF Becomes, Good, Calm

(* IInv leaves none of the three panics, and Calm is NoPanic. *)
LEMMA CalmIs ==
  /\ Core => Calm(k)
  /\ Calm(k') => NoPanic'
<1>1. Core => Calm(k)
  BY DEF Core, TypeOK, Calm
<1> QED  BY <1>1 DEF NoPanic, Calm

(* The start of a walk does not panic. *)
LEMMA StartCalm ==
  ASSUME Core, NEW p \in Procs, NEW s, Calm(s), NEW path \in [abs : BOOLEAN, names : Seq(Elems)]
  PROVE  Calm(Start(s, p, path))
<1>1. cwd[p] \in Inums /\ Root \in Inums
  BY CoreTypes, Numbers
<1> QED  BY <1>1, LookCalm DEF Start

(* What p refers to, if no path climbs: it may be locked. *)
LEMMA Lockable ==
  ASSUME Core, ~Climbs, NEW p \in Procs
  PROVE  /\ c[p] \in InCall /\ Place(p) /\ Knows(p) /\ Calm(k)
         /\ \A i : i # 0 /\ (i = c[p].ip \/ i = c[p].held \/ i = fd[p]) =>
              /\ i \in Inums /\ k.ref[i] > 0 /\ SafeFor(p, i)
              /\ k.lock[i] = None => Calm(ilock(k, p, i)) /\ ilock(k, p, i).ic[i] = k.di[i]
<1>1. c[p] \in InCall /\ Place(p) /\ Knows(p) /\ Calm(k)
  BY CoreTypes, CalmIs
<1>2. ASSUME NEW i, i # 0, i = c[p].ip \/ i = c[p].held \/ i = fd[p]
      PROVE  /\ i \in Inums /\ k.ref[i] > 0 /\ SafeFor(p, i)
             /\ k.lock[i] = None => Calm(ilock(k, p, i)) /\ ilock(k, p, i).ic[i] = k.di[i]
  <2>1. i \in Inums /\ k.ref[i] > 0 /\ SafeFor(p, i)
    BY <1>2, OldRef, OldSafe
  <2> QED  BY <2>1, LockCalm
<1> QED  BY <1>1, <1>2

(* The start of a call: none of the three panics. *)
LEMMA CallCalm ==
  ASSUME Core, ~Climbs, NEW p \in Procs, Call(p) PROVE Calm(k')
<1>1. PICK call \in Calls : k' = Start(k, p, call.path)
  BY DEF Call, Goto
<1>2. Start(k, p, call.path) \in {iget(k, Root), idup(k, cwd[p])}
  BY DEF Start
<1>3. cwd[p] \in Inums /\ Root \in Inums
  BY CoreTypes, Numbers
<1> QED  BY <1>1, <1>2, <1>3, CalmIs, LookCalm

(* A turn of a walk and its end: none of the three panics. *)
LEMMA NamexCalm ==
  ASSUME Core, ~Climbs, NEW p \in Procs, NamexTurn(p) \/ NamexEnd(p) PROVE Calm(k')
<1>1. CASE NamexEnd(p)
  BY <1>1, CalmIs DEF NamexEnd, NoInode, Return, Goto
<1>2. CASE NamexTurn(p)
  <2> DEFINE ip == c[p].ip
             l == ilock(k, p, ip)
             n == Head(c[p].rest)
             next == l.ic[ip].ents[n]
  <2>1. pc[p] = "walk" /\ c[p].rest # <<>> /\ k.lock[ip] = None
    BY SMTT(30), <1>2 DEF NamexTurn, At, Free
  <2>2. k' = iunlock(l, ip) \/ (next # 0 /\ k' = iunlock(iget(l, next), ip))
    BY <1>2 DEF NamexTurn, NoInode, Return, Goto, skipelem, dirlookup
  <2>3. ip \in Inums /\ Calm(l) /\ l.ic[ip] = k.di[ip] /\ c[p] \in InCall
    BY <2>1, Lockable DEF Place, HasIp
  <2>4. next # 0 => next \in Inums
    BY <2>1, <2>3, HeadIn, EntryIn
  <2> HIDE DEF l, next
  <2> QED  BY <2>2, <2>3, <2>4, LookCalm
<1> QED  BY <1>1, <1>2

(* ialloc: none of the three panics. *)
LEMMA IallocCalm ==
  ASSUME NEW s, Good(s), NEW type \in {"file", "dir", "dev"}
  PROVE  Calm(ialloc(s, type))
<1>1. ialloc(s, type) \in Kernel
        /\ ialloc(s, type).panic \in {"ialloc: no inodes", "iget: no inodes", "no"}
  BY GoodIalloc DEF Becomes, Good
<1> QED  BY <1>1 DEF Calm

(* create's lookup: none of the three panics. *)
LEMMA CreateLookupCalm ==
  ASSUME Core, ~Climbs, NEW p \in Procs, CreateLookup(p) PROVE Calm(k')
<1> DEFINE dp == c[p].ip
           l == ilock(k, p, dp)
           n == Head(c[p].rest)
           ip == l.ic[dp].ents[n]
<1>1. pc[p] = "create" /\ k.lock[dp] = None
  BY SMTT(30) DEF CreateLookup, At, Free
<1>2. (ip # 0 /\ k' = iunlock(iget(l, ip), dp)) \/ k' = ialloc(l, c[p].kind)
  BY DEF CreateLookup, Goto, dirlookup
<1>3. dp \in Inums /\ k.ref[dp] > 0 /\ SafeFor(p, dp) /\ c[p] \in InCall /\ c[p].rest # <<>>
        /\ c[p].kind \in {"file", "dir", "dev"}
  BY <1>1, Lockable DEF Place, HasIp, InParent, Started
<1>4. Calm(l) /\ l.ic[dp] = k.di[dp] /\ Good(l)
  BY <1>1, <1>3, LockCalm
<1>5. ip # 0 => ip \in Inums
  BY <1>3, <1>4, HeadIn, EntryIn
<1> HIDE DEF l, ip
<1> QED  BY <1>2, <1>3, <1>4, <1>5, LookCalm, IallocCalm

(* create of a name that exists: none of the three panics. *)
LEMMA CreateExistsCalm ==
  ASSUME Core, ~Climbs, NEW p \in Procs, CreateExists(p) PROVE Calm(k')
<1> DEFINE l == ilock(k, p, c[p].held)
<1>1. pc[p] = "exists" /\ k.lock[c[p].held] = None /\ (k' = l \/ k' = iunlock(l, c[p].held))
  BY DEF CreateExists, At, Free, Goto, Return
<1>2. c[p].held \in Inums /\ Calm(l)
  BY <1>1, Lockable DEF Place, HasHeld
<1> HIDE DEF l
<1> QED  BY <1>1, <1>2, LookCalm

(* What create writes: none of the three panics. *)
LEMMA MadeCalm ==
  ASSUME NEW s, Calm(s), NEW h \in Inums, NEW dp \in Inums, NEW n \in AllNames, NEW b
  PROVE  Calm(Made(s, dp, h, n, b))
<1> DEFINE l == AddLinks(s, h, 1)
           d0 == AddLinks(l, dp, 1)
           d1 == WriteEntry(d0, h, ".", h)
           d2 == WriteEntry(d1, h, "..", dp)
           m == IF b THEN d2 ELSE l
<1>1. h \in 0..NINODES /\ dp \in 0..NINODES /\ "." \in AllNames /\ ".." \in AllNames
  BY Numbers, NamesAre
<1>2. Calm(l)
  BY WriteCalm
<1> HIDE DEF l
<1>3. Calm(d0)
  BY <1>2, WriteCalm
<1> HIDE DEF d0
<1>4. Calm(d1)
  BY <1>1, <1>3, WriteCalm
<1> HIDE DEF d1
<1>5. Calm(d2)
  BY <1>1, <1>4, WriteCalm
<1> HIDE DEF d2
<1>6. Calm(m)
  BY <1>2, <1>5
<1>7. Made(s, dp, h, n, b) = WriteEntry(m, dp, n, h)
  BY DEF Made, Dots, m, d2, d1, d0, l
<1> HIDE DEF m
<1> QED  BY <1>1, <1>6, <1>7, WriteCalm

(* create's entry: none of the three panics. *)
LEMMA CreateLinkCalm ==
  ASSUME Core, ~Climbs, NEW p \in Procs, CreateLink(p) PROVE Calm(k')
<1> DEFINE dp == c[p].ip
           h == c[p].held
           u == ilock(k, p, h)
           b == c[p].kind = "dir"
           n == Head(c[p].rest)
<1>1. pc[p] = "ialloc" /\ k.lock[h] = None
  BY DEF CreateLink, At, Free
<1>2. k' = iunlock(Made(u, dp, h, n, b), dp)
  BY DEF CreateLink, Goto, Made
<1>3. dp \in Inums /\ h \in Inums /\ Calm(u) /\ c[p] \in InCall /\ c[p].rest # <<>>
  BY <1>1, Lockable DEF Place, HasIp, HasHeld, InParent
<1>4. n \in AllNames
  BY <1>3, HeadIn
<1>5. Calm(Made(u, dp, h, n, b))
  BY <1>3, <1>4, MadeCalm
<1> QED  BY <1>2, <1>3, <1>5, LookCalm

(* open, close, chdir and the failing ends: none of the three panics. *)
LEMMA OpenCalm ==
  ASSUME Core, ~Climbs, NEW p \in Procs, Open(p) \/ Opened(p) \/ Close(p) \/ Chdir(p) \/ UnlockParent(p) PROVE Calm(k')
<1>1. CASE Open(p)
  <2> DEFINE l == ilock(k, p, c[p].ip)
  <2>1. pc[p] = "open" /\ k.lock[c[p].ip] = None /\ (k' = l \/ k' = iunlock(l, c[p].ip))
    BY <1>1 DEF Open, At, Free, Goto, Return
  <2>2. c[p].ip \in Inums /\ Calm(l)
    BY <2>1, Lockable DEF Place, HasIp
  <2> HIDE DEF l
  <2> QED  BY <2>1, <2>2, LookCalm
<1>2. CASE Opened(p)
  <2>1. pc[p] = "opened" /\ k' = iunlock(k, c[p].held)
    BY <1>2 DEF Opened, At, Goto, Return
  <2>2. c[p].held \in Inums /\ Calm(k)
    BY <2>1, Lockable DEF Place, HasHeld
  <2> QED  BY <2>1, <2>2, LookCalm
<1>3. CASE Close(p)
  BY <1>3, CalmIs DEF Close, Return, Goto
<1>4. CASE Chdir(p)
  <2> DEFINE l == ilock(k, p, c[p].ip)
  <2>1. pc[p] = "chdir" /\ k.lock[c[p].ip] = None /\ k' = iunlock(l, c[p].ip)
    BY <1>4 DEF Chdir, At, Free, Goto, Return
  <2>2. c[p].ip \in Inums /\ Calm(l)
    BY <2>1, Lockable DEF Place, HasIp
  <2> HIDE DEF l
  <2> QED  BY <2>1, <2>2, LookCalm
<1>5. CASE UnlockParent(p)
  <2>1. pc[p] = "unlockdp" /\ k' = iunlock(k, c[p].ip)
    BY <1>5 DEF UnlockParent, At, Goto, Return
  <2>2. c[p].ip \in Inums /\ Calm(k)
    BY <2>1, Lockable DEF Place, HasIp
  <2> QED  BY <2>1, <2>2, LookCalm
<1> QED  BY <1>1, <1>2, <1>3, <1>4, <1>5

(* write: none of the three panics. *)
LEMMA WriteStepCalm ==
  ASSUME Core, ~Climbs, NEW p \in Procs, Write(p) PROVE Calm(k')
<1> DEFINE i == fd[p]
           l == ilock(k, p, i)
<1>1. i # 0 /\ k.lock[i] = None /\ k' = iunlock(iupdate(bmap(l, i), i), i)
  BY DEF Write, Free, Return, Goto
<1>2. i \in Inums /\ Calm(l)
  BY <1>1, Lockable
<1> HIDE DEF l, i
<1>3. Calm(iupdate(bmap(l, i), i))
  BY <1>2, WriteCalm
<1> QED  BY <1>1, <1>2, <1>3, LookCalm

(* unlink's lookup: none of the three panics. *)
LEMMA UnlinkLookupCalm ==
  ASSUME Core, ~Climbs, NEW p \in Procs, UnlinkLookup(p) PROVE Calm(k')
<1> DEFINE dp == c[p].ip
           l == ilock(k, p, dp)
           n == Head(c[p].rest)
           ip == l.ic[dp].ents[n]
<1>1. pc[p] = "unlink" /\ k.lock[dp] = None
  BY DEF UnlinkLookup, At, Free
<1>2. k' = iunlock(l, dp) \/ (ip # 0 /\ k' = iget(l, ip))
  BY DEF UnlinkLookup, Goto, Return, dirlookup
<1>3. dp \in Inums /\ Calm(l) /\ l.ic[dp] = k.di[dp] /\ c[p] \in InCall /\ c[p].rest # <<>>
  BY <1>1, Lockable DEF Place, HasIp, InParent
<1>4. ip # 0 => ip \in Inums
  BY <1>3, HeadIn, EntryIn
<1> HIDE DEF l, ip
<1> QED  BY <1>2, <1>3, <1>4, LookCalm

(* unlink's own check of nlink cannot fail: the entry it has locked counts. *)
LEMMA UnlinkEraseCalm ==
  ASSUME Core, ~Climbs, NEW p \in Procs, UnlinkErase(p) PROVE Calm(k')
<1> DEFINE dp == c[p].ip
           n == Head(c[p].rest)
           h == c[p].held
           u == ilock(k, p, h)
           b == u.ic[h].type = "dir"
<1>1. /\ pc[p] = "erase" /\ puts[p] = <<>> /\ k.lock[h] = None
      /\ u.ic[h].nlink < 1 \/ k' = iunlock(u, h) \/ k' = iunlock(Erased(u, dp, n, b), dp)
  BY DEF UnlinkErase, At, Free, Erased, Goto
<1>2. dp = c[p].ip /\ n = Head(c[p].rest) /\ h = c[p].held
  OBVIOUS
<1>3. h \in Inums /\ dp \in Inums /\ k.ref[h] > 0 /\ k.di[h].nlink >= 1 /\ SafeFor(p, h)
        /\ n \in AllNames
  <2> HIDE DEF dp, n, h
  <2> QED  BY <1>1, <1>2, ErasesWhat
<1>4. u.ic[h] = k.di[h] /\ Calm(u)
  BY <1>1, <1>3, LockCalm
<1>5. ~(u.ic[h].nlink < 1)
  BY <1>3, <1>4, Counts
<1>6. Calm(Erased(u, dp, n, b))
  <2> HIDE DEF u, b, n, dp
  <2> DEFINE t == WriteEntry(u, dp, n, 0)
  <2>1. Calm(t)
    BY <1>3, <1>4, WriteCalm, Numbers
  <2> HIDE DEF t
  <2>2. Calm(AddLinks(t, dp, -1))
    BY <1>3, <2>1, WriteCalm
  <2>3. Erased(u, dp, n, b) = IF b THEN AddLinks(t, dp, -1) ELSE t
    BY DEF Erased, t
  <2> QED  BY <2>1, <2>2, <2>3
<1> HIDE DEF u, dp, n, h, b
<1> QED  BY <1>1, <1>3, <1>4, <1>5, <1>6, LookCalm

(* unlink's count: none of the three panics. *)
LEMMA UnlinkDoneCalm ==
  ASSUME Core, ~Climbs, NEW p \in Procs, UnlinkDone(p) PROVE Calm(k')
<1> DEFINE h == c[p].held
<1>1. pc[p] = "erased" /\ k' = iunlock(AddLinks(k, h, -1), h)
  BY DEF UnlinkDone, At, Return, Goto
<1>2. h \in Inums /\ Calm(k)
  BY <1>1, Lockable DEF Place, HasHeld
<1>3. Calm(AddLinks(k, h, -1))
  BY <1>2, WriteCalm
<1> QED  BY <1>1, <1>2, <1>3, LookCalm

(* link's count: none of the three panics. *)
LEMMA LinkCountCalm ==
  ASSUME Core, ~Climbs, NEW p \in Procs, LinkCount(p) PROVE Calm(k')
<1> DEFINE ip == c[p].ip
           l == ilock(k, p, ip)
           t == AddLinks(l, ip, 1)
           u == iunlock(t, ip)
<1>1. pc[p] = "link" /\ k.lock[ip] = None /\ (k' = iunlock(l, ip) \/ k' = Start(u, p, c[p].new))
  BY DEF LinkCount, At, Free, Return, Goto, Counted
<1>2. ip \in Inums /\ Calm(l) /\ c[p] \in InCall
  BY <1>1, Lockable DEF Place, HasIp
<1> HIDE DEF l
<1>3. Calm(t)
  BY <1>2, WriteCalm
<1> HIDE DEF t
<1>4. Calm(u)
  BY <1>2, <1>3, LookCalm
<1> HIDE DEF u
<1>5. Calm(Start(u, p, c[p].new))
  BY <1>2, <1>4, CalIs, StartCalm
<1> QED  BY <1>1, <1>2, <1>5, LookCalm

(* link's entry: none of the three panics. *)
LEMMA LinkEntryCalm ==
  ASSUME Core, ~Climbs, NEW p \in Procs, LinkEntry(p) PROVE Calm(k')
<1> DEFINE dp == c[p].ip
           h == c[p].held
           l == ilock(k, p, dp)
           n == Head(c[p].rest)
           old == l.ic[dp].ents[n]
           t == WriteEntry(l, dp, n, h)
<1>1. pc[p] = "link2" /\ k.lock[dp] = None
  BY SMTT(30) DEF LinkEntry, At, Free
<1>2. (old # 0 /\ k' = iget(l, old)) \/ k' = iunlock(t, dp)
  BY DEF LinkEntry, Goto, Return, dirlookup
<1>3. dp \in Inums /\ h \in 0..NINODES /\ Calm(l) /\ l.ic[dp] = k.di[dp] /\ c[p] \in InCall
        /\ c[p].rest # <<>>
  BY <1>1, Lockable, CalIs DEF Place, HasIp, InParent
<1>4. n \in AllNames /\ (old # 0 => old \in Inums)
  BY <1>3, HeadIn, EntryIn
<1> HIDE DEF l, old, n
<1>5. Calm(t)
  BY <1>3, <1>4, WriteCalm
<1> HIDE DEF t
<1> QED  BY <1>2, <1>3, <1>4, <1>5, LookCalm

(* a link that failed: none of the three panics. *)
LEMMA LinkBadCalm ==
  ASSUME Core, ~Climbs, NEW p \in Procs, LinkBad(p) PROVE Calm(k')
<1> DEFINE h == c[p].held
           l == ilock(k, p, h)
           t == AddLinks(l, h, -1)
<1>1. pc[p] = "linkbad" /\ k.lock[h] = None /\ k' = iunlock(t, h)
  BY DEF LinkBad, At, Free, Return, Goto
<1>2. h \in Inums /\ Calm(l)
  BY <1>1, Lockable DEF Place, HasHeld
<1> HIDE DEF l
<1>3. Calm(t)
  BY <1>2, WriteCalm
<1> HIDE DEF t
<1> QED  BY <1>1, <1>2, <1>3, LookCalm

(* iput: the blocks of the inode are marked, so that bfree finds them in use. *)
LEMMA IputCalm ==
  ASSUME Core, ~Climbs, NEW p \in Procs, IputKeep(p) \/ IputTrunc(p) \/ IputFree(p) \/ IputDrop(p) PROVE Calm(k')
<1> DEFINE i == Head(puts[p])
<1>1. k \in Kernel /\ Good(k) /\ k.panic = "no" /\ puts[p] # <<>> /\ puts[p] \in Seq(Inums) /\ None # p
      /\ k.lock \in [Inums -> Procs \cup {None}]
  BY CoreTypes, CoreGood, Numbers DEF Core, IputKeep, IputTrunc, IputFree, IputDrop, Stage
<1>2. i \in Inums
  BY <1>1, PutHead
<1>3. CASE IputKeep(p)
  BY <1>3, CalmIs DEF IputKeep
<1>4. CASE IputTrunc(p)
  <2> DEFINE t == [k EXCEPT !.lock[i] = p]
             lock == With(k.lock, i, p)
  <2>1. k.valid[i] /\ k.ref[i] > 0 /\ k' = itrunc(t, i)
    BY <1>4 DEF IputTrunc, LastRef
  <2>2. Becomes(t, k.di, k.ref, lock)
    BY ONLY <1>1, <1>2, <2>1, p \in Procs, GoodTake
  <2>3. lock[i] # None
    BY <1>1, <1>2 DEF With
  <2> HIDE DEF t, lock
  <2>4. Good(t) /\ t.lock[i] # None
    BY <2>2, <2>3 DEF Becomes
  <2>5. Good(itrunc(t, i))
    BY <1>2, <2>4, GoodItrunc DEF Becomes
  <2> QED  BY <2>1, <2>5 DEF Good, Calm
<1>5. CASE IputFree(p)
  <2> DEFINE e == With(k.ic, i, [k.ic[i] EXCEPT !.type = "free"])
             u == [k EXCEPT !.ic[i].type = "free"]
             s == [u EXCEPT !.di[i] = u.ic[i]]
             v == [s EXCEPT !.valid[i] = FALSE]
  <2>1. k' = [v EXCEPT !.lock[i] = None]
    BY <1>5 DEF IputFree, iunlock, iupdate
  <2>2. u.panic = k.panic /\ DOMAIN u = DOMAIN k /\ "panic" \in DOMAIN k
    BY <1>1 DEF Kernel
  <2> HIDE DEF u
  <2>3. s.panic = u.panic /\ DOMAIN s = DOMAIN u
    BY <2>2
  <2> HIDE DEF s
  <2>4. v.panic = s.panic /\ DOMAIN v = DOMAIN s
    BY <2>2, <2>3
  <2> HIDE DEF v
  <2>5. k'.panic = "no"
    BY <1>1, <2>1, <2>2, <2>3, <2>4
  <2>6. k' \in Kernel
    BY <1>5, IputFreeKeeps DEF IInv, TypeOK
  <2> QED  BY <2>5, <2>6 DEF Calm
<1>6. CASE IputDrop(p)
  <2>1. k'.panic = "no"
    BY <1>1, <1>6 DEF IputDrop, Kernel
  <2>2. k' \in Kernel
    BY <1>6, IputDropKeeps DEF IInv, TypeOK
  <2> QED  BY <2>1, <2>2 DEF Calm
<1> QED  BY <1>3, <1>4, <1>5, <1>6

(* No step panics in one of the three ways. *)
LEMMA NextCalm ==
  ASSUME Core, ~Climbs, Next
  PROVE  NoPanic'
<1>1. PICK p \in Procs :
        \/ IputKeep(p) \/ IputTrunc(p) \/ IputFree(p) \/ IputDrop(p)
        \/ Call(p) \/ NamexTurn(p) \/ NamexEnd(p)
        \/ CreateLookup(p) \/ CreateExists(p) \/ CreateLink(p)
        \/ Open(p) \/ Opened(p) \/ Write(p) \/ Close(p) \/ Chdir(p)
        \/ UnlinkLookup(p) \/ UnlinkErase(p) \/ UnlinkDone(p) \/ UnlockParent(p)
        \/ LinkCount(p) \/ LinkEntry(p) \/ LinkBad(p)
  BY DEF Next
<1>2. Calm(k')
  BY ONLY Core, ~Climbs, p \in Procs, <1>1, IputCalm, CallCalm, NamexCalm, CreateLookupCalm,
          CreateExistsCalm,
          CreateLinkCalm, OpenCalm, WriteStepCalm, UnlinkLookupCalm, UnlinkEraseCalm, UnlinkDoneCalm,
          LinkCountCalm, LinkEntryCalm, LinkBadCalm
<1> QED  BY <1>2, CalmIs

(* If no path climbs, no call ever finds an inode that was freed under it, takes a count *)
(* below 1 or frees a block that is free.                                                *)
THEOREM NeverPanics ==
  ASSUME ~Climbs
  PROVE  Spec => []NoPanic
<1>1. Init => NoPanic
  BY InitIs DEF NoPanic
<1>2. IInv /\ NoPanic /\ [Next]_vars => NoPanic'
  <2>1. CASE Next
    BY <2>1, PanicStops, CoreIs, NextCalm
  <2>2. CASE UNCHANGED vars
    BY <2>2 DEF vars, NoPanic
  <2> QED  BY <2>1, <2>2
<1> QED  BY <1>1, <1>2, Invariance, PTL DEF Spec

(* What the root leads to are directories that have a link. *)
LEMMA LinkedAre ==
  ASSUME Core, NEW d \in Linked
  PROVE  /\ d \in Inums /\ k.di[d].type = "dir" /\ k.di[d].nlink >= 1
         /\ d # Root => \E x \in Inums, n \in Names : k.di[x].ents[n] = d
<1> DEFINE D == {i \in Dirs : i = Root \/ \E x \in Inums, n \in Names : k.di[x].ents[n] = i}
<1>1. Root \in D /\ D \in SUBSET Dirs
  BY Numbers DEF Core, Sound, Dirs
<1>2. Subdirs(D) \subseteq D
  BY DEF Subdirs, Dirs
<1>3. d \in D
  BY <1>1, <1>2 DEF Linked
<1>4. k.di[d].nlink >= 1
  BY <1>3, Named DEF Dirs
<1> QED  BY <1>3, <1>4 DEF Dirs

(* A directory with a link is neither being made nor freed. *)
LEMMA LinkedDot ==
  ASSUME Core, ~Climbs, NEW d \in Inums, k.di[d].type = "dir", k.di[d].nlink >= 1
  PROVE  k.di[d].ents["."] = d
<1> SUFFICES ASSUME k.di[d].ents["."] # d PROVE FALSE
  OBVIOUS
<1>1. PICK p \in Procs : (pc[p] = "ialloc" /\ c[p].held = d) \/ (stage[p] = "free" /\ Head(puts[p]) = d)
  BY DEF Core, DotsRight
<1>2. Place(p) /\ Knows(p)
  BY <1>1, CoreTypes
<1>3. CASE pc[p] = "ialloc" /\ c[p].held = d
  <2>1. k.di[d] = Fresh(c[p].kind)
    BY <1>3 DEF Core, DotsRight
  <2>2. c[p].kind \in Types
    BY <1>2, <1>3 DEF Knows, Place, Types
  <2> QED  BY <2>1, <2>2, FreshIs
<1>4. CASE stage[p] = "free" /\ Head(puts[p]) = d
  BY <1>2, <1>4 DEF Knows
<1> QED  BY <1>1, <1>3, <1>4

(* An entry names an inode that is allocated, and a directory knows where  *)
(* it is.                                                                  *)
LEMMA EntriesNamed ==
  ASSUME Core, ~Climbs, NEW d \in Inums, NEW n \in Names, k.di[d].ents[n] # 0
  PROVE  LET i == k.di[d].ents[n] IN
         /\ k.di[i].type # "free"
         /\ k.di[i].type = "dir" => k.di[i].ents[".."] = d
<1> DEFINE i == k.di[d].ents[n]
<1>1. i \in Inums
  BY EntryIn, NamesAre
<1>2. k.di[i].nlink >= 1
  BY <1>1, Named
<1>3. k.di[i].type # "free"
  BY <1>1, <1>2, FreeIs
<1>4. k.di[i].type = "dir" => k.di[i].ents[".."] = d
  BY <1>1 DEF Core, DotsRight
<1> QED  BY <1>3, <1>4

(* Every entry ".." but the root's own belongs to a subdirectory that the count includes. *)
LEMMA UpEntries ==
  ASSUME Core, ~Climbs, NEW i \in Inums
  PROVE  LET U == {y \in Linked \X {".."} : y[1] # Root /\ k.di[y[1]].ents[".."] = i}
         IN  IsFiniteSet(U) /\ Cardinality(U) <= Cardinality(SubdirsOf(i))
<1> DEFINE U == {y \in Linked \X {".."} : y[1] # Root /\ k.di[y[1]].ents[".."] = i}
           f == [y \in U |-> CHOOSE n \in Names : k.di[i].ents[n] = y[1]]
<1>1. ASSUME NEW y \in U
      PROVE  f[y] \in SubdirsOf(i) /\ k.di[i].ents[f[y]] = y[1] /\ y = <<y[1], "..">>
  <2> DEFINE d == y[1]
  <2>1. d \in Linked /\ d # Root /\ k.di[d].ents[".."] = i /\ y = <<d, "..">>
    BY <1>1
  <2>2. d \in Inums /\ k.di[d].type = "dir" /\ \E x \in Inums, n \in Names : k.di[x].ents[n] = d
    BY <2>1, LinkedAre
  <2>3. PICK x \in Inums, n \in Names : k.di[x].ents[n] = d
    BY <2>2
  <2>4. x = i
    BY SMTT(30), <2>1, <2>2, <2>3 DEF Core, DotsRight
  <2>5. f[y] = CHOOSE m \in Names : k.di[i].ents[m] = d
    BY <1>1
  <2> HIDE DEF f
  <2>6. f[y] \in Names /\ k.di[i].ents[f[y]] = d
    BY SMTT(30), <2>3, <2>4, <2>5
  <2> QED  BY <2>1, <2>2, <2>6 DEF SubdirsOf
<1>2. f \in [U -> SubdirsOf(i)]
  BY <1>1
<1>3. f \in Injection(U, SubdirsOf(i))
  <2>1. \A a, b \in U : f[a] = f[b] => a = b
    <3> HIDE DEF f
    <3> QED  BY <1>1
  <2> HIDE DEF f
  <2> QED  BY <1>2, <2>1 DEF Injection, IsInjective
<1>4. IsFiniteSet(SubdirsOf(i))
  BY Counts
<1> HIDE DEF f, U
<1>5. IsFiniteSet(U) /\ Cardinality(U) <= Cardinality(SubdirsOf(i))
  BY <1>3, <1>4, FS_Injection
<1> QED  BY <1>5 DEF U

(* Entries that a path from the root leads to are counted as links. *)
LEMMA EntriesCounted ==
  ASSUME Core, ~Climbs, NEW i \in Inums
  PROVE  k.di[i].nlink >= Cardinality(Entries(Linked, i))
<1> DEFINE U == {y \in Linked \X {".."} : y[1] # Root /\ k.di[y[1]].ents[".."] = i}
           N == {y \in Linked \X Names : k.di[y[1]].ents[y[2]] = i}
           E == Entries(Linked, i)
           r == <<Root, "..">>
           b == i = Root
<1>1. IsFiniteSet(U) /\ Cardinality(U) <= Cardinality(SubdirsOf(i))
  BY UpEntries
<1>2. IsFiniteSet(N) /\ Cardinality(N) <= Cardinality(NamesOf(i))
  <2>1. N \subseteq NamesOf(i)
    BY LinkedAre DEF NamesOf
  <2>2. N \in SUBSET NamesOf(i) /\ IsFiniteSet(NamesOf(i))
    BY <2>1, Counts
  <2> HIDE DEF N
  <2> QED  BY <2>2, FS_Subset
<1>3. IsFiniteSet(N \cup U) /\ Cardinality(N \cup U) <= Cardinality(N) + Cardinality(U)
  <2> HIDE DEF N, U
  <2>1. IsFiniteSet(N \cup U)
          /\ Cardinality(N \cup U) = Cardinality(N) + Cardinality(U) - Cardinality(N \cap U)
    BY <1>1, <1>2, FS_Union
  <2>2. IsFiniteSet(N \cap U)
    BY <1>1, Size
  <2>3. Cardinality(N \cap U) \in Nat /\ Cardinality(N) \in Nat /\ Cardinality(U) \in Nat
    BY <1>1, <1>2, <2>2, FS_CardinalityType
  <2> QED  BY <2>1, <2>3
<1>4. E \subseteq N \cup U \cup {r} /\ (~b => E \subseteq N \cup U)
  <2> SUFFICES ASSUME NEW y \in E, y \notin N, y \notin U
               PROVE  y = r /\ b
    OBVIOUS
  <2>1. y \in Linked \X (AllNames \ {"."}) /\ k.di[y[1]].ents[y[2]] = i
    BY DEF Entries
  <2>2. y[2] = ".." /\ y = <<y[1], y[2]>> /\ y[1] \in Linked
    BY <2>1 DEF AllNames
  <2>3. y[1] = Root
    BY <2>1, <2>2
  <2>4. i = Root
    BY <2>1, <2>2, <2>3 DEF Core, DotsRight
  <2> QED  BY <2>2, <2>3, <2>4
<1>5. IsFiniteSet(N \cup U \cup {r}) /\ Cardinality(N \cup U \cup {r}) <= Cardinality(N \cup U) + 1
  <2> DEFINE S == N \cup U
             T == N \cup U \cup {r}
  <2>1. IsFiniteSet(S) /\ T = S \cup {r}
    BY <1>3
  <2> HIDE DEF N, U, r, S, T
  <2>2. Cardinality(S) \in Nat
    BY <2>1, FS_CardinalityType
  <2>3. IsFiniteSet(T) /\ Cardinality(T) <= Cardinality(S) + 1
    <3>1. CASE r \in S
      <4>1. T = S
        BY <2>1, <3>1
      <4>2. IsFiniteSet(T) /\ Cardinality(T) = Cardinality(S)
        BY <2>1, <4>1, Zenon
      <4> QED  BY <2>2, <4>2
    <3>2. CASE r \notin S
      <4>1. IsFiniteSet(T) /\ Cardinality(T) = Cardinality(S) + 1
        BY <2>1, <3>2, Grown
      <4> QED  BY <2>2, <4>1
    <3> QED  BY <3>1, <3>2
  <2> QED  BY SMTT(30), <2>3 DEF S, T
<1>6. Cardinality(E) <= Cardinality(N \cup U) + One(b)
  <2> HIDE DEF N, U, r, E, b
  <2>1. CASE b
    <3>1. Cardinality(E) <= Cardinality(N \cup U \cup {r}) /\ IsFiniteSet(E)
      BY <1>4, <1>5, FS_Subset
    <3> QED  BY <1>3, <1>5, <2>1, <3>1, FS_CardinalityType DEF One
  <2>2. CASE ~b
    <3>1. Cardinality(E) <= Cardinality(N \cup U) /\ IsFiniteSet(E)
      BY <1>3, <1>4, <2>2, FS_Subset
    <3> QED  BY <1>3, <2>2, <3>1, FS_CardinalityType DEF One
  <2> QED  BY <2>1, <2>2
<1>7. IsFiniteSet(E)
  <2> HIDE DEF N, U, r, E
  <2> QED  BY <1>4, <1>5, FS_Subset
<1>8. k.di[i].nlink >= Cardinality(NamesOf(i)) + Cardinality(SubdirsOf(i)) + Cardinality(CallsOn(i)) + One(b)
  BY DEF Core, LinksEnough, One
<1> DEFINE a1 == Cardinality(N)
           a2 == Cardinality(U)
           a3 == Cardinality(N \cup U)
           a4 == Cardinality(E)
           b1 == Cardinality(NamesOf(i))
           b2 == Cardinality(SubdirsOf(i))
           b3 == Cardinality(CallsOn(i))
           o == One(b)
           m == k.di[i].nlink
<1>9. a1 \in Nat /\ a2 \in Nat /\ a3 \in Nat /\ a4 \in Nat /\ b1 \in Nat /\ b2 \in Nat /\ b3 \in Nat
        /\ o \in Nat /\ m \in Int
  <2> HIDE DEF N, U, E
  <2> QED  BY SMTT(30), <1>1, <1>2, <1>3, <1>7, Counts, FS_CardinalityType DEF One
<1>10. a1 <= b1 /\ a2 <= b2 /\ a3 <= a1 + a2 /\ a4 <= a3 + o /\ m >= b1 + b2 + b3 + o
  BY <1>1, <1>2, <1>3, <1>6, <1>8
<1>11. m >= a4
  <2> HIDE DEF a1, a2, a3, a4, b1, b2, b3, o, m
  <2> QED  BY <1>9, <1>10
<1> QED  BY <1>11

(* If no path climbs, what the root leads to is a tree with enough links in every state. *)
THEOREM TreeIsSound ==
  ASSUME ~Climbs
  PROVE  Spec => []TreeSound
<1>1. IInv => TreeSound
  <2> SUFFICES ASSUME IInv, k.panic = "no" PROVE TreeSound
    BY DEF TreeSound
  <2>1. Core
    BY CoreIs
  <2>2. \A d \in Linked : k.di[d].ents["."] = d
    BY <2>1, LinkedAre, LinkedDot
  <2>3. \A d \in Linked, n \in Names :
          LET i == k.di[d].ents[n] IN
          i # 0 => /\ k.di[i].type # "free"
                   /\ k.di[i].type = "dir" => k.di[i].ents[".."] = d
    BY <2>1, LinkedAre, EntriesNamed
  <2>4. \A i \in Inums : k.di[i].nlink >= Cardinality(Entries(Linked, i))
    BY <2>1, EntriesCounted
  <2> QED  BY <2>2, <2>3, <2>4 DEF TreeSound
<1> QED  BY <1>1, Invariance, PTL
=============================================================================
