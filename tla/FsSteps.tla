------------------------------- MODULE FsSteps ------------------------------
(***************************************************************************)
(* What the proofs about Fs rest on, and the steps that change no          *)
(* directory entry and no link count.                                      *)
(*                                                                         *)
(* First what each operator on the kernel does to its fields (the lemmas   *)
(* ...Is) and that it keeps cache, bitmap and inodes right (Good...). Then *)
(* the parts of IInv over one step of one process: RefsStep for the        *)
(* counts, LocksStep, SureStep, KnowsOthers, LinksStep, DotsStep and       *)
(* NoCycleStep. A step that does not put is a Goto, and QuietGoto,         *)
(* ChangeGoto and CountGoto say what it has to fit for IInv to hold after  *)
(* it: when the disk stays, when one inode changes, and when one link      *)
(* count does. The lemmas ...Keeps are about the actions of Fs, one for    *)
(* each.                                                                   *)
(*                                                                         *)
(* An operator that takes a kernel state apart with EXCEPT is expanded in  *)
(* its own lemma only: everywhere else a state is Kern of its fields and a *)
(* changed function is With.                                               *)
(***************************************************************************)
EXTENDS Fs, FiniteSetTheorems, WellFoundedInduction, NaturalsInduction, TLAPS

(* Inodes are numbered from 1, and 0 is none. *)
LEMMA Numbers ==
  /\ Root \in Inums /\ 0 \notin Inums
  /\ Inums \subseteq Int /\ 0..NINODES = Inums \cup {0}
  /\ \A S \in SUBSET Inums : S \in SUBSET Nat
  /\ \A S \in SUBSET (1..NBLOCK) : S \in SUBSET Nat
  /\ None \notin Procs
<1>1. NINODES \in Nat /\ NINODES >= 3 /\ None \notin Procs
  BY FsAssumption
<1> QED  BY <1>1 DEF Root, Inums

(* "." and ".." are names of entries, apart from the others. *)
LEMMA NamesAre ==
  Names \subseteq AllNames /\ "." \in AllNames /\ ".." \in AllNames /\ "." \notin Names
    /\ ".." \notin Names
BY FsAssumption DEF AllNames

(* The least of a set of numbers is one of them. *)
LEMMA MinIn ==
  ASSUME NEW S \in SUBSET Nat, S # {}
  PROVE  Min(S) \in S
<1>1. PICK m \in S : \A y \in S : ~(<<y, m>> \in OpToRel(<, Nat))
  BY WFMin, NatLessThanWellFounded
<1>2. ASSUME NEW y \in S PROVE m <= y
  <2>1. m \in Nat /\ y \in Nat /\ ~(<<y, m>> \in OpToRel(<, Nat))
    BY <1>1
  <2> QED  BY <2>1 DEF OpToRel
<1> QED  BY <1>2 DEF Min

(* A function with another value at i. *)
With(f, i, e) == [f EXCEPT ![i] = e]

(* A function changed at one place. *)
LEMMA WithIs ==
  ASSUME NEW S, NEW T, NEW f \in [S -> T], NEW i \in S, NEW e \in T
  PROVE  /\ With(f, i, e) \in [S -> T] /\ With(f, i, e)[i] = e
         /\ \A j \in S : j # i => With(f, i, e)[j] = f[j]
BY DEF With

(* A kernel state by its fields. *)
Kern(di, ic, used, ref, valid, lock, panic) ==
  [di |-> di, ic |-> ic, used |-> used, ref |-> ref, valid |-> valid, lock |-> lock, panic |-> panic]

(* A kernel state is made of its seven fields, each of its type. *)
LEMMA KernIs ==
  ASSUME NEW s \in Kernel
  PROVE  /\ s = Kern(s.di, s.ic, s.used, s.ref, s.valid, s.lock, s.panic)
         /\ s.di \in [Inums -> Inode] /\ s.ic \in [Inums -> Inode] /\ s.used \in SUBSET (1..NBLOCK)
         /\ s.ref \in [Inums -> Nat] /\ s.valid \in [Inums -> BOOLEAN]
         /\ s.lock \in [Inums -> Procs \cup {None}] /\ s.panic \in Panics
BY DEF Kernel, Kern

(* What Kern makes is a kernel state with the fields given. *)
LEMMA KernHas ==
  ASSUME NEW di \in [Inums -> Inode], NEW ic \in [Inums -> Inode], NEW used \in SUBSET (1..NBLOCK),
         NEW ref \in [Inums -> Nat], NEW valid \in [Inums -> BOOLEAN],
         NEW lock \in [Inums -> Procs \cup {None}], NEW panic \in Panics
  PROVE  LET s == Kern(di, ic, used, ref, valid, lock, panic)
         IN  /\ s \in Kernel /\ s.di = di /\ s.ic = ic /\ s.used = used /\ s.ref = ref
             /\ s.valid = valid /\ s.lock = lock /\ s.panic = panic
BY DEF Kernel, Kern

(* an inode from its fields *)
Ino(type, nlink, ents, blk) == [type |-> type, nlink |-> nlink, ents |-> ents, blk |-> blk]

(* An inode is made of its four fields, each of its type. *)
LEMMA InoIs ==
  ASSUME NEW n \in Inode
  PROVE  /\ n = Ino(n.type, n.nlink, n.ents, n.blk)
         /\ n.type \in Types /\ n.nlink \in Int /\ n.ents \in [AllNames -> 0..NINODES]
         /\ n.blk \in SUBSET (1..NBLOCK)
BY DEF Inode, Ino

(* What Ino makes is an inode with the fields given. *)
LEMMA InoHas ==
  ASSUME NEW type \in Types, NEW nlink \in Int, NEW ents \in [AllNames -> 0..NINODES],
         NEW blk \in SUBSET (1..NBLOCK)
  PROVE  LET n == Ino(type, nlink, ents, blk)
         IN  n \in Inode /\ n.type = type /\ n.nlink = nlink /\ n.ents = ents /\ n.blk = blk
BY DEF Inode, Ino

(* A fresh inode has no links, no entries and no blocks. *)
LEMMA FreshIs ==
  ASSUME NEW type \in Types
  PROVE  /\ Fresh(type) = Ino(type, 0, NoEnts, {}) /\ Fresh(type) \in Inode
         /\ Fresh(type).type = type /\ Fresh(type).nlink = 0
         /\ Fresh(type).ents = NoEnts /\ Fresh(type).blk = {}
         /\ NoEnts \in [AllNames -> 0..NINODES] /\ \A n \in AllNames : NoEnts[n] = 0
<1>1. NoEnts \in [AllNames -> 0..NINODES] /\ \A n \in AllNames : NoEnts[n] = 0
  BY Numbers DEF NoEnts
<1>2. Fresh(type) = Ino(type, 0, NoEnts, {})
  BY DEF Fresh, Ino
<1>3. 0 \in Int /\ {} \in SUBSET (1..NBLOCK)
  OBVIOUS
<1> QED  BY <1>1, <1>2, <1>3, InoHas

(* An inode with another field. *)
LEMMA InodeWith ==
  ASSUME NEW e \in Inode, NEW y
  PROVE  /\ \A n : y = [e EXCEPT !.nlink = n] => y = Ino(e.type, n, e.ents, e.blk)
         /\ \A f : y = [e EXCEPT !.ents = f] => y = Ino(e.type, e.nlink, f, e.blk)
         /\ \A b : y = [e EXCEPT !.blk = b] => y = Ino(e.type, e.nlink, e.ents, b)
         /\ \A x : y = [e EXCEPT !.type = x] => y = Ino(x, e.nlink, e.ents, e.blk)
<1>1. e = [type |-> e.type, nlink |-> e.nlink, ents |-> e.ents, blk |-> e.blk]
  BY InoIs DEF Ino
<1>2. ASSUME NEW n, y = [e EXCEPT !.nlink = n] PROVE y = Ino(e.type, n, e.ents, e.blk)
  BY <1>1, <1>2 DEF Ino
<1>3. ASSUME NEW n, y = [e EXCEPT !.ents = n] PROVE y = Ino(e.type, e.nlink, n, e.blk)
  BY <1>1, <1>3 DEF Ino
<1>4. ASSUME NEW n, y = [e EXCEPT !.blk = n] PROVE y = Ino(e.type, e.nlink, e.ents, n)
  BY <1>1, <1>4 DEF Ino
<1>5. ASSUME NEW n, y = [e EXCEPT !.type = n] PROVE y = Ino(n, e.nlink, e.ents, e.blk)
  BY <1>1, <1>5 DEF Ino
<1> QED  BY <1>2, <1>3, <1>4, <1>5

(* iupdate after a change of one cached inode. *)
LEMMA Updates ==
  ASSUME NEW s \in Kernel, NEW i \in Inums, NEW e \in Inode, NEW t,
         t = iupdate([s EXCEPT !.ic[i] = e], i)
  PROVE  t = Kern(With(s.di, i, e), With(s.ic, i, e), s.used, s.ref, s.valid, s.lock, s.panic)
<1>1. /\ s = [di |-> s.di, ic |-> s.ic, used |-> s.used, ref |-> s.ref, valid |-> s.valid,
             lock |-> s.lock, panic |-> s.panic]
      /\ s.ic \in [Inums -> Inode]
  BY KernIs DEF Kern
<1>2. ASSUME NEW r, r = [s EXCEPT !.ic[i] = e]
      PROVE  /\ r = [di |-> s.di, ic |-> [s.ic EXCEPT ![i] = e], used |-> s.used, ref |-> s.ref, valid |-> s.valid,
                     lock |-> s.lock, panic |-> s.panic]
             /\ r.ic[i] = e
  BY <1>1, <1>2
<1>3. ASSUME NEW r, r = [s EXCEPT !.ic[i] = e], t = [r EXCEPT !.di[i] = r.ic[i]]
      PROVE  t = Kern(With(s.di, i, e), With(s.ic, i, e), s.used, s.ref, s.valid, s.lock, s.panic)
  <2> DEFINE f == [s.ic EXCEPT ![i] = e]
             g == [s.di EXCEPT ![i] = e]
  <2>1. /\ r = [di |-> s.di, ic |-> f, used |-> s.used, ref |-> s.ref, valid |-> s.valid,
                lock |-> s.lock, panic |-> s.panic]
        /\ r.ic[i] = e
    BY <1>2, <1>3
  <2>2. t = [r EXCEPT !.di = [r.di EXCEPT ![i] = r.ic[i]]]
    BY <1>3
  <2>3. [r.di EXCEPT ![i] = r.ic[i]] = g
    BY <2>1
  <2> HIDE DEF f, g
  <2>4. t = [r EXCEPT !.di = g]
    BY ONLY <2>2, <2>3
  <2>5. t = [di |-> g, ic |-> f, used |-> s.used, ref |-> s.ref, valid |-> s.valid,
                lock |-> s.lock, panic |-> s.panic]
    BY ONLY <2>1, <2>4
  <2> QED  BY <2>5 DEF Kern, With, f, g
<1> QED  BY <1>3 DEF iupdate

(* Operators of fs.c on any kernel state: a panic stays. *)
Stays(s, t) == t \in Kernel /\ (s.panic # "no" => t.panic # "no")

(* idup counts one reference more. *)
LEMMA IdupIs ==
  ASSUME NEW s \in Kernel, NEW i \in Inums
  PROVE  /\ idup(s, i) = Kern(s.di, s.ic, s.used, With(s.ref, i, s.ref[i] + 1), s.valid, s.lock, s.panic)
         /\ Stays(s, idup(s, i))
<1>1. s = Kern(s.di, s.ic, s.used, s.ref, s.valid, s.lock, s.panic)
  BY KernIs
<1>2. /\ s.di \in [Inums -> Inode] /\ s.ic \in [Inums -> Inode] /\ s.used \in SUBSET (1..NBLOCK)
      /\ s.ref \in [Inums -> Nat] /\ s.valid \in [Inums -> BOOLEAN]
      /\ s.lock \in [Inums -> Procs \cup {None}] /\ s.panic \in Panics
  BY KernIs
<1> DEFINE f == With(s.ref, i, s.ref[i] + 1)
<1>3. f \in [Inums -> Nat]
  BY <1>2 DEF With
<1>4. ASSUME NEW t, t = [s EXCEPT !.ref = f]
      PROVE  t = Kern(s.di, s.ic, s.used, f, s.valid, s.lock, s.panic)
  <2> HIDE DEF f
  <2> QED  BY <1>1, <1>4 DEF Kern
<1>5. idup(s, i) = Kern(s.di, s.ic, s.used, f, s.valid, s.lock, s.panic)
  BY <1>4 DEF idup, With
<1> HIDE DEF f
<1>6. Stays(s, idup(s, i))
  BY ONLY <1>2, <1>3, <1>5 DEF Stays, Kern, Kernel
<1> QED  BY <1>5, <1>6 DEF f

(* iunlock sets one lock to None. *)
LEMMA IunlockIs ==
  ASSUME NEW s \in Kernel, NEW i \in Inums
  PROVE  /\ iunlock(s, i) = Kern(s.di, s.ic, s.used, s.ref, s.valid, With(s.lock, i, None), s.panic)
         /\ Stays(s, iunlock(s, i))
<1>1. s = Kern(s.di, s.ic, s.used, s.ref, s.valid, s.lock, s.panic)
  BY KernIs
<1>2. /\ s.di \in [Inums -> Inode] /\ s.ic \in [Inums -> Inode] /\ s.used \in SUBSET (1..NBLOCK)
      /\ s.ref \in [Inums -> Nat] /\ s.valid \in [Inums -> BOOLEAN]
      /\ s.lock \in [Inums -> Procs \cup {None}] /\ s.panic \in Panics
  BY KernIs
<1> DEFINE f == With(s.lock, i, None)
<1>3. f \in [Inums -> Procs \cup {None}]
  BY <1>2 DEF With
<1>4. ASSUME NEW t, t = [s EXCEPT !.lock = f]
      PROVE  t = Kern(s.di, s.ic, s.used, s.ref, s.valid, f, s.panic)
  <2> HIDE DEF f
  <2> QED  BY <1>1, <1>4 DEF Kern
<1>5. iunlock(s, i) = Kern(s.di, s.ic, s.used, s.ref, s.valid, f, s.panic)
  BY <1>4 DEF iunlock, With
<1> HIDE DEF f
<1>6. Stays(s, iunlock(s, i))
  BY ONLY <1>2, <1>3, <1>5 DEF Stays, Kern, Kernel
<1> QED  BY <1>5, <1>6 DEF f

(* Panic changes the field panic only. *)
LEMMA PanicIs ==
  ASSUME NEW s \in Kernel, NEW why \in Panics
  PROVE  /\ Panic(s, why) = Kern(s.di, s.ic, s.used, s.ref, s.valid, s.lock, why)
         /\ Panic(s, why) \in Kernel /\ Panic(s, why).panic = why
<1>1. s = Kern(s.di, s.ic, s.used, s.ref, s.valid, s.lock, s.panic)
  BY KernIs
<1>2. /\ s.di \in [Inums -> Inode] /\ s.ic \in [Inums -> Inode] /\ s.used \in SUBSET (1..NBLOCK)
      /\ s.ref \in [Inums -> Nat] /\ s.valid \in [Inums -> BOOLEAN]
      /\ s.lock \in [Inums -> Procs \cup {None}] /\ s.panic \in Panics
  BY KernIs
<1>4. ASSUME NEW t, t = [s EXCEPT !.panic = why]
      PROVE  t = Kern(s.di, s.ic, s.used, s.ref, s.valid, s.lock, why) /\ t \in Kernel /\ t.panic = why
  <2>1. t = Kern(s.di, s.ic, s.used, s.ref, s.valid, s.lock, why)
    BY <1>1, <1>4 DEF Kern
  <2> QED  BY ONLY <1>2, <2>1, why \in Panics DEF Kern, Kernel
<1> QED  BY <1>4 DEF Panic

(* iget takes a reference more, or the first one with the copy marked as   *)
(* not read, or panics because the cache is full.                          *)
LEMMA IgetIs ==
  ASSUME NEW s \in Kernel, NEW i \in Inums
  PROVE  /\ Stays(s, iget(s, i))
         /\ \/ s.ref[i] > 0 /\ iget(s, i) = idup(s, i)
            \/ iget(s, i).panic = "iget: no inodes"
            \/ /\ ~(s.ref[i] > 0)
               /\ iget(s, i) = Kern(s.di, s.ic, s.used, With(s.ref, i, 1),
                                    With(s.valid, i, FALSE), s.lock, s.panic)
<1>1. CASE s.ref[i] > 0
  <2>1. iget(s, i) = idup(s, i)
    BY <1>1 DEF iget
  <2> QED  BY <1>1, <2>1, IdupIs
<1>2. CASE iget(s, i) = Panic(s, "iget: no inodes")
  <2>1. Panic(s, "iget: no inodes") \in Kernel /\ Panic(s, "iget: no inodes").panic = "iget: no inodes"
    <3>1. "iget: no inodes" \in Panics
      BY DEF Panics
    <3> QED  BY <3>1, PanicIs
  <2> QED  BY <1>2, <2>1 DEF Stays
<1>3. CASE ~(s.ref[i] > 0) /\ iget(s, i) = [s EXCEPT !.ref[i] = 1, !.valid[i] = FALSE]
  <2>1. s = Kern(s.di, s.ic, s.used, s.ref, s.valid, s.lock, s.panic)
    BY KernIs
  <2>2. /\ s.di \in [Inums -> Inode] /\ s.ic \in [Inums -> Inode] /\ s.used \in SUBSET (1..NBLOCK)
        /\ s.ref \in [Inums -> Nat] /\ s.valid \in [Inums -> BOOLEAN]
        /\ s.lock \in [Inums -> Procs \cup {None}] /\ s.panic \in Panics
    BY KernIs
  <2> DEFINE f == With(s.ref, i, 1)
             g == With(s.valid, i, FALSE)
  <2>3. f \in [Inums -> Nat] /\ g \in [Inums -> BOOLEAN]
    BY <2>2 DEF With
  <2>4. ASSUME NEW t, t = [s EXCEPT !.ref = f, !.valid = g]
        PROVE  t = Kern(s.di, s.ic, s.used, f, g, s.lock, s.panic)
    <3> HIDE DEF f, g
    <3> QED  BY <2>1, <2>4 DEF Kern
  <2>5. iget(s, i) = Kern(s.di, s.ic, s.used, f, g, s.lock, s.panic)
    BY <1>3, <2>4 DEF With
  <2> HIDE DEF f, g
  <2>6. Stays(s, iget(s, i))
    BY ONLY <2>2, <2>3, <2>5 DEF Stays, Kern, Kernel
  <2> QED  BY <1>3, <2>5, <2>6 DEF f, g
<1> QED  BY <1>1, <1>2, <1>3 DEF iget

(* ilock reads the inode from the disk unless it is valid, locks it, and   *)
(* panics if it is free.                                                   *)
LEMMA IlockIs ==
  ASSUME NEW s \in Kernel, NEW i \in Inums, NEW p \in Procs
  PROVE  LET f == IF s.valid[i] THEN s.ic ELSE With(s.ic, i, s.di[i])
             g == With(s.valid, i, TRUE)
             h == With(s.lock, i, p)
         IN  /\ Stays(s, ilock(s, p, i))
             /\ ilock(s, p, i) = Kern(s.di, f, s.used, s.ref, g, h,
                                      IF f[i].type = "free" THEN "ilock: no type" ELSE s.panic)
             /\ f \in [Inums -> Inode] /\ g \in [Inums -> BOOLEAN] /\ h \in [Inums -> Procs \cup {None}]
<1> DEFINE f == IF s.valid[i] THEN s.ic ELSE With(s.ic, i, s.di[i])
           g == With(s.valid, i, TRUE)
           h == With(s.lock, i, p)
           t == IF s.valid[i] THEN s ELSE [s EXCEPT !.ic[i] = s.di[i], !.valid[i] = TRUE]
           l == [t EXCEPT !.lock[i] = p]
<1>1. /\ s = Kern(s.di, s.ic, s.used, s.ref, s.valid, s.lock, s.panic)
  BY KernIs
<1>2. /\ s.di \in [Inums -> Inode] /\ s.ic \in [Inums -> Inode] /\ s.used \in SUBSET (1..NBLOCK)
      /\ s.ref \in [Inums -> Nat] /\ s.valid \in [Inums -> BOOLEAN]
      /\ s.lock \in [Inums -> Procs \cup {None}] /\ s.panic \in Panics
  BY KernIs
<1>3. f \in [Inums -> Inode] /\ g \in [Inums -> BOOLEAN] /\ h \in [Inums -> Procs \cup {None}]
  BY <1>2 DEF With
<1>4. t = Kern(s.di, f, s.used, s.ref, g, s.lock, s.panic)
  <2>1. CASE s.valid[i]
    <3>1. f = s.ic /\ g = s.valid /\ t = s
      BY <1>2, <2>1 DEF With
    <3> QED  BY <1>1, <3>1
  <2>2. CASE ~s.valid[i]
    <3> DEFINE ff == With(s.ic, i, s.di[i])
    <3>1. f = ff /\ t = [s EXCEPT !.ic = ff, !.valid = g]
      BY <2>2 DEF With
    <3> HIDE DEF ff, f, g, t
    <3>2. t = Kern(s.di, ff, s.used, s.ref, g, s.lock, s.panic)
      BY ONLY <1>1, <3>1 DEF Kern
    <3> QED  BY <3>1, <3>2
  <2> QED  BY <2>1, <2>2
<1>5. t.lock = s.lock /\ t.ic = f
  BY ONLY <1>4 DEF Kern
<1>6. l = [t EXCEPT !.lock = h]
  BY <1>5 DEF With
<1> HIDE DEF f, g, h, t, l
<1>7. l = Kern(s.di, f, s.used, s.ref, g, h, s.panic)
  BY ONLY <1>4, <1>6 DEF Kern
<1>8. l \in Kernel /\ l.panic = s.panic /\ l.di = s.di /\ l.ic = f /\ l.used = s.used /\ l.ref = s.ref
        /\ l.valid = g /\ l.lock = h
  BY ONLY <1>2, <1>3, <1>7 DEF Kern, Kernel
<1>9. ilock(s, p, i) = IF t.ic[i].type = "free" THEN Panic(l, "ilock: no type") ELSE l
  BY DEF ilock, t, l
<1>10. CASE f[i].type = "free"
  <2>1. ilock(s, p, i) = Panic(l, "ilock: no type")
    BY <1>5, <1>9, <1>10
  <2>2. Panic(l, "ilock: no type") = Kern(s.di, f, s.used, s.ref, g, h, "ilock: no type")
          /\ Panic(l, "ilock: no type") \in Kernel
    <3>1. l \in Kernel /\ "ilock: no type" \in Panics
      BY <1>8 DEF Panics
    <3>2. Panic(l, "ilock: no type") = Kern(l.di, l.ic, l.used, l.ref, l.valid, l.lock, "ilock: no type")
      BY <3>1, PanicIs
    <3> QED  BY <1>8, <3>1, <3>2, PanicIs
  <2>3. Panic(l, "ilock: no type").panic = "ilock: no type"
    <3>1. l \in Kernel /\ "ilock: no type" \in Panics
      BY <1>8 DEF Panics
    <3> QED  BY <3>1, PanicIs
  <2>4. Stays(s, ilock(s, p, i))
    BY <2>1, <2>2, <2>3 DEF Stays
  <2> QED  BY <1>3, <1>10, <2>1, <2>2, <2>4 DEF f, g, h
<1>11. CASE f[i].type # "free"
  <2>1. ilock(s, p, i) = l
    BY <1>5, <1>9, <1>11
  <2>2. Stays(s, ilock(s, p, i))
    BY <1>8, <2>1 DEF Stays
  <2> QED  BY <1>3, <1>7, <1>11, <2>1, <2>2 DEF f, g, h
<1> QED  BY <1>10, <1>11

(* Inode i written in the cache and to the disk. *)
Writes(s, t, i, e, used, panic) ==
  t = Kern(With(s.di, i, e), With(s.ic, i, e), used, s.ref, s.valid, s.lock, panic)

(* The fields of a state in which one inode was written to cache and disk. *)
LEMMA WritesIs ==
  ASSUME NEW s \in Kernel, NEW t, NEW i \in Inums, NEW e \in Inode, NEW used \in SUBSET (1..NBLOCK),
         NEW panic \in Panics, Writes(s, t, i, e, used, panic)
  PROVE  /\ t \in Kernel /\ t.di = With(s.di, i, e) /\ t.ic = With(s.ic, i, e)
         /\ t.used = used /\ t.ref = s.ref /\ t.valid = s.valid /\ t.lock = s.lock /\ t.panic = panic
<1> DEFINE f == With(s.di, i, e)
           g == With(s.ic, i, e)
<1>1. /\ s.ref \in [Inums -> Nat] /\ s.valid \in [Inums -> BOOLEAN]
      /\ s.lock \in [Inums -> Procs \cup {None}]
  BY KernIs
<1>2. f \in [Inums -> Inode] /\ g \in [Inums -> Inode]
  BY KernIs DEF With
<1>3. t = Kern(f, g, used, s.ref, s.valid, s.lock, panic)
  BY DEF Writes
<1> HIDE DEF f, g
<1>4. /\ t \in Kernel /\ t.di = f /\ t.ic = g
      /\ t.used = used /\ t.ref = s.ref /\ t.valid = s.valid /\ t.lock = s.lock /\ t.panic = panic
  BY ONLY <1>1, <1>2, <1>3, used \in SUBSET (1..NBLOCK), panic \in Panics DEF Kern, Kernel
<1> QED  BY <1>4 DEF f, g

(* AddLinks writes a link count. *)
LEMMA AddLinksIs ==
  ASSUME NEW s \in Kernel, NEW i \in Inums, NEW n \in Int
  PROVE  LET e == Ino(s.ic[i].type, s.ic[i].nlink + n, s.ic[i].ents, s.ic[i].blk)
         IN  /\ e \in Inode
             /\ Writes(s, AddLinks(s, i, n), i, e, s.used, s.panic)
             /\ Stays(s, AddLinks(s, i, n))
<1> DEFINE v == s.ic[i].nlink + n
           e == Ino(s.ic[i].type, v, s.ic[i].ents, s.ic[i].blk)
           y == [s.ic[i] EXCEPT !.nlink = v]
<1>1. s.ic \in [Inums -> Inode] /\ s.ic[i] \in Inode /\ s.used \in SUBSET (1..NBLOCK)
        /\ s.panic \in Panics
  BY KernIs
<1>2. v \in Int
  BY <1>1, InoIs
<1>3. AddLinks(s, i, n) = iupdate([s EXCEPT !.ic[i] = y], i)
  BY DEF AddLinks
<1> HIDE DEF v
<1>4. y = e
  BY <1>1, InodeWith
<1>5. e \in Inode
  BY <1>1, <1>2, InoIs, InoHas
<1> HIDE DEF e, y
<1>6. Writes(s, AddLinks(s, i, n), i, e, s.used, s.panic)
  BY <1>3, <1>4, <1>5, Updates DEF Writes
<1>7. Stays(s, AddLinks(s, i, n))
  <2>1. AddLinks(s, i, n) \in Kernel /\ AddLinks(s, i, n).panic = s.panic
    BY ONLY <1>1, <1>5, <1>6, s \in Kernel, i \in Inums, WritesIs
  <2> QED  BY <2>1 DEF Stays
<1> QED  BY <1>5, <1>6, <1>7 DEF e, v

(* The block that balloc takes is free. *)
LEMMA FirstFree ==
  ASSUME NEW s \in Kernel, FreeBlocks(s) # {}
  PROVE  Min(FreeBlocks(s)) \in (1..NBLOCK) \ s.used
<1>1. FreeBlocks(s) \in SUBSET Nat
  BY DEF FreeBlocks
<1> QED  BY <1>1, MinIn DEF FreeBlocks

(* bmap panics or adds a free block to the inode and to the bitmap. *)
LEMMA BmapIs ==
  ASSUME NEW s \in Kernel, NEW i \in Inums
  PROVE  /\ bmap(s, i) \in Kernel
         /\ \/ /\ FreeBlocks(s) = {}
               /\ bmap(s, i) = Kern(s.di, s.ic, s.used, s.ref, s.valid, s.lock, "balloc: out of blocks")
            \/ \E b \in (1..NBLOCK) \ s.used :
                 LET e == Ino(s.ic[i].type, s.ic[i].nlink, s.ic[i].ents, s.ic[i].blk \cup {b})
                 IN  e \in Inode /\ bmap(s, i) = Kern(s.di, With(s.ic, i, e), s.used \cup {b}, s.ref,
                                                      s.valid, s.lock, s.panic)
<1>1. CASE FreeBlocks(s) = {}
  <2>1. "balloc: out of blocks" \in Panics
    BY DEF Panics
  <2>2. bmap(s, i) = Panic(s, "balloc: out of blocks")
    BY <1>1 DEF bmap, balloc
  <2> QED  BY <1>1, <2>1, <2>2, PanicIs
<1>2. CASE FreeBlocks(s) # {}
  <2> DEFINE b == Min(FreeBlocks(s))
             e == Ino(s.ic[i].type, s.ic[i].nlink, s.ic[i].ents, s.ic[i].blk \cup {b})
             t == [s EXCEPT !.used = @ \cup {b}]
             f == With(s.ic, i, e)
             U == s.used \cup {b}
  <2>1. b \in (1..NBLOCK) \ s.used
    BY <1>2, FirstFree
  <2>2. bmap(s, i) = [t EXCEPT !.ic[i].blk = @ \cup {b}]
    BY <1>2 DEF bmap, balloc
  <2> HIDE DEF b
  <2>3. /\ s = Kern(s.di, s.ic, s.used, s.ref, s.valid, s.lock, s.panic)
        /\ s.ic \in [Inums -> Inode] /\ s.ic[i] \in Inode
        /\ s.used \in SUBSET (1..NBLOCK)
    BY KernIs
  <2>4. t = Kern(s.di, s.ic, U, s.ref, s.valid, s.lock, s.panic) /\ t.ic = s.ic
    <3>1. t = [s EXCEPT !.used = U]
      OBVIOUS
    <3> HIDE DEF U, t
    <3> QED  BY ONLY <2>3, <3>1 DEF Kern
  <2>5. e \in Inode
    <3>1. s.ic[i].blk \cup {b} \in SUBSET (1..NBLOCK)
      BY <2>1, <2>3, InoIs
    <3> QED  BY <2>3, <3>1, InoIs, InoHas
  <2>6. [s.ic[i] EXCEPT !.blk = s.ic[i].blk \cup {b}] = e
    BY <2>3, InodeWith, SMTT(20)
  <2>7. bmap(s, i) = [t EXCEPT !.ic = [t.ic EXCEPT ![i] = [t.ic[i] EXCEPT !.blk = t.ic[i].blk \cup {b}]]]
    BY <2>2
  <2> HIDE DEF e, t
  <2>8. bmap(s, i) = [t EXCEPT !.ic = f]
    BY <2>4, <2>6, <2>7 DEF With
  <2>9. f \in [Inums -> Inode] /\ U \in SUBSET (1..NBLOCK)
    BY <2>1, <2>3, <2>5 DEF With
  <2> HIDE DEF f, U
  <2>10. bmap(s, i) = Kern(s.di, f, U, s.ref, s.valid, s.lock, s.panic)
    BY ONLY <2>4, <2>8 DEF Kern
  <2>11. /\ s.di \in [Inums -> Inode] /\ s.ref \in [Inums -> Nat] /\ s.valid \in [Inums -> BOOLEAN]
         /\ s.lock \in [Inums -> Procs \cup {None}] /\ s.panic \in Panics
    BY KernIs
  <2>12. bmap(s, i) \in Kernel
    BY ONLY <2>9, <2>10, <2>11 DEF Kern, Kernel
  <2> QED  BY <2>1, <2>5, <2>10, <2>12 DEF e, f, U
<1> QED  BY <1>1, <1>2

(* An entry is written: the directory gets its first block if it has none. *)
LEMMA WriteEntryIs ==
  ASSUME NEW s \in Kernel, NEW d \in Inums, NEW n \in AllNames, NEW j \in 0..NINODES
  PROVE  LET t == WriteEntry(s, d, n, j) IN
         /\ Stays(s, t)
         /\ \/ t.panic = "balloc: out of blocks"
            \/ \E B, U \in SUBSET (1..NBLOCK) :
                 LET e == Ino(s.ic[d].type, s.ic[d].nlink, [s.ic[d].ents EXCEPT ![n] = j], B)
                 IN  /\ e \in Inode
                     /\ Writes(s, t, d, e, U, s.panic)
                     /\ \/ B = s.ic[d].blk /\ U = s.used
                        \/ s.ic[d].blk = {} /\ B \cap s.used = {} /\ U = s.used \cup B
<1> DEFINE w == WriteEntry(s, d, n, j)
           t == IF s.ic[d].blk = {} THEN bmap(s, d) ELSE s
           y == [t.ic[d] EXCEPT !.ents = [t.ic[d].ents EXCEPT ![n] = j]]
<1>1. w = iupdate([t EXCEPT !.ic[d] = y], d)
  BY DEF WriteEntry
<1>2. t \in Kernel
  BY BmapIs
<1> HIDE DEF t
<1>3. t.ic[d] \in Inode /\ t.used \in SUBSET (1..NBLOCK) /\ t.panic \in Panics
  BY <1>2, KernIs
<1> DEFINE f == [t.ic[d].ents EXCEPT ![n] = j]
           e == Ino(t.ic[d].type, t.ic[d].nlink, f, t.ic[d].blk)
<1>4. f \in [AllNames -> 0..NINODES]
  BY <1>3, InoIs
<1>5. y = e
  BY <1>3, InodeWith
<1> HIDE DEF f
<1>6. e \in Inode
  BY <1>3, <1>4, InoIs, InoHas
<1> HIDE DEF y, e
<1>7. Writes(t, w, d, e, t.used, t.panic)
  BY <1>1, <1>2, <1>5, <1>6, Updates DEF Writes
<1>8. w \in Kernel /\ w.panic = t.panic /\ w.used = t.used
  BY ONLY <1>2, <1>3, <1>6, <1>7, d \in Inums, WritesIs
<1>9. CASE s.ic[d].blk # {}
  <2>1. t = s
    BY <1>9 DEF t
  <2>2. Stays(s, w)
    BY <1>8, <2>1 DEF Stays
  <2>3. t.ic[d].blk \in SUBSET (1..NBLOCK)
    BY <1>3, InoIs
  <2> DEFINE B == s.ic[d].blk
             U == s.used
  <2>4. B \in SUBSET (1..NBLOCK) /\ U \in SUBSET (1..NBLOCK)
    BY <1>3, <2>1, <2>3
  <2>5. /\ Ino(s.ic[d].type, s.ic[d].nlink, [s.ic[d].ents EXCEPT ![n] = j], B) = e
        /\ e \in Inode /\ Writes(s, w, d, e, U, s.panic)
    BY <1>6, <1>7, <2>1 DEF e, f
  <2> HIDE DEF w
  <2> QED  BY ONLY <2>2, <2>4, <2>5 DEF w
<1>10. CASE s.ic[d].blk = {}
  <2>0. t = bmap(s, d)
    BY <1>10 DEF t
  <2>1. CASE t = Kern(s.di, s.ic, s.used, s.ref, s.valid, s.lock, "balloc: out of blocks")
    <3>1. t.panic = "balloc: out of blocks"
      BY ONLY <2>1 DEF Kern
    <3> QED  BY <1>8, <3>1 DEF Stays
  <2>2. ASSUME NEW b \in (1..NBLOCK) \ s.used, NEW g \in Inode,
               g = Ino(s.ic[d].type, s.ic[d].nlink, s.ic[d].ents, s.ic[d].blk \cup {b}),
               t = Kern(s.di, With(s.ic, d, g), s.used \cup {b}, s.ref, s.valid, s.lock, s.panic)
        PROVE  /\ Stays(s, w)
               /\ \E B, U \in SUBSET (1..NBLOCK) :
                 LET h == Ino(s.ic[d].type, s.ic[d].nlink, [s.ic[d].ents EXCEPT ![n] = j], B)
                 IN  /\ h \in Inode
                     /\ Writes(s, w, d, h, U, s.panic)
                     /\ s.ic[d].blk = {} /\ B \cap s.used = {} /\ U = s.used \cup B
    <3> DEFINE U == s.used \cup {b}
               B == {b}
               ic == With(s.ic, d, g)
    <3>1. t.di = s.di /\ t.ic = ic /\ t.used = U /\ t.ref = s.ref /\ t.valid = s.valid /\ t.lock = s.lock
            /\ t.panic = s.panic
      <4> HIDE DEF U, ic
      <4>1. t = Kern(s.di, ic, U, s.ref, s.valid, s.lock, s.panic)
        BY <2>2 DEF U, ic
      <4> QED  BY ONLY <4>1 DEF Kern
    <3>2. s.ic \in [Inums -> Inode] /\ s.used \in SUBSET (1..NBLOCK)
      BY KernIs
    <3>3. t.ic[d] = g /\ s.ic[d].blk \cup {b} = B
      BY <1>10, <3>1, <3>2 DEF With
    <3>4. g.type = s.ic[d].type /\ g.nlink = s.ic[d].nlink /\ g.ents = s.ic[d].ents /\ g.blk = B
      BY ONLY <2>2, <3>3 DEF Ino
    <3>5. Ino(s.ic[d].type, s.ic[d].nlink, [s.ic[d].ents EXCEPT ![n] = j], B) = e
      BY <3>3, <3>4 DEF e, f
    <3>6. With(t.ic, d, e) = With(s.ic, d, e)
      BY <3>1, <3>2 DEF With
    <3>7. Writes(s, w, d, e, U, s.panic)
      <4> HIDE DEF U, w
      <4> QED  BY ONLY <1>7, <3>1, <3>6 DEF Writes
    <3>8. B \in SUBSET (1..NBLOCK) /\ U \in SUBSET (1..NBLOCK) /\ B \cap s.used = {} /\ U = s.used \cup B
      BY <3>2
    <3>9. Stays(s, w)
      BY <1>8, <3>1 DEF Stays
    <3> HIDE DEF U, B, w
    <3> QED  BY ONLY <1>6, <1>10, <3>5, <3>7, <3>8, <3>9
  <2>3. \/ t = Kern(s.di, s.ic, s.used, s.ref, s.valid, s.lock, "balloc: out of blocks")
        \/ \E b \in (1..NBLOCK) \ s.used :
             LET g == Ino(s.ic[d].type, s.ic[d].nlink, s.ic[d].ents, s.ic[d].blk \cup {b})
             IN  g \in Inode /\ t = Kern(s.di, With(s.ic, d, g), s.used \cup {b}, s.ref,
                                                      s.valid, s.lock, s.panic)
    BY <2>0, BmapIs
  <2>4. CASE \E b \in (1..NBLOCK) \ s.used :
             LET g == Ino(s.ic[d].type, s.ic[d].nlink, s.ic[d].ents, s.ic[d].blk \cup {b})
             IN  g \in Inode /\ t = Kern(s.di, With(s.ic, d, g), s.used \cup {b}, s.ref,
                                                      s.valid, s.lock, s.panic)
    <3>1. PICK b \in (1..NBLOCK) \ s.used :
             LET g == Ino(s.ic[d].type, s.ic[d].nlink, s.ic[d].ents, s.ic[d].blk \cup {b})
             IN  g \in Inode /\ t = Kern(s.di, With(s.ic, d, g), s.used \cup {b}, s.ref,
                                                      s.valid, s.lock, s.panic)
      BY <2>4
    <3> HIDE DEF w
    <3>2. /\ Stays(s, w)
          /\ \E B, U \in SUBSET (1..NBLOCK) :
                 LET h == Ino(s.ic[d].type, s.ic[d].nlink, [s.ic[d].ents EXCEPT ![n] = j], B)
                 IN  /\ h \in Inode
                     /\ Writes(s, w, d, h, U, s.panic)
                     /\ s.ic[d].blk = {} /\ B \cap s.used = {} /\ U = s.used \cup B
      BY <2>2, <3>1
    <3> QED  BY ONLY <3>2 DEF w
  <2> QED  BY <2>1, <2>3, <2>4
<1> QED  BY <1>9, <1>10

(* iupdate copies the cached inode to the disk. *)
LEMMA IupdateIs ==
  ASSUME NEW s \in Kernel, NEW i \in Inums
  PROVE  /\ iupdate(s, i) = Kern(With(s.di, i, s.ic[i]), s.ic, s.used, s.ref, s.valid, s.lock, s.panic)
         /\ Stays(s, iupdate(s, i))
<1>1. s = Kern(s.di, s.ic, s.used, s.ref, s.valid, s.lock, s.panic)
  BY KernIs
<1>2. /\ s.di \in [Inums -> Inode] /\ s.ic \in [Inums -> Inode] /\ s.used \in SUBSET (1..NBLOCK)
      /\ s.ref \in [Inums -> Nat] /\ s.valid \in [Inums -> BOOLEAN]
      /\ s.lock \in [Inums -> Procs \cup {None}] /\ s.panic \in Panics
  BY KernIs
<1> DEFINE f == With(s.di, i, s.ic[i])
<1>3. f \in [Inums -> Inode]
  BY <1>2 DEF With
<1>4. ASSUME NEW t, t = [s EXCEPT !.di = f]
      PROVE  t = Kern(f, s.ic, s.used, s.ref, s.valid, s.lock, s.panic)
  <2> HIDE DEF f
  <2> QED  BY <1>1, <1>4 DEF Kern
<1>5. iupdate(s, i) = Kern(f, s.ic, s.used, s.ref, s.valid, s.lock, s.panic)
  BY <1>4 DEF iupdate, With
<1> HIDE DEF f
<1>6. Stays(s, iupdate(s, i))
  BY ONLY <1>2, <1>3, <1>5 DEF Stays, Kern, Kernel
<1> QED  BY <1>5, <1>6 DEF f

(* A file is given one more block. *)
LEMMA AppendIs ==
  ASSUME NEW s \in Kernel, NEW i \in Inums
  PROVE  LET t == iupdate(bmap(s, i), i) IN
         /\ Stays(s, t)
         /\ \/ t.panic = "balloc: out of blocks"
            \/ \E b \in (1..NBLOCK) \ s.used :
                 LET e == Ino(s.ic[i].type, s.ic[i].nlink, s.ic[i].ents, s.ic[i].blk \cup {b})
                 IN  e \in Inode /\ Writes(s, t, i, e, s.used \cup {b}, s.panic)
<1> DEFINE r == bmap(s, i)
           t == iupdate(r, i)
<1>1. r \in Kernel
  BY BmapIs
<1> HIDE DEF r
<1>2. t = Kern(With(r.di, i, r.ic[i]), r.ic, r.used, r.ref, r.valid, r.lock, r.panic) /\ Stays(r, t)
  BY <1>1, IupdateIs
<1> DEFINE df == With(r.di, i, r.ic[i])
<1> HIDE DEF t
<1>3. t.panic = r.panic
  <2> HIDE DEF df
  <2>1. t = Kern(df, r.ic, r.used, r.ref, r.valid, r.lock, r.panic)
    BY <1>2 DEF df
  <2> QED  BY ONLY <2>1 DEF Kern
<1>4. CASE r = Kern(s.di, s.ic, s.used, s.ref, s.valid, s.lock, "balloc: out of blocks")
  <2>1. r.panic = "balloc: out of blocks"
    BY ONLY <1>4 DEF Kern
  <2> QED  BY <1>2, <1>3, <2>1 DEF Stays, t, r
<1>5. ASSUME NEW b \in (1..NBLOCK) \ s.used,
             LET e == Ino(s.ic[i].type, s.ic[i].nlink, s.ic[i].ents, s.ic[i].blk \cup {b})
             IN  e \in Inode /\ r = Kern(s.di, With(s.ic, i, e), s.used \cup {b}, s.ref, s.valid, s.lock, s.panic)
      PROVE  /\ Stays(s, t)
             /\ LET e == Ino(s.ic[i].type, s.ic[i].nlink, s.ic[i].ents, s.ic[i].blk \cup {b})
                IN  e \in Inode /\ Writes(s, t, i, e, s.used \cup {b}, s.panic)
  <2> DEFINE e == Ino(s.ic[i].type, s.ic[i].nlink, s.ic[i].ents, s.ic[i].blk \cup {b})
             f == With(s.ic, i, e)
             U == s.used \cup {b}
  <2>1. e \in Inode /\ r = Kern(s.di, f, U, s.ref, s.valid, s.lock, s.panic)
    BY <1>5
  <2>2. s.ic \in [Inums -> Inode]
    BY KernIs
  <2> HIDE DEF e
  <2>3. f[i] = e
    BY <2>2 DEF With
  <2> HIDE DEF f, U
  <2>4. r.di = s.di /\ r.ic = f /\ r.used = U /\ r.ref = s.ref /\ r.valid = s.valid /\ r.lock = s.lock
          /\ r.panic = s.panic
    BY ONLY <2>1 DEF Kern
  <2>5. t = Kern(With(s.di, i, e), f, U, s.ref, s.valid, s.lock, s.panic)
    BY <1>2, <2>3, <2>4
  <2>6. Stays(s, t)
    BY <1>2, <2>4 DEF Stays
  <2> QED  BY <2>1, <2>5, <2>6 DEF Writes, f, e, U
<1>6. \/ r = Kern(s.di, s.ic, s.used, s.ref, s.valid, s.lock, "balloc: out of blocks")
      \/ \E b \in (1..NBLOCK) \ s.used :
             LET e == Ino(s.ic[i].type, s.ic[i].nlink, s.ic[i].ents, s.ic[i].blk \cup {b})
             IN  e \in Inode /\ r = Kern(s.di, With(s.ic, i, e), s.used \cup {b}, s.ref, s.valid, s.lock, s.panic)
  BY BmapIs DEF r
<1>7. ASSUME \E b \in (1..NBLOCK) \ s.used :
             LET e == Ino(s.ic[i].type, s.ic[i].nlink, s.ic[i].ents, s.ic[i].blk \cup {b})
             IN  e \in Inode /\ r = Kern(s.di, With(s.ic, i, e), s.used \cup {b}, s.ref, s.valid, s.lock, s.panic)
      PROVE  /\ Stays(s, t)
             /\ \E b \in (1..NBLOCK) \ s.used :
                LET e == Ino(s.ic[i].type, s.ic[i].nlink, s.ic[i].ents, s.ic[i].blk \cup {b})
                IN  e \in Inode /\ Writes(s, t, i, e, s.used \cup {b}, s.panic)
  BY <1>5, <1>7, Zenon
<1> QED  BY <1>4, <1>6, <1>7 DEF t, r

(* itrunc of a file whose blocks are marked. *)
LEMMA ItruncIs ==
  ASSUME NEW s \in Kernel, NEW i \in Inums, s.ic[i].blk \subseteq s.used
  PROVE  LET e == Ino(s.ic[i].type, s.ic[i].nlink, NoEnts, {})
         IN  e \in Inode /\ Writes(s, itrunc(s, i), i, e, s.used \ s.ic[i].blk, s.panic)
<1> DEFINE e == Ino(s.ic[i].type, s.ic[i].nlink, NoEnts, {})
           U == s.used \ s.ic[i].blk
           b == [s EXCEPT !.used = U]
           t == [b EXCEPT !.ic[i].blk = {}, !.ic[i].ents = NoEnts]
           y == [b.ic[i] EXCEPT !.blk = {}]
           z == [y EXCEPT !.ents = NoEnts]
<1>1. bfree(s, s.ic[i].blk) = b
  BY DEF bfree
<1>2. itrunc(s, i) = iupdate(t, i)
  BY <1>1 DEF itrunc
<1>3. s.ic \in [Inums -> Inode] /\ s.ic[i] \in Inode /\ U \in SUBSET (1..NBLOCK)
  BY KernIs
<1>4. b = Kern(s.di, s.ic, U, s.ref, s.valid, s.lock, s.panic)
  <2>1. s = Kern(s.di, s.ic, s.used, s.ref, s.valid, s.lock, s.panic)
    BY KernIs
  <2> HIDE DEF U
  <2> QED  BY ONLY <2>1 DEF Kern
<1>5. b.ic = s.ic /\ b \in Kernel
  <2>1. /\ s.di \in [Inums -> Inode] /\ s.ref \in [Inums -> Nat] /\ s.valid \in [Inums -> BOOLEAN]
        /\ s.lock \in [Inums -> Procs \cup {None}] /\ s.panic \in Panics
    BY KernIs
  <2> HIDE DEF b, U
  <2> QED  BY ONLY <1>3, <1>4, <2>1 DEF Kern, Kernel
<1>6. e \in Inode
  BY <1>3, InoIs, InoHas, FreshIs DEF Types
<1>7. y = Ino(s.ic[i].type, s.ic[i].nlink, s.ic[i].ents, {})
  <2> HIDE DEF b
  <2>1. b.ic[i] \in Inode /\ b.ic[i] = s.ic[i]
    BY <1>3, <1>5
  <2>2. y = Ino(b.ic[i].type, b.ic[i].nlink, b.ic[i].ents, {})
    BY ONLY <2>1, InodeWith
  <2> QED  BY <2>1, <2>2
<1>8. z = e
  <2> HIDE DEF b, y
  <2> QED  BY ONLY <1>7 DEF Ino
<1>9. t = [b EXCEPT !.ic[i] = z]
  <2> HIDE DEF b
  <2> QED  BY <1>3, <1>5
<1> HIDE DEF b, e, t, z
<1>10. iupdate(t, i) = Kern(With(b.di, i, e), With(b.ic, i, e), b.used, b.ref, b.valid, b.lock, b.panic)
  BY <1>5, <1>6, <1>8, <1>9, Updates
<1>11. b.di = s.di /\ b.ic = s.ic /\ b.used = U /\ b.ref = s.ref /\ b.valid = s.valid /\ b.lock = s.lock
         /\ b.panic = s.panic
  <2> HIDE DEF U
  <2> QED  BY ONLY <1>4 DEF Kern
<1>12. Writes(s, itrunc(s, i), i, e, U, s.panic)
  BY <1>2, <1>10, <1>11 DEF Writes
<1> QED  BY <1>6, <1>12 DEF e

(* a kernel that has not panicked, with cache, bitmap and inodes right *)
Good(s) == s \in Kernel /\ Sound(s) /\ s.panic = "no"
(* t is such a kernel, with this disk, these counts and these locks *)
Becomes(t, di, ref, lock) == Good(t) /\ t.di = di /\ t.ref = ref /\ t.lock = lock

(* The fields of a state that Kern makes. *)
LEMMA KernFields ==
  ASSUME NEW s \in Kernel, NEW di, NEW ic, NEW used, NEW ref, NEW valid, NEW lock, NEW panic,
         s = Kern(di, ic, used, ref, valid, lock, panic)
  PROVE  /\ s.di = di /\ s.ic = ic /\ s.used = used /\ s.ref = ref /\ s.valid = valid
         /\ s.lock = lock /\ s.panic = panic
BY DEF Kern

(* BlocksExact depends on inodes and bitmap only. *)
LEMMA BlocksSame ==
  ASSUME NEW s, NEW t, BlocksExact(s), t.di = s.di, t.used = s.used
  PROVE  BlocksExact(t)
BY DEF BlocksExact

(* idup of an inode in use keeps the kernel good. *)
LEMMA GoodIdup ==
  ASSUME NEW s, Good(s), NEW i \in Inums, s.ref[i] > 0
  PROVE  Becomes(idup(s, i), s.di, With(s.ref, i, s.ref[i] + 1), s.lock)
<1> DEFINE t == idup(s, i)
           f == With(s.ref, i, s.ref[i] + 1)
<1>1. s \in Kernel /\ Sound(s) /\ s.panic = "no"
  BY DEF Good
<1>2. t \in Kernel /\ t = Kern(s.di, s.ic, s.used, f, s.valid, s.lock, s.panic)
  BY <1>1, IdupIs DEF Stays
<1> HIDE DEF t, f
<1>3. t.di = s.di /\ t.ic = s.ic /\ t.used = s.used /\ t.ref = f /\ t.valid = s.valid /\ t.lock = s.lock
        /\ t.panic = s.panic
  BY ONLY <1>2 DEF Kern
<1>4. s.ref \in [Inums -> Nat] /\ s.di \in [Inums -> Inode]
  BY <1>1, KernIs
<1>5. \A j \in Inums : f[j] > 0 <=> s.ref[j] > 0
  BY <1>4 DEF f, With
<1>5a. \A j \in Inums : f[j] = 0 <=> s.ref[j] = 0
  BY <1>4 DEF f, With
<1>6. WriteThrough(t)
  BY <1>1, <1>3, <1>5 DEF Sound, WriteThrough
<1>7. BlocksExact(t)
  BY <1>1, <1>3, BlocksSame DEF Sound
<1>8. InodesUsed(t)
  BY <1>1, <1>3, <1>5, <1>5a DEF Sound, InodesUsed
<1> QED  BY <1>1, <1>2, <1>3, <1>6, <1>7, <1>8 DEF Becomes, Good, Sound, t, f

(* iget keeps the kernel good or panics. *)
LEMMA GoodIget ==
  ASSUME NEW s, Good(s), NEW i \in Inums
  PROVE  /\ iget(s, i) \in Kernel
         /\ \/ iget(s, i).panic = "iget: no inodes"
            \/ Becomes(iget(s, i), s.di, With(s.ref, i, s.ref[i] + 1), s.lock)
<1>1. s \in Kernel /\ Sound(s) /\ s.panic = "no"
  BY DEF Good
<1>2. iget(s, i) \in Kernel
  BY <1>1, IgetIs DEF Stays
<1>3. CASE s.ref[i] > 0 /\ iget(s, i) = idup(s, i)
  <2>1. Becomes(idup(s, i), s.di, With(s.ref, i, s.ref[i] + 1), s.lock)
    BY <1>3, GoodIdup
  <2> QED  BY <1>2, <1>3, <2>1
<1> DEFINE t == iget(s, i)
           f == With(s.ref, i, 1)
           g == With(s.valid, i, FALSE)
<1>4. CASE ~(s.ref[i] > 0) /\ t = Kern(s.di, s.ic, s.used, f, g, s.lock, s.panic)
  <2>0. t \in Kernel
    BY <1>2
  <2> HIDE DEF t, f, g
  <2>3. t.di = s.di /\ t.ic = s.ic /\ t.used = s.used /\ t.ref = f /\ t.valid = g /\ t.lock = s.lock
          /\ t.panic = s.panic
    BY ONLY <1>4 DEF Kern
  <2>4. s.ref \in [Inums -> Nat] /\ s.valid \in [Inums -> BOOLEAN] /\ s.di \in [Inums -> Inode]
    BY <1>1, KernIs
  <2>5. s.ref[i] = 0 /\ 1 \in Nat
    BY <1>4, <2>4
  <2>6. f[i] = 1 /\ g[i] = FALSE /\ \A j \in Inums : j # i => f[j] = s.ref[j] /\ g[j] = s.valid[j]
    BY <2>4, <2>5 DEF f, g, With
  <2>7. s.lock[i] = None
    BY <1>1, <2>5 DEF Sound, InodesUsed
  <2>8. WriteThrough(t)
    BY <1>1, <2>3, <2>6 DEF Sound, WriteThrough
  <2>9. BlocksExact(t)
    BY <1>1, <2>3, BlocksSame DEF Sound
  <2>10. InodesUsed(t)
    BY <1>1, <2>3, <2>6, <2>7 DEF Sound, InodesUsed
  <2>11. f = With(s.ref, i, s.ref[i] + 1)
    BY <2>5 DEF f
  <2> QED  BY <1>1, <1>2, <2>3, <2>8, <2>9, <2>10, <2>11 DEF Becomes, Good, Sound, t
<1> QED
  <2>1. \/ s.ref[i] > 0 /\ iget(s, i) = idup(s, i)
        \/ iget(s, i).panic = "iget: no inodes"
        \/ ~(s.ref[i] > 0) /\ t = Kern(s.di, s.ic, s.used, f, g, s.lock, s.panic)
    BY <1>1, IgetIs
  <2> QED  BY <1>2, <1>3, <1>4, <2>1

(* iunlock keeps the kernel good. *)
LEMMA GoodIunlock ==
  ASSUME NEW s, Good(s), NEW i \in Inums
  PROVE  Becomes(iunlock(s, i), s.di, s.ref, With(s.lock, i, None))
<1> DEFINE t == iunlock(s, i)
           f == With(s.lock, i, None)
<1>1. s \in Kernel /\ Sound(s) /\ s.panic = "no"
  BY DEF Good
<1>2. t \in Kernel /\ t = Kern(s.di, s.ic, s.used, s.ref, s.valid, f, s.panic)
  BY <1>1, IunlockIs DEF Stays
<1> HIDE DEF t, f
<1>3. t.di = s.di /\ t.ic = s.ic /\ t.used = s.used /\ t.ref = s.ref /\ t.valid = s.valid /\ t.lock = f
        /\ t.panic = s.panic
  BY ONLY <1>2 DEF Kern
<1>4. s.lock \in [Inums -> Procs \cup {None}]
  BY <1>1, KernIs
<1>5. \A j \in Inums : f[j] # None => s.lock[j] # None
  BY <1>4 DEF f, With
<1>6. WriteThrough(t)
  BY <1>1, <1>3 DEF Sound, WriteThrough
<1>7. BlocksExact(t)
  BY <1>1, <1>3, BlocksSame DEF Sound
<1>8. InodesUsed(t)
  BY <1>1, <1>3, <1>5 DEF Sound, InodesUsed
<1> QED  BY <1>1, <1>2, <1>3, <1>6, <1>7, <1>8 DEF Becomes, Good, Sound, t, f

(* A referenced inode is loaded by ilock; the panic is for a free one. *)
LEMMA GoodIlock ==
  ASSUME NEW s, Good(s), NEW i \in Inums, NEW p \in Procs, s.ref[i] > 0
  PROVE  LET t == ilock(s, p, i) IN
         /\ t \in Kernel /\ t.ic[i] = s.di[i]
         /\ s.di[i].type = "free" => t.panic = "ilock: no type"
         /\ s.di[i].type # "free" => Becomes(t, s.di, s.ref, With(s.lock, i, p))
<1> DEFINE t == ilock(s, p, i)
           f == IF s.valid[i] THEN s.ic ELSE With(s.ic, i, s.di[i])
           g == With(s.valid, i, TRUE)
           h == With(s.lock, i, p)
           x == IF f[i].type = "free" THEN "ilock: no type" ELSE s.panic
<1>1. s \in Kernel /\ Sound(s) /\ s.panic = "no"
  BY DEF Good
<1>2. t \in Kernel /\ t = Kern(s.di, f, s.used, s.ref, g, h, x)
  BY <1>1, IlockIs DEF Stays
<1>3. /\ s.di \in [Inums -> Inode] /\ s.ic \in [Inums -> Inode] /\ s.ref \in [Inums -> Nat]
      /\ s.valid \in [Inums -> BOOLEAN] /\ s.lock \in [Inums -> Procs \cup {None}]
  BY <1>1, KernIs
<1>4. f[i] = s.di[i] /\ \A j \in Inums : j # i => f[j] = s.ic[j]
  <2>1. CASE s.valid[i]
    BY <1>1, <2>1 DEF Sound, WriteThrough
  <2>2. CASE ~s.valid[i]
    <3>1. f = With(s.ic, i, s.di[i])
      BY <2>2
    <3> HIDE DEF f
    <3> QED  BY ONLY <1>3, <3>1, i \in Inums DEF With
  <2> QED  BY <2>1, <2>2
<1>5. g[i] = TRUE /\ \A j \in Inums : j # i => g[j] = s.valid[j] /\ h[j] = s.lock[j]
  BY <1>3 DEF With
<1> HIDE DEF f
<1>6. x = IF s.di[i].type = "free" THEN "ilock: no type" ELSE "no"
  BY <1>1, <1>4
<1> HIDE DEF t, g, h, x
<1>7. t.di = s.di /\ t.ic = f /\ t.used = s.used /\ t.ref = s.ref /\ t.valid = g /\ t.lock = h
        /\ t.panic = x
  BY ONLY <1>2 DEF Kern
<1>8. CASE s.di[i].type = "free"
  BY <1>2, <1>4, <1>6, <1>7, <1>8 DEF t
<1>9. CASE s.di[i].type # "free"
  <2>6. WriteThrough(t)
    BY <1>1, <1>4, <1>5, <1>7 DEF Sound, WriteThrough
  <2>7. BlocksExact(t)
    BY <1>1, <1>7, BlocksSame DEF Sound
  <2>8. InodesUsed(t)
    BY <1>1, <1>5, <1>7, <1>9 DEF Sound, InodesUsed
  <2>9. t.panic = "no"
    BY <1>6, <1>7, <1>9
  <2>10. Becomes(t, s.di, s.ref, h)
    BY <1>2, <1>7, <2>6, <2>7, <2>8, <2>9 DEF Becomes, Good, Sound
  <2> QED  BY <1>2, <1>4, <1>7, <1>9, <2>10 DEF t, h
<1> QED  BY <1>8, <1>9

(* A locked inode is written, its blocks exchanged for others that are free. *)
LEMMA GoodWrites ==
  ASSUME NEW s, Good(s), NEW t, NEW i \in Inums, NEW e \in Inode, NEW used \in SUBSET (1..NBLOCK),
         s.lock[i] # None, e.type # "free", e.type = s.di[i].type, e.type # "dir" => e.ents = NoEnts,
         used = (s.used \ s.di[i].blk) \cup e.blk, e.blk \cap (s.used \ s.di[i].blk) = {},
         Writes(s, t, i, e, used, s.panic)
  PROVE  Becomes(t, With(s.di, i, e), s.ref, s.lock)
<1>1. s \in Kernel /\ Sound(s) /\ s.panic = "no"
  BY DEF Good
<1> DEFINE f == With(s.di, i, e)
           g == With(s.ic, i, e)
<1>2. /\ t \in Kernel /\ t.di = f /\ t.ic = g
      /\ t.used = used /\ t.ref = s.ref /\ t.valid = s.valid /\ t.lock = s.lock /\ t.panic = s.panic
  <2>1. s.panic \in Panics
    BY <1>1, KernIs
  <2> QED  BY ONLY <1>1, <2>1, i \in Inums, e \in Inode, used \in SUBSET (1..NBLOCK),
                   Writes(s, t, i, e, used, s.panic), WritesIs
<1>3. s.di \in [Inums -> Inode] /\ s.ic \in [Inums -> Inode] /\ s.ref \in [Inums -> Nat]
  BY <1>1, KernIs
<1>4. f[i] = e /\ g[i] = e /\ \A j \in Inums : j # i => f[j] = s.di[j] /\ g[j] = s.ic[j]
  BY <1>3 DEF With
<1> HIDE DEF f, g
<1>5. WriteThrough(t)
  BY <1>1, <1>2, <1>4 DEF Sound, WriteThrough
<1>6. BlocksExact(t)
  <2>1. s.used = UNION {s.di[j].blk : j \in Inums} /\ \A j, l \in Inums : j # l
          => s.di[j].blk \cap s.di[l].blk = {}
    BY <1>1 DEF Sound, BlocksExact
  <2>2. \A j \in Inums : s.di[j].blk \subseteq s.used
    BY <2>1
  <2>3. \A b \in s.used : \E j \in Inums : b \in s.di[j].blk
    BY <2>1
  <2>4. \A j \in Inums : f[j].blk \subseteq used
    BY <1>4, <2>1, <2>2
  <2>5. ASSUME NEW b \in used PROVE \E j \in Inums : b \in f[j].blk
    <3>1. CASE b \in e.blk
      BY <1>4, <3>1
    <3>2. CASE b \in s.used /\ b \notin s.di[i].blk
      BY <1>4, <2>3, <3>2
    <3> QED  BY <2>5, <3>1, <3>2
  <2>6. used = UNION {f[j].blk : j \in Inums}
    BY <2>4, <2>5
  <2>7. ASSUME NEW j \in Inums, NEW l \in Inums, j # l PROVE f[j].blk \cap f[l].blk = {}
    <3>1. CASE j # i /\ l # i
      BY <1>4, <2>1, <2>7, <3>1
    <3>2. CASE j = i
      <4>1. f[j].blk = e.blk /\ f[l].blk = s.di[l].blk /\ s.di[l].blk \cap s.di[i].blk = {}
        BY <1>4, <2>1, <2>7, <3>2
      <4> QED  BY <2>2, <4>1
    <3>3. CASE l = i
      <4>1. f[l].blk = e.blk /\ f[j].blk = s.di[j].blk /\ s.di[j].blk \cap s.di[i].blk = {}
        BY <1>4, <2>1, <2>7, <3>3
      <4> QED  BY <2>2, <4>1
    <3> QED  BY <3>1, <3>2, <3>3
  <2> QED  BY <1>2, <2>6, <2>7 DEF BlocksExact
<1>7. InodesUsed(t)
  BY <1>1, <1>2, <1>4 DEF Sound, InodesUsed
<1>8. t.di[Root].type = "dir"
  BY <1>1, <1>2, <1>4, Numbers DEF Sound
<1> QED  BY <1>1, <1>2, <1>5, <1>6, <1>7, <1>8 DEF Becomes, Good, Sound, f

(* What a locked inode is in a good state. *)
LEMMA LockedIs ==
  ASSUME NEW s, Good(s), NEW i \in Inums, s.lock[i] # None
  PROVE  /\ s \in Kernel /\ s.valid[i] /\ s.ref[i] > 0 /\ s.ic[i] = s.di[i] /\ s.di[i] \in Inode /\ s.di[i].type # "free"
         /\ s.di[i].type # "dir" => s.di[i].ents = NoEnts
         /\ s.di[i].blk \subseteq s.used /\ s.used \in SUBSET (1..NBLOCK)
<1>1. s \in Kernel /\ Sound(s) /\ s.panic = "no"
  BY DEF Good
<1>2. s.valid[i] /\ s.ref[i] > 0 /\ (s.di[i].type # "dir" => s.di[i].ents = NoEnts)
  BY <1>1 DEF Sound, InodesUsed
<1>3. s.ic[i] = s.di[i]
  BY <1>1, <1>2 DEF Sound, WriteThrough
<1>4. s.ref \in [Inums -> Nat] /\ s.di \in [Inums -> Inode] /\ s.used \in SUBSET (1..NBLOCK)
  BY <1>1, KernIs
<1>5. s.ref[i] # 0
  BY <1>2, <1>4
<1>6. s.di[i].type # "free"
  BY <1>1, <1>2, <1>5 DEF Sound, InodesUsed
<1>7. s.di[i].blk \subseteq s.used
  BY <1>1 DEF Sound, BlocksExact
<1> QED  BY <1>1, <1>2, <1>3, <1>4, <1>6, <1>7

(* AddLinks of a locked inode keeps the kernel good, and changes its link  *)
(* count on disk.                                                          *)
LEMMA GoodAddLinks ==
  ASSUME NEW s, Good(s), NEW i \in Inums, NEW n \in Int, s.lock[i] # None
  PROVE  LET e == Ino(s.di[i].type, s.di[i].nlink + n, s.di[i].ents, s.di[i].blk)
         IN  e \in Inode /\ Becomes(AddLinks(s, i, n), With(s.di, i, e), s.ref, s.lock)
<1> DEFINE e == Ino(s.di[i].type, s.di[i].nlink + n, s.di[i].ents, s.di[i].blk)
           t == AddLinks(s, i, n)
<1>1. /\ s \in Kernel /\ s.ic[i] = s.di[i] /\ s.di[i] \in Inode /\ s.di[i].type # "free"
      /\ s.di[i].type # "dir" => s.di[i].ents = NoEnts
      /\ s.di[i].blk \subseteq s.used /\ s.used \in SUBSET (1..NBLOCK)
  BY LockedIs
<1>2. e \in Inode /\ Writes(s, t, i, e, s.used, s.panic)
  <2>1. LET x == Ino(s.ic[i].type, s.ic[i].nlink + n, s.ic[i].ents, s.ic[i].blk)
        IN  x \in Inode /\ Writes(s, t, i, x, s.used, s.panic)
    BY <1>1, AddLinksIs, Zenon
  <2> QED  BY <1>1, <2>1
<1>3. e.type = s.di[i].type /\ e.ents = s.di[i].ents /\ e.blk = s.di[i].blk
  BY DEF Ino
<1> HIDE DEF e, t
<1>4. /\ e.type # "free" /\ e.type = s.di[i].type /\ (e.type # "dir" => e.ents = NoEnts)
      /\ s.used = (s.used \ s.di[i].blk) \cup e.blk /\ e.blk \cap (s.used \ s.di[i].blk) = {}
  BY <1>1, <1>3
<1>5. Becomes(t, With(s.di, i, e), s.ref, s.lock)
  BY ONLY <1>1, <1>2, <1>4, Good(s), i \in Inums, s.lock[i] # None, GoodWrites
<1> QED  BY <1>2, <1>5 DEF e, t

(* An entry written into a locked directory keeps the kernel good, whether *)
(* or not the directory needs its first block; or there is no free block.  *)
LEMMA GoodWriteEntry ==
  ASSUME NEW s, Good(s), NEW d \in Inums, NEW n \in AllNames, NEW j \in 0..NINODES,
         s.lock[d] # None, s.di[d].type = "dir"
  PROVE  LET t == WriteEntry(s, d, n, j) IN
         /\ t \in Kernel
         /\ \/ t.panic = "balloc: out of blocks"
            \/ \E e \in Inode : /\ e.type = "dir" /\ e.nlink = s.di[d].nlink
                                /\ e.ents = With(s.di[d].ents, n, j)
                                /\ Becomes(t, With(s.di, d, e), s.ref, s.lock)
<1> DEFINE t == WriteEntry(s, d, n, j)
<1>1. /\ s \in Kernel /\ s.ic[d] = s.di[d] /\ s.di[d] \in Inode
      /\ s.di[d].blk \subseteq s.used /\ s.used \in SUBSET (1..NBLOCK)
  BY LockedIs
<1>2. /\ t \in Kernel
      /\ \/ t.panic = "balloc: out of blocks"
         \/ \E B, U \in SUBSET (1..NBLOCK) :
                 LET e == Ino(s.ic[d].type, s.ic[d].nlink, [s.ic[d].ents EXCEPT ![n] = j], B)
                 IN  /\ e \in Inode
                     /\ Writes(s, t, d, e, U, s.panic)
                     /\ \/ B = s.ic[d].blk /\ U = s.used
                        \/ s.ic[d].blk = {} /\ B \cap s.used = {} /\ U = s.used \cup B
  BY <1>1, WriteEntryIs, Zenon DEF Stays
<1>3. ASSUME NEW B \in SUBSET (1..NBLOCK), NEW U \in SUBSET (1..NBLOCK),
                 LET e == Ino(s.ic[d].type, s.ic[d].nlink, [s.ic[d].ents EXCEPT ![n] = j], B)
                 IN  /\ e \in Inode
                     /\ Writes(s, t, d, e, U, s.panic)
                     /\ \/ B = s.ic[d].blk /\ U = s.used
                        \/ s.ic[d].blk = {} /\ B \cap s.used = {} /\ U = s.used \cup B
      PROVE  \E e \in Inode : /\ e.type = "dir" /\ e.nlink = s.di[d].nlink
                                /\ e.ents = With(s.di[d].ents, n, j)
                                /\ Becomes(t, With(s.di, d, e), s.ref, s.lock)
  <2> DEFINE e == Ino(s.ic[d].type, s.ic[d].nlink, [s.ic[d].ents EXCEPT ![n] = j], B)
  <2>1. e \in Inode /\ Writes(s, t, d, e, U, s.panic)
    BY <1>3
  <2>2. \/ B = s.di[d].blk /\ U = s.used
        \/ s.di[d].blk = {} /\ B \cap s.used = {} /\ U = s.used \cup B
    BY <1>1, <1>3
  <2>3. e.type = "dir" /\ e.nlink = s.di[d].nlink /\ e.ents = With(s.di[d].ents, n, j) /\ e.blk = B
    BY <1>1 DEF Ino, With
  <2> HIDE DEF e, t
  <2>4. /\ U = (s.used \ s.di[d].blk) \cup e.blk /\ e.blk \cap (s.used \ s.di[d].blk) = {}
    BY <1>1, <2>2, <2>3
  <2>5. e.type # "free" /\ e.type = s.di[d].type /\ (e.type # "dir" => e.ents = NoEnts)
    BY <2>3
  <2>6. Becomes(t, With(s.di, d, e), s.ref, s.lock)
    BY ONLY <2>1, <2>4, <2>5, Good(s), d \in Inums, s.lock[d] # None, U \in SUBSET (1..NBLOCK),
            GoodWrites
  <2> QED  BY <2>1, <2>3, <2>6
<1> HIDE DEF t
<1>4. t.panic = "balloc: out of blocks" \/
         \E e \in Inode : /\ e.type = "dir" /\ e.nlink = s.di[d].nlink
                                /\ e.ents = With(s.di[d].ents, n, j)
                                /\ Becomes(t, With(s.di, d, e), s.ref, s.lock)
  BY ONLY <1>2, <1>3, Zenon
<1> QED  BY <1>2, <1>4 DEF t

(* A block added to a locked inode keeps the kernel good: bitmap and       *)
(* addresses change together.                                              *)
LEMMA GoodAppend ==
  ASSUME NEW s, Good(s), NEW i \in Inums, s.lock[i] # None
  PROVE  LET t == iupdate(bmap(s, i), i) IN
         /\ t \in Kernel
         /\ \/ t.panic = "balloc: out of blocks"
            \/ \E e \in Inode : /\ e.type = s.di[i].type /\ e.nlink = s.di[i].nlink
                                /\ e.ents = s.di[i].ents
                                /\ Becomes(t, With(s.di, i, e), s.ref, s.lock)
<1> DEFINE t == iupdate(bmap(s, i), i)
<1>1. /\ s \in Kernel /\ s.ic[i] = s.di[i] /\ s.di[i] \in Inode /\ s.di[i].type # "free"
      /\ s.di[i].type # "dir" => s.di[i].ents = NoEnts
      /\ s.di[i].blk \subseteq s.used /\ s.used \in SUBSET (1..NBLOCK)
  BY LockedIs
<1>2. /\ t \in Kernel
      /\ \/ t.panic = "balloc: out of blocks"
         \/ \E b \in (1..NBLOCK) \ s.used :
                 LET e == Ino(s.ic[i].type, s.ic[i].nlink, s.ic[i].ents, s.ic[i].blk \cup {b})
                 IN  e \in Inode /\ Writes(s, t, i, e, s.used \cup {b}, s.panic)
  BY <1>1, AppendIs, Zenon DEF Stays
<1>3. ASSUME NEW b \in (1..NBLOCK) \ s.used,
                 LET e == Ino(s.ic[i].type, s.ic[i].nlink, s.ic[i].ents, s.ic[i].blk \cup {b})
                 IN  e \in Inode /\ Writes(s, t, i, e, s.used \cup {b}, s.panic)
      PROVE  \E e \in Inode : /\ e.type = s.di[i].type /\ e.nlink = s.di[i].nlink
                                /\ e.ents = s.di[i].ents
                                /\ Becomes(t, With(s.di, i, e), s.ref, s.lock)
  <2> DEFINE e == Ino(s.ic[i].type, s.ic[i].nlink, s.ic[i].ents, s.ic[i].blk \cup {b})
             U == s.used \cup {b}
  <2>1. e \in Inode /\ Writes(s, t, i, e, U, s.panic)
    BY <1>3
  <2>3. e.type = s.di[i].type /\ e.nlink = s.di[i].nlink /\ e.ents = s.di[i].ents
          /\ e.blk = s.di[i].blk \cup {b}
    BY <1>1 DEF Ino
  <2> HIDE DEF e, t
  <2>4. /\ U = (s.used \ s.di[i].blk) \cup e.blk /\ e.blk \cap (s.used \ s.di[i].blk) = {}
          /\ U \in SUBSET (1..NBLOCK)
    BY <1>1, <2>3
  <2>5. e.type # "free" /\ e.type = s.di[i].type /\ (e.type # "dir" => e.ents = NoEnts)
    BY <1>1, <2>3
  <2> HIDE DEF U
  <2>6. Becomes(t, With(s.di, i, e), s.ref, s.lock)
    BY ONLY <2>1, <2>4, <2>5, Good(s), i \in Inums, s.lock[i] # None, GoodWrites
  <2> QED  BY <2>1, <2>3, <2>6
<1> HIDE DEF t
<1>4. t.panic = "balloc: out of blocks" \/
         \E e \in Inode : /\ e.type = s.di[i].type /\ e.nlink = s.di[i].nlink
                                /\ e.ents = s.di[i].ents
                                /\ Becomes(t, With(s.di, i, e), s.ref, s.lock)
  BY ONLY <1>2, <1>3, Zenon
<1> QED  BY <1>2, <1>4 DEF t

(* itrunc of a locked inode keeps the kernel good and leaves it empty. *)
LEMMA GoodItrunc ==
  ASSUME NEW s, Good(s), NEW i \in Inums, s.lock[i] # None
  PROVE  LET e == Ino(s.di[i].type, s.di[i].nlink, NoEnts, {})
         IN  e \in Inode /\ Becomes(itrunc(s, i), With(s.di, i, e), s.ref, s.lock)
<1> DEFINE e == Ino(s.di[i].type, s.di[i].nlink, NoEnts, {})
           t == itrunc(s, i)
           U == s.used \ s.di[i].blk
<1>1. /\ s \in Kernel /\ s.ic[i] = s.di[i] /\ s.di[i] \in Inode /\ s.di[i].type # "free"
      /\ s.di[i].blk \subseteq s.used /\ s.used \in SUBSET (1..NBLOCK)
  BY LockedIs
<1>2. e \in Inode /\ Writes(s, t, i, e, U, s.panic)
  <2>1. LET x == Ino(s.ic[i].type, s.ic[i].nlink, NoEnts, {})
        IN  x \in Inode /\ Writes(s, t, i, x, s.used \ s.ic[i].blk, s.panic)
    BY <1>1, ItruncIs, Zenon
  <2> QED  BY <1>1, <2>1
<1>3. e.type = s.di[i].type /\ e.ents = NoEnts /\ e.blk = {}
  BY DEF Ino
<1> HIDE DEF e, t
<1>4. /\ e.type # "free" /\ e.type = s.di[i].type /\ (e.type # "dir" => e.ents = NoEnts)
      /\ U = (s.used \ s.di[i].blk) \cup e.blk /\ e.blk \cap (s.used \ s.di[i].blk) = {}
           /\ U \in SUBSET (1..NBLOCK)
  BY <1>1, <1>3
<1> HIDE DEF U
<1>5. Becomes(t, With(s.di, i, e), s.ref, s.lock)
  BY ONLY <1>1, <1>2, <1>4, Good(s), i \in Inums, s.lock[i] # None, GoodWrites
<1> QED  BY <1>2, <1>5 DEF e, t

(* iput takes the lock of an inode that is loaded. *)
LEMMA GoodTake ==
  ASSUME NEW s, Good(s), NEW i \in Inums, NEW p \in Procs, s.valid[i], s.ref[i] > 0
  PROVE  Becomes([s EXCEPT !.lock[i] = p], s.di, s.ref, With(s.lock, i, p))
<1> DEFINE t == [s EXCEPT !.lock[i] = p]
           h == With(s.lock, i, p)
<1>1. s \in Kernel /\ Sound(s) /\ s.panic = "no"
  BY DEF Good
<1>2. t = [s EXCEPT !.lock = h]
  BY DEF With
<1>3. s = Kern(s.di, s.ic, s.used, s.ref, s.valid, s.lock, s.panic)
  BY <1>1, KernIs
<1>4. /\ s.di \in [Inums -> Inode] /\ s.ic \in [Inums -> Inode] /\ s.used \in SUBSET (1..NBLOCK)
      /\ s.ref \in [Inums -> Nat] /\ s.valid \in [Inums -> BOOLEAN]
      /\ s.lock \in [Inums -> Procs \cup {None}] /\ s.panic \in Panics
  BY <1>1, KernIs
<1>5. h \in [Inums -> Procs \cup {None}] /\ \A j \in Inums : j # i => h[j] = s.lock[j]
  BY <1>4 DEF With
<1> HIDE DEF t, h
<1>6. t = Kern(s.di, s.ic, s.used, s.ref, s.valid, h, s.panic)
  BY ONLY <1>2, <1>3 DEF Kern
<1>7. t \in Kernel /\ t.di = s.di /\ t.ic = s.ic /\ t.used = s.used /\ t.ref = s.ref /\ t.valid = s.valid
        /\ t.lock = h /\ t.panic = s.panic
  BY ONLY <1>4, <1>5, <1>6 DEF Kern, Kernel
<1>8. WriteThrough(t)
  BY <1>1, <1>7 DEF Sound, WriteThrough
<1>9. BlocksExact(t)
  BY <1>1, <1>7, BlocksSame DEF Sound
<1>10. InodesUsed(t)
  BY <1>1, <1>5, <1>7 DEF Sound, InodesUsed
<1> QED  BY <1>1, <1>7, <1>8, <1>9, <1>10 DEF Becomes, Good, Sound, t, h

(* iput drops a reference. *)
LEMMA GoodDrop ==
  ASSUME NEW s, Good(s), NEW i \in Inums, s.ref[i] > 0, s.lock[i] # None => s.ref[i] > 1
  PROVE  Becomes([s EXCEPT !.ref[i] = @ - 1], s.di, With(s.ref, i, s.ref[i] - 1), s.lock)
<1> DEFINE t == [s EXCEPT !.ref[i] = @ - 1]
           h == With(s.ref, i, s.ref[i] - 1)
<1>1. s \in Kernel /\ Sound(s) /\ s.panic = "no"
  BY DEF Good
<1>2. t = [s EXCEPT !.ref = h]
  BY DEF With
<1>3. s = Kern(s.di, s.ic, s.used, s.ref, s.valid, s.lock, s.panic)
  BY <1>1, KernIs
<1>4. /\ s.di \in [Inums -> Inode] /\ s.ic \in [Inums -> Inode] /\ s.used \in SUBSET (1..NBLOCK)
      /\ s.ref \in [Inums -> Nat] /\ s.valid \in [Inums -> BOOLEAN]
      /\ s.lock \in [Inums -> Procs \cup {None}] /\ s.panic \in Panics
  BY <1>1, KernIs
<1>5. h \in [Inums -> Nat] /\ \A j \in Inums : /\ h[j] > 0 => s.ref[j] > 0
                                               /\ s.ref[j] = 0 => h[j] = 0
                                               /\ s.lock[j] # None /\ s.ref[j] > 0 => h[j] > 0
  BY <1>4 DEF With
<1> HIDE DEF t, h
<1>6. t = Kern(s.di, s.ic, s.used, h, s.valid, s.lock, s.panic)
  BY ONLY <1>2, <1>3 DEF Kern
<1>7. t \in Kernel /\ t.di = s.di /\ t.ic = s.ic /\ t.used = s.used /\ t.ref = h /\ t.valid = s.valid
        /\ t.lock = s.lock /\ t.panic = s.panic
  BY ONLY <1>4, <1>5, <1>6 DEF Kern, Kernel
<1>8. WriteThrough(t)
  BY <1>1, <1>5, <1>7 DEF Sound, WriteThrough
<1>9. BlocksExact(t)
  BY <1>1, <1>7, BlocksSame DEF Sound
<1>10. InodesUsed(t)
  BY <1>1, <1>5, <1>7 DEF Sound, InodesUsed
<1> QED  BY <1>1, <1>7, <1>8, <1>9, <1>10 DEF Becomes, Good, Sound, t, h

(* iput frees a truncated inode, and unlocks it. *)
Freed(s, i) == iunlock([iupdate([s EXCEPT !.ic[i].type = "free"], i) EXCEPT !.valid[i] = FALSE], i)

(* The free of an empty inode without links keeps the kernel good. *)
LEMMA GoodFree ==
  ASSUME NEW s, Good(s), NEW i \in Inums, s.lock[i] # None,
         i # Root, s.di[i].nlink = 0, s.di[i].blk = {}, s.di[i].ents = NoEnts
  PROVE  Becomes(Freed(s, i), With(s.di, i, Fresh("free")), s.ref, With(s.lock, i, None))
<1> DEFINE e == Fresh("free")
           y == [s.ic[i] EXCEPT !.type = "free"]
           u == iupdate([s EXCEPT !.ic[i] = y], i)
           r == [u EXCEPT !.valid[i] = FALSE]
           t == iunlock(r, i)
           f == With(s.di, i, e)
           g == With(s.ic, i, e)
           v == With(s.valid, i, FALSE)
           h == With(s.lock, i, None)
<1>1. s \in Kernel /\ Sound(s) /\ s.panic = "no"
  BY DEF Good
<1>2. t = Freed(s, i)
  BY DEF Freed
<1>3. s.ic[i] = s.di[i] /\ s.di[i] \in Inode
  BY LockedIs
<1>4. y = e /\ e \in Inode
  <2>1. "free" \in Types
    BY DEF Types
  <2>2. y = Ino("free", s.ic[i].nlink, s.ic[i].ents, s.ic[i].blk)
    BY <1>3, InodeWith
  <2> QED  BY <1>3, <2>1, <2>2, FreshIs
<1>5. /\ s.di \in [Inums -> Inode] /\ s.ic \in [Inums -> Inode] /\ s.used \in SUBSET (1..NBLOCK)
      /\ s.ref \in [Inums -> Nat] /\ s.valid \in [Inums -> BOOLEAN]
      /\ s.lock \in [Inums -> Procs \cup {None}] /\ s.panic \in Panics
  BY <1>1, KernIs
<1>6. /\ f \in [Inums -> Inode] /\ g \in [Inums -> Inode] /\ v \in [Inums -> BOOLEAN]
        /\ h \in [Inums -> Procs \cup {None}]
      /\ f[i] = e /\ g[i] = e /\ v[i] = FALSE /\ h[i] = None
      /\ \A j \in Inums : j # i => f[j] = s.di[j] /\ g[j] = s.ic[j] /\ v[j] = s.valid[j]
           /\ h[j] = s.lock[j]
  <2> HIDE DEF e
  <2> QED  BY <1>4, <1>5 DEF With
<1> HIDE DEF e, y
<1>7. u = Kern(f, g, s.used, s.ref, s.valid, s.lock, s.panic)
  BY <1>1, <1>4, Updates
<1> HIDE DEF u, f, g
<1>8. u.valid = s.valid
  BY ONLY <1>7 DEF Kern
<1>9. r = [u EXCEPT !.valid = v]
  BY <1>8 DEF With
<1> HIDE DEF r, v
<1>10. r = Kern(f, g, s.used, s.ref, v, s.lock, s.panic)
  BY ONLY <1>7, <1>9 DEF Kern
<1>11. r \in Kernel /\ r.di = f /\ r.ic = g /\ r.used = s.used /\ r.ref = s.ref /\ r.valid = v
         /\ r.lock = s.lock /\ r.panic = s.panic
  BY ONLY <1>5, <1>6, <1>10 DEF Kern, Kernel
<1>12. t \in Kernel /\ t = Kern(f, g, s.used, s.ref, v, h, s.panic)
  BY <1>11, IunlockIs DEF Stays
<1> HIDE DEF t, h
<1>13. t.di = f /\ t.ic = g /\ t.used = s.used /\ t.ref = s.ref /\ t.valid = v /\ t.lock = h
         /\ t.panic = s.panic
  BY ONLY <1>12 DEF Kern
<1>14. e.type = "free" /\ e.blk = {} /\ e.ents = NoEnts
  BY FreshIs DEF e, Types
<1>15. WriteThrough(t)
  BY <1>1, <1>6, <1>13 DEF Sound, WriteThrough
<1>16. BlocksExact(t)
  <2>1. \A j \in Inums : f[j].blk = s.di[j].blk
    BY <1>6, <1>14
  <2>2. s.used = UNION {s.di[j].blk : j \in Inums} /\ \A j, l \in Inums : j # l
          => s.di[j].blk \cap s.di[l].blk = {}
    BY <1>1 DEF Sound, BlocksExact
  <2>3. {f[j].blk : j \in Inums} = {s.di[j].blk : j \in Inums}
    BY <2>1
  <2>4. s.used = UNION {f[j].blk : j \in Inums}
    BY <2>2, <2>3
  <2>5. \A j, l \in Inums : j # l => f[j].blk \cap f[l].blk = {}
    BY <2>1, <2>2
  <2> QED  BY <1>13, <2>4, <2>5 DEF BlocksExact
<1>17. InodesUsed(t)
  BY <1>1, <1>6, <1>13, <1>14 DEF Sound, InodesUsed, e
<1>18. t.di[Root].type = "dir"
  BY <1>1, <1>6, <1>13, Numbers DEF Sound
<1> QED  BY <1>1, <1>2, <1>12, <1>13, <1>15, <1>16, <1>17, <1>18 DEF Becomes, Good, Sound, t, f, h,
                e

(* The inode that ialloc takes is free. *)
LEMMA FirstFreeInode ==
  ASSUME NEW s \in Kernel, FreeInodes(s) # {}
  PROVE  Min(FreeInodes(s)) \in Inums /\ s.di[Min(FreeInodes(s))].type = "free"
<1>1. FreeInodes(s) \in SUBSET Inums
  BY DEF FreeInodes
<1>2. FreeInodes(s) \in SUBSET Nat
  BY <1>1, Numbers
<1>3. Min(FreeInodes(s)) \in FreeInodes(s)
  BY <1>2, MinIn
<1> QED  BY <1>3 DEF FreeInodes

(* ialloc makes the first free inode a fresh one with one reference more,  *)
(* or panics.                                                              *)
LEMMA GoodIalloc ==
  ASSUME NEW s, Good(s), NEW type \in {"file", "dir", "dev"}
  PROVE  LET t == ialloc(s, type)
             i == Min(FreeInodes(s))
         IN  /\ t \in Kernel
             /\ FreeInodes(s) = {} => t.panic = "ialloc: no inodes"
             /\ FreeInodes(s) # {} =>
                  \/ t.panic = "iget: no inodes"
                  \/ Becomes(t, With(s.di, i, Fresh(type)), With(s.ref, i, s.ref[i] + 1), s.lock)
<1>1. s \in Kernel /\ Sound(s) /\ s.panic = "no"
  BY DEF Good
<1>2. CASE FreeInodes(s) = {}
  <2>1. "ialloc: no inodes" \in Panics
    BY DEF Panics
  <2>2. ialloc(s, type) = Panic(s, "ialloc: no inodes")
    BY <1>2 DEF ialloc
  <2> QED  BY <1>1, <1>2, <2>1, <2>2, PanicIs
<1>3. CASE FreeInodes(s) # {}
  <2> DEFINE i == Min(FreeInodes(s))
             e == Fresh(type)
             u == [s EXCEPT !.di[i] = e]
             f == With(s.di, i, e)
  <2>1. i \in Inums /\ s.di[i].type = "free"
    BY <1>1, <1>3, FirstFreeInode
  <2>2. ialloc(s, type) = iget(u, i)
    BY <1>3 DEF ialloc
  <2>3. type \in Types /\ type # "free"
    BY DEF Types
  <2> HIDE DEF i
  <2>4. e \in Inode /\ e.type = type /\ e.ents = NoEnts /\ e.blk = {}
    BY <2>3, FreshIs
  <2> HIDE DEF e
  <2>5. u = [s EXCEPT !.di = f]
    BY DEF With
  <2>6. s = Kern(s.di, s.ic, s.used, s.ref, s.valid, s.lock, s.panic)
    BY <1>1, KernIs
  <2>7. /\ s.di \in [Inums -> Inode] /\ s.ic \in [Inums -> Inode] /\ s.used \in SUBSET (1..NBLOCK)
        /\ s.ref \in [Inums -> Nat] /\ s.valid \in [Inums -> BOOLEAN]
        /\ s.lock \in [Inums -> Procs \cup {None}] /\ s.panic \in Panics
    BY <1>1, KernIs
  <2>8. f \in [Inums -> Inode] /\ f[i] = e /\ \A j \in Inums : j # i => f[j] = s.di[j]
    BY <2>1, <2>4, <2>7 DEF With
  <2> HIDE DEF u, f
  <2>9. u = Kern(f, s.ic, s.used, s.ref, s.valid, s.lock, s.panic)
    BY ONLY <2>5, <2>6 DEF Kern
  <2>10. u \in Kernel /\ u.di = f /\ u.ic = s.ic /\ u.used = s.used /\ u.ref = s.ref /\ u.valid = s.valid
           /\ u.lock = s.lock /\ u.panic = s.panic
    BY ONLY <2>7, <2>8, <2>9 DEF Kern, Kernel
  <2>11. s.di[i] = Fresh("free") /\ (s.valid[i] => s.ref[i] = 0)
    BY <1>1, <2>1 DEF Sound, InodesUsed
  <2>12. s.lock[i] = None
    <3>1. s.lock[i] # None => s.valid[i] /\ s.ref[i] > 0
      BY <1>1, <2>1 DEF Sound, InodesUsed
    <3> QED  BY <2>1, <2>7, <2>11, <3>1
  <2>13. WriteThrough(u)
    <3>1. ASSUME NEW j \in Inums, u.valid[j], u.ref[j] > 0 PROVE u.ic[j] = u.di[j]
      <4>1. j # i
        BY <2>1, <2>7, <2>10, <2>11, <3>1
      <4>2. s.ic[j] = s.di[j]
        BY <1>1, <2>10, <3>1 DEF Sound, WriteThrough
      <4> QED  BY <2>8, <2>10, <4>1, <4>2
    <3> QED  BY <3>1 DEF WriteThrough
  <2>14. BlocksExact(u)
    <3>0. Fresh("free").blk = {}
      BY FreshIs DEF Types
    <3>1. \A j \in Inums : f[j].blk = s.di[j].blk
      BY <2>4, <2>8, <2>11, <3>0
    <3>2. s.used = UNION {s.di[j].blk : j \in Inums} /\ \A j, l \in Inums : j # l
            => s.di[j].blk \cap s.di[l].blk = {}
      BY <1>1 DEF Sound, BlocksExact
    <3>3. {f[j].blk : j \in Inums} = {s.di[j].blk : j \in Inums}
      BY <3>1
    <3>4. s.used = UNION {f[j].blk : j \in Inums}
      BY <3>2, <3>3
    <3>5. \A j, l \in Inums : j # l => f[j].blk \cap f[l].blk = {}
      BY <3>1, <3>2
    <3> QED  BY <2>10, <3>4, <3>5 DEF BlocksExact
  <2>15. InodesUsed(u)
    BY <1>1, <2>3, <2>4, <2>8, <2>10, <2>12 DEF Sound, InodesUsed
  <2>16. Good(u)
    <3>1. u.di[Root].type = "dir"
      BY <1>1, <2>1, <2>8, <2>10, Numbers DEF Sound
    <3> QED  BY <1>1, <2>10, <2>13, <2>14, <2>15, <3>1 DEF Good, Sound
  <2>17. /\ iget(u, i) \in Kernel
         /\ \/ iget(u, i).panic = "iget: no inodes"
            \/ Becomes(iget(u, i), u.di, With(u.ref, i, u.ref[i] + 1), u.lock)
    BY <2>1, <2>16, GoodIget
  <2>18. /\ ialloc(s, type) \in Kernel
         /\ \/ ialloc(s, type).panic = "iget: no inodes"
            \/ Becomes(ialloc(s, type), f, With(s.ref, i, s.ref[i] + 1), s.lock)
    BY <2>2, <2>10, <2>17
  <2> QED  BY <1>3, <2>18 DEF f, e, i
<1> QED  BY <1>2, <1>3

(* One element more. *)
LEMMA Grown ==
  ASSUME NEW S, NEW T, NEW x, IsFiniteSet(S), x \notin S, T = S \cup {x}
  PROVE  IsFiniteSet(T) /\ Cardinality(T) = Cardinality(S) + 1
BY FS_AddElement

(* One element less. *)
LEMMA Shrunk ==
  ASSUME NEW S, NEW T, NEW x, IsFiniteSet(S), x \in S, T = S \ {x}
  PROVE  Cardinality(T) = Cardinality(S) - 1
BY FS_RemoveElement

(* Cardinality of a finite set and of its subsets. *)
LEMMA Size ==
  ASSUME NEW S, IsFiniteSet(S)
  PROVE  /\ Cardinality(S) \in Nat /\ (S = {} <=> Cardinality(S) = 0)
         /\ \A x \in S : Cardinality(S) >= 1
         /\ \A T \in SUBSET S : IsFiniteSet(T) /\ Cardinality(T) <= Cardinality(S)
<1>1. Cardinality(S) \in Nat /\ (S = {} <=> Cardinality(S) = 0)
  BY FS_CardinalityType, FS_EmptySet
<1>2. \A x \in S : Cardinality(S) >= 1
  BY <1>1
<1>3. \A T \in SUBSET S : IsFiniteSet(T) /\ Cardinality(T) <= Cardinality(S)
  BY FS_Subset
<1> QED  BY <1>1, <1>2, <1>3

(* The sets that are counted are finite. *)
LEMMA InumsFinite == IsFiniteSet(Inums) /\ IsFiniteSet(Inums \X Names) /\ IsFiniteSet(Names)
  /\ IsFiniteSet(Procs)
<1>1. 1 \in Int /\ NINODES \in Int /\ IsFiniteSet(Names) /\ IsFiniteSet(Procs)
  BY FsAssumption
<1>2. IsFiniteSet(Inums)
  BY <1>1, FS_Interval, Zenon DEF Inums
<1> QED  BY <1>1, <1>2, FS_Product

(* 1 if b holds *)
One(b) == IF b THEN 1 ELSE 0

(* The values of One. *)
LEMMA OneIs == ASSUME NEW b \in BOOLEAN PROVE One(b) \in Nat /\ (b => One(b) = 1) /\ (~b => One(b) = 0)
BY DEF One

(* An element that is added or not. *)
LEMMA GrownIf ==
  ASSUME NEW S, NEW T, NEW x, NEW b \in BOOLEAN, IsFiniteSet(S), x \notin S,
         b => T = S \cup {x}, ~b => T = S
  PROVE  IsFiniteSet(T) /\ Cardinality(T) = Cardinality(S) + One(b)
<1>1. CASE b
  BY <1>1, Grown DEF One
<1>2. CASE ~b
  <2>1. Cardinality(S) \in Nat
    BY FS_CardinalityType
  <2> QED  BY <1>2, <2>1 DEF One
<1> QED  BY <1>1, <1>2

(* There are six kinds of pointers. *)
LEMMA KindsFinite == IsFiniteSet(Kinds)
<1>1. IsFiniteSet({}) /\ {} \cup {"cwd"} = {"cwd"} /\ {"cwd"} \cup {"fd"} = {"cwd", "fd"}
      /\ {"cwd", "fd"} \cup {"ip"} = {"cwd", "fd", "ip"}
           /\ {"cwd", "fd", "ip"} \cup {"held"} = {"cwd", "fd", "ip", "held"}
      /\ {"cwd", "fd", "ip", "held"} \cup {"put1"} = {"cwd", "fd", "ip", "held", "put1"}
      /\ {"cwd", "fd", "ip", "held", "put1"} \cup {"put2"} = Kinds
  BY FS_EmptySet DEF Kinds
<1>2. IsFiniteSet({"cwd", "fd"})
  <2>1. IsFiniteSet({"cwd"})
    BY <1>1, FS_AddElement
  <2> QED  BY <1>1, <2>1, FS_AddElement
<1>3. IsFiniteSet({"cwd", "fd", "ip"})
  BY <1>1, <1>2, FS_AddElement
<1>4. IsFiniteSet({"cwd", "fd", "ip", "held"})
  BY <1>1, <1>3, FS_AddElement
<1>5. IsFiniteSet({"cwd", "fd", "ip", "held", "put1"})
  BY <1>1, <1>4, FS_AddElement
<1> QED  BY <1>1, <1>5, FS_AddElement

(* The pointers to i, those of p told apart. *)
To(f, i) == {x \in Procs \X Kinds : f[x] = i}
(* the pointers to i of processes other than p *)
NotOf(f, p, i) == {x \in Procs \X Kinds : x[1] # p /\ f[x] = i}
(* the number of pointers of p to i *)
HitsOf(f, p, i) ==
  One(f[<<p, "cwd">>] = i) + One(f[<<p, "fd">>] = i) + One(f[<<p, "ip">>] = i)
    + One(f[<<p, "held">>] = i) + One(f[<<p, "put1">>] = i) + One(f[<<p, "put2">>] = i)

(* The pointers to i are those of p and those of the others. *)
LEMMA CountFor ==
  ASSUME NEW f, NEW p \in Procs, NEW i
  PROVE  /\ Cardinality(NotOf(f, p, i)) \in Nat /\ HitsOf(f, p, i) \in Nat
         /\ Cardinality(To(f, i)) = Cardinality(NotOf(f, p, i)) + HitsOf(f, p, i)
<1> DEFINE S == {x \in Procs \X Kinds : f[x] = i}
           Of(K) == {x \in Procs \X Kinds : f[x] = i /\ (x[1] # p \/ x[2] \in K)}
           K1 == {"cwd"}
           K2 == {"cwd", "fd"}
           K3 == {"cwd", "fd", "ip"}
           K4 == {"cwd", "fd", "ip", "held"}
           K5 == {"cwd", "fd", "ip", "held", "put1"}
           A == Of({})
           B1 == Of(K1)
           B2 == Of(K2)
           B3 == Of(K3)
           B4 == Of(K4)
           B5 == Of(K5)
           b1 == f[<<p, "cwd">>] = i
           b2 == f[<<p, "fd">>] = i
           b3 == f[<<p, "ip">>] = i
           b4 == f[<<p, "held">>] = i
           b5 == f[<<p, "put1">>] = i
           b6 == f[<<p, "put2">>] = i
<1>1. IsFiniteSet(Procs \X Kinds)
  BY KindsFinite, InumsFinite, FS_Product
<1>2. IsFiniteSet(S) /\ IsFiniteSet(A)
  BY <1>1, FS_Subset
<1>3. A = {x \in Procs \X Kinds : x[1] # p /\ f[x] = i}
  OBVIOUS
<1>4. S = Of(Kinds)
  BY DEF Kinds
<1>5. ASSUME NEW K, NEW L, NEW x \in Kinds, x \notin K, L = K \cup {x}
      PROVE  /\ <<p, x>> \notin Of(K)
             /\ f[<<p, x>>] = i => Of(L) = Of(K) \cup {<<p, x>>}
             /\ f[<<p, x>>] # i => Of(L) = Of(K)
  BY <1>5
<1>6. <<p, "cwd">> \notin A /\ (b1 => B1 = A \cup {<<p, "cwd">>}) /\ (~b1 => B1 = A)
  <2>1. "cwd" \in Kinds /\ "cwd" \notin {} /\ K1 = {} \cup {"cwd"}
    BY DEF Kinds
  <2> HIDE DEF Of, K1, K2, K3, K4, K5, S
  <2> QED  BY ONLY <1>4, <1>5, <2>1
<1>7. <<p, "fd">> \notin B1 /\ (b2 => B2 = B1 \cup {<<p, "fd">>}) /\ (~b2 => B2 = B1)
  <2>1. "fd" \in Kinds /\ "fd" \notin K1 /\ K2 = K1 \cup {"fd"}
    BY DEF Kinds
  <2> HIDE DEF Of, K1, K2, K3, K4, K5, S
  <2> QED  BY ONLY <1>4, <1>5, <2>1
<1>8. <<p, "ip">> \notin B2 /\ (b3 => B3 = B2 \cup {<<p, "ip">>}) /\ (~b3 => B3 = B2)
  <2>1. "ip" \in Kinds /\ "ip" \notin K2 /\ K3 = K2 \cup {"ip"}
    BY DEF Kinds
  <2> HIDE DEF Of, K1, K2, K3, K4, K5, S
  <2> QED  BY ONLY <1>4, <1>5, <2>1
<1>9. <<p, "held">> \notin B3 /\ (b4 => B4 = B3 \cup {<<p, "held">>}) /\ (~b4 => B4 = B3)
  <2>1. "held" \in Kinds /\ "held" \notin K3 /\ K4 = K3 \cup {"held"}
    BY DEF Kinds
  <2> HIDE DEF Of, K1, K2, K3, K4, K5, S
  <2> QED  BY ONLY <1>4, <1>5, <2>1
<1>10. <<p, "put1">> \notin B4 /\ (b5 => B5 = B4 \cup {<<p, "put1">>}) /\ (~b5 => B5 = B4)
  <2>1. "put1" \in Kinds /\ "put1" \notin K4 /\ K5 = K4 \cup {"put1"}
    BY DEF Kinds
  <2> HIDE DEF Of, K1, K2, K3, K4, K5, S
  <2> QED  BY ONLY <1>4, <1>5, <2>1
<1>11. <<p, "put2">> \notin B5 /\ (b6 => S = B5 \cup {<<p, "put2">>}) /\ (~b6 => S = B5)
  <2>1. "put2" \in Kinds /\ "put2" \notin K5 /\ Kinds = K5 \cup {"put2"}
    BY DEF Kinds
  <2> HIDE DEF Of, K1, K2, K3, K4, K5, S
  <2> QED  BY ONLY <1>4, <1>5, <2>1
<1>12. b1 \in BOOLEAN /\ b2 \in BOOLEAN /\ b3 \in BOOLEAN /\ b4 \in BOOLEAN /\ b5 \in BOOLEAN
         /\ b6 \in BOOLEAN
  OBVIOUS
<1> HIDE DEF S, A, B1, B2, B3, B4, B5, b1, b2, b3, b4, b5, b6
<1>13. IsFiniteSet(B1) /\ Cardinality(B1) = Cardinality(A) + One(b1)
  BY ONLY <1>2, <1>6, <1>12, GrownIf
<1>14. IsFiniteSet(B2) /\ Cardinality(B2) = Cardinality(B1) + One(b2)
  BY ONLY <1>7, <1>12, <1>13, GrownIf
<1>15. IsFiniteSet(B3) /\ Cardinality(B3) = Cardinality(B2) + One(b3)
  BY ONLY <1>8, <1>12, <1>14, GrownIf
<1>16. IsFiniteSet(B4) /\ Cardinality(B4) = Cardinality(B3) + One(b4)
  BY ONLY <1>9, <1>12, <1>15, GrownIf
<1>17. IsFiniteSet(B5) /\ Cardinality(B5) = Cardinality(B4) + One(b5)
  BY ONLY <1>10, <1>12, <1>16, GrownIf
<1>18. Cardinality(S) = Cardinality(B5) + One(b6)
  BY ONLY <1>11, <1>12, <1>17, GrownIf
<1>19. Cardinality(A) \in Nat
  BY <1>2, FS_CardinalityType
<1>20. One(b1) \in Nat /\ One(b2) \in Nat /\ One(b3) \in Nat /\ One(b4) \in Nat /\ One(b5) \in Nat
         /\ One(b6) \in Nat
  BY <1>12, OneIs
<1>21. Cardinality(S) = Cardinality(A) + One(b1) + One(b2) + One(b3) + One(b4) + One(b5) + One(b6)
  BY ONLY <1>13, <1>14, <1>15, <1>16, <1>17, <1>18, <1>19, <1>20
<1> DEFINE h == One(b1) + One(b2) + One(b3) + One(b4) + One(b5) + One(b6)
<1>22. h \in Nat /\ Cardinality(S) = Cardinality(A) + h
  BY ONLY <1>19, <1>20, <1>21
<1>23. h = HitsOf(f, p, i)
  BY DEF HitsOf, b1, b2, b3, b4, b5, b6
<1>24. S = To(f, i) /\ A = NotOf(f, p, i)
  BY <1>3 DEF To, NotOf, S
<1> QED  BY <1>19, <1>22, <1>23, <1>24

(* IInv of a kernel that has not panicked *)
Core ==
  /\ TypeOK /\ k.panic = "no" /\ RefsExact /\ Sound(k) /\ LinksEnough /\ Locks /\ SurePointers
  /\ \A p \in Procs : Place(p) /\ Knows(p)
  /\ ~Climbs => DotsRight /\ NoCycle

(* Core is IInv without a panic. *)
LEMMA CoreIs == (IInv /\ k.panic = "no") <=> Core
BY DEF IInv, Core

(* The kernel part of Core. *)
LEMMA CoreGood == ASSUME Core PROVE Good(k)
BY DEF Core, Good, TypeOK

(* Only p moves. *)
Others(p) ==
  \A q \in Procs : q # p => /\ pc'[q] = pc[q] /\ c'[q] = c[q] /\ puts'[q] = puts[q] /\ stage'[q] = stage[q]
                            /\ cwd'[q] = cwd[q] /\ fd'[q] = fd[q]

(* Points by kind. *)
LEMMA PointsAre ==
  ASSUME NEW p
  PROVE  /\ Points(p, "cwd") = cwd[p] /\ Points(p, "fd") = fd[p] /\ Points(p, "ip") = c[p].ip
         /\ Points(p, "held") = c[p].held /\ Points(p, "put1") = Put(puts[p], 1)
         /\ Points(p, "put2") = Put(puts[p], 2)
BY DEF Points

(* Points by kind, after a step. *)
LEMMA PointsAreNext ==
  ASSUME NEW p
  PROVE  /\ Points(p, "cwd")' = cwd'[p] /\ Points(p, "fd")' = fd'[p] /\ Points(p, "ip")' = c'[p].ip
         /\ Points(p, "held")' = c'[p].held /\ Points(p, "put1")' = Put(puts'[p], 1)
         /\ Points(p, "put2")' = Put(puts'[p], 2)
BY DEF Points

(* The first two of a sequence of inodes to put. *)
LEMMA PutIs ==
  /\ \A j \in Nat : Put(<<>>, j) = 0 \/ j = 0
  /\ Put(<<>>, 1) = 0 /\ Put(<<>>, 2) = 0
  /\ \A a : Put(<<a>>, 1) = a /\ Put(<<a>>, 2) = 0
  /\ \A a, b : Put(<<a, b>>, 1) = a /\ Put(<<a, b>>, 2) = b
BY DEF Put

(* Put of a sequence and of its tail. *)
LEMMA PutHead ==
  ASSUME NEW q \in Seq(Inums), q # <<>>
  PROVE  /\ Head(q) \in Inums /\ Put(q, 1) = Head(q) /\ Tail(q) \in Seq(Inums)
         /\ Len(q) <= 2 => Put(Tail(q), 1) = Put(q, 2) /\ Put(Tail(q), 2) = 0 /\ Len(Tail(q)) <= 2
BY DEF Put

(* Put gives an inode or 0. *)
LEMMA PutIn ==
  ASSUME NEW q \in Seq(Inums)
  PROVE  Put(q, 1) \in 0..NINODES /\ Put(q, 2) \in 0..NINODES /\ (Put(q, 1) = 0 <=> q = <<>>)
<1>1. ASSUME NEW j \in {1, 2}, j <= Len(q) PROVE q[j] \in Inums
  BY <1>1
<1>2. 0..NINODES = Inums \cup {0} /\ 0 \notin Inums
  BY Numbers
<1>3. q = <<>> <=> ~(1 <= Len(q))
  OBVIOUS
<1> QED  BY <1>1, <1>2, <1>3 DEF Put

(* the number of pointers of p to i, in the present state *)
Hits(p, i) ==
  One(cwd[p] = i) + One(fd[p] = i) + One(c[p].ip = i) + One(c[p].held = i)
    + One(Put(puts[p], 1) = i) + One(Put(puts[p], 2) = i)

(* RefsExact after a step of p: what changes of a count is what changes of *)
(* the pointers of p.                                                      *)
LEMMA RefsStep ==
  ASSUME RefsExact, NEW p \in Procs, Others(p),
         k.ref \in [Inums -> Nat], k'.ref \in [Inums -> Nat],
         \A i \in Inums : k'.ref[i] + Hits(p, i) = k.ref[i] + Hits(p, i)'
  PROVE  RefsExact'
<1> SUFFICES ASSUME NEW i \in Inums
             PROVE  k'.ref[i] = Cardinality({x \in Procs \X Kinds : Points(x[1], x[2])' = i})
  BY DEF RefsExact
<1> DEFINE f == [x \in Procs \X Kinds |-> Points(x[1], x[2])]
           g == [x \in Procs \X Kinds |-> Points(x[1], x[2])']
           S == To(f, i)
           T == To(g, i)
           A == NotOf(f, p, i)
<1>1. S = {x \in Procs \X Kinds : Points(x[1], x[2]) = i}
        /\ T = {x \in Procs \X Kinds : Points(x[1], x[2])' = i}
  BY DEF To
<1>2. ASSUME NEW q \in Procs, NEW x \in Kinds, q # p PROVE Points(q, x)' = Points(q, x)
  BY <1>2 DEF Others, Points, Kinds
<1>3. A = NotOf(g, p, i)
  <2>1. ASSUME NEW y \in Procs \X Kinds, y[1] # p PROVE f[y] = g[y]
    BY <1>2, <2>1
  <2> HIDE DEF f, g
  <2> QED  BY <2>1 DEF NotOf
<1>4. /\ f[<<p, "cwd">>] = cwd[p] /\ f[<<p, "fd">>] = fd[p] /\ f[<<p, "ip">>] = c[p].ip
      /\ f[<<p, "held">>] = c[p].held /\ f[<<p, "put1">>] = Put(puts[p], 1)
           /\ f[<<p, "put2">>] = Put(puts[p], 2)
  BY PointsAre DEF Kinds
<1>5. /\ g[<<p, "cwd">>] = cwd'[p] /\ g[<<p, "fd">>] = fd'[p] /\ g[<<p, "ip">>] = c'[p].ip
      /\ g[<<p, "held">>] = c'[p].held /\ g[<<p, "put1">>] = Put(puts'[p], 1)
           /\ g[<<p, "put2">>] = Put(puts'[p], 2)
  BY PointsAreNext DEF Kinds
<1> HIDE DEF f, g
<1>6. HitsOf(f, p, i) = Hits(p, i) /\ HitsOf(g, p, i) = Hits(p, i)'
  BY <1>4, <1>5 DEF Hits, HitsOf
<1>7. Cardinality(A) \in Nat /\ HitsOf(f, p, i) \in Nat
        /\ Cardinality(S) = Cardinality(A) + HitsOf(f, p, i)
  BY CountFor
<1>8. HitsOf(g, p, i) \in Nat /\ Cardinality(T) = Cardinality(A) + HitsOf(g, p, i)
  BY <1>3, CountFor
<1> DEFINE a == Cardinality(A)
<1>9. Cardinality(S) = a + Hits(p, i) /\ Cardinality(T) = a + Hits(p, i)' /\ a \in Nat
        /\ Hits(p, i) \in Nat /\ Hits(p, i)' \in Nat
  BY <1>6, <1>7, <1>8
<1>10. k.ref[i] = Cardinality(S) /\ k'.ref[i] + Hits(p, i) = k.ref[i] + Hits(p, i)' /\ k.ref[i] \in Nat
         /\ k'.ref[i] \in Nat
  BY <1>1 DEF RefsExact
<1> QED
  <2>1. k'.ref[i] = Cardinality(T)
    BY ONLY <1>9, <1>10
  <2> QED  BY <1>1, <2>1

(* A pointer is counted; two are counted twice. *)
LEMMA HasRef ==
  ASSUME RefsExact, NEW p \in Procs, NEW x \in Kinds, NEW i \in Inums, Points(p, x) = i,
         k.ref \in [Inums -> Nat]
  PROVE  /\ k.ref[i] > 0
         /\ \A q \in Procs, y \in Kinds : <<q, y>> # <<p, x>> /\ Points(q, y) = i => k.ref[i] > 1
<1> DEFINE S == {z \in Procs \X Kinds : Points(z[1], z[2]) = i}
<1>1. k.ref[i] = Cardinality(S)
  BY DEF RefsExact
<1>2. IsFiniteSet(S)
  BY KindsFinite, InumsFinite, FS_Product, FS_Subset
<1>3. <<p, x>> \in S
  OBVIOUS
<1>4. ASSUME NEW q \in Procs, NEW y \in Kinds, <<q, y>> # <<p, x>>, Points(q, y) = i
      PROVE  k.ref[i] > 1
  <2>1. <<q, y>> \in S \ {<<p, x>>}
    BY <1>4
  <2> HIDE DEF S
  <2>2. IsFiniteSet(S \ {<<p, x>>}) /\ Cardinality(S \ {<<p, x>>}) = Cardinality(S) - 1
    BY <1>2, <1>3, FS_RemoveElement
  <2>3. Cardinality(S \ {<<p, x>>}) >= 1
    BY <2>1, <2>2, Size
  <2>4. Cardinality(S) \in Nat
    BY <1>2, Size
  <2> QED  BY <1>1, <2>2, <2>3, <2>4
<1> HIDE DEF S
<1>5. Cardinality(S) >= 1 /\ Cardinality(S) \in Nat
  BY <1>2, <1>3, Size
<1> QED  BY <1>1, <1>4, <1>5

(* Locks after a step of p, which takes only locks that are free and gives *)
(* back only its own.                                                      *)
LEMMA LocksStep ==
  ASSUME Locks, NEW p \in Procs, Others(p),
         \A i \in Inums : /\ k'.lock[i] = p <=> i \in Locked(p)'
                          /\ k'.lock[i] # k.lock[i] => k.lock[i] \in {p, None}
                               /\ k'.lock[i] \in {p, None}
  PROVE  Locks'
<1> SUFFICES ASSUME NEW i \in Inums, NEW q \in Procs PROVE k'.lock[i] = q <=> i \in Locked(q)'
  BY DEF Locks
<1>1. CASE q = p
  BY <1>1
<1>2. CASE q # p
  <2>1. Locked(q)' = Locked(q)
    BY <1>2 DEF Others, Locked
  <2>2. k.lock[i] = q <=> i \in Locked(q)
    BY DEF Locks
  <2>3. q # None
    BY Numbers
  <2> QED  BY <1>2, <2>1, <2>2, <2>3
<1> QED  BY <1>1, <1>2

(* No process but p is freeing or making inode i, and it is in use. *)
SafeFor(p, i) ==
  /\ k.di[i].type # "free"
  /\ \A q \in Procs : q # p => /\ ~(stage[q] = "free" /\ Head(puts[q]) = i)
                               /\ ~Climbs => ~(pc[q] = "ialloc" /\ c[q].held = i)

(* What a sure pointer points to is safe. *)
LEMMA OldSure ==
  ASSUME SurePointers, NEW p \in Procs, NEW x \in Kinds, Sure(p, x), Points(p, x) # 0
  PROVE  SafeFor(p, Points(p, x))
<1>1. Kept(p, x, Points(p, x))
  BY DEF SurePointers
<1> QED  BY <1>1 DEF Kept, SafeFor

(* The types and the facts of one process. *)
LEMMA CoreTypes ==
  ASSUME Core, NEW p \in Procs
  PROVE  /\ k \in Kernel /\ k.di \in [Inums -> Inode] /\ k.ref \in [Inums -> Nat]
         /\ k.lock \in [Inums -> Procs \cup {None}]
         /\ pc[p] \in Labels /\ c[p] \in InCall /\ puts[p] \in Seq(Inums)
         /\ stage[p] \in {"lock", "free", "drop"} /\ cwd[p] \in Inums /\ fd[p] \in 0..NINODES
         /\ Place(p) /\ Knows(p)
<1>1. k \in Kernel
  BY DEF Core, TypeOK
<1>2. k.di \in [Inums -> Inode] /\ k.ref \in [Inums -> Nat] /\ k.lock \in [Inums -> Procs \cup {None}]
  BY <1>1, KernIs
<1> QED  BY <1>1, <1>2 DEF Core, TypeOK

(* What LinksEnough counts is finite. *)
LEMMA Counts ==
  ASSUME Core, NEW i \in Inums
  PROVE  /\ IsFiniteSet(NamesOf(i)) /\ IsFiniteSet(SubdirsOf(i)) /\ IsFiniteSet(CallsOn(i))
         /\ Cardinality(NamesOf(i)) \in Nat /\ Cardinality(SubdirsOf(i)) \in Nat
              /\ Cardinality(CallsOn(i)) \in Nat
         /\ k.di[i].nlink \in Int
<1>1. IsFiniteSet(NamesOf(i)) /\ IsFiniteSet(SubdirsOf(i)) /\ IsFiniteSet(CallsOn(i))
  BY InumsFinite, FS_Subset DEF NamesOf, SubdirsOf, CallsOn
<1>2. k.di[i] \in Inode
  <2>1. k.di \in [Inums -> Inode]
    BY KernIs DEF Core, TypeOK
  <2> QED  BY <2>1
<1> QED  BY <1>1, <1>2, Size, InoIs

(* An inode with a name has a link, and so has one that a call counts on. *)
LEMMA Named ==
  ASSUME Core, NEW i \in Inums
  PROVE  /\ \A d \in Inums, n \in Names : k.di[d].ents[n] = i => k.di[i].nlink >= 1
         /\ \A p \in Procs : (c[p].op = "link2" \/ pc[p] = "erased") /\ c[p].held = i
              => k.di[i].nlink >= 1
         /\ i = Root => k.di[i].nlink >= 1
         /\ \A n \in Names, j \in Inums : k.di[i].ents[n] = j /\ k.di[j].type = "dir"
              => k.di[i].nlink >= 1
<1> DEFINE a == Cardinality(NamesOf(i))
           b == Cardinality(SubdirsOf(i))
           e == Cardinality(CallsOn(i))
           r == IF i = Root THEN 1 ELSE 0
<1>1. k.di[i].nlink >= a + b + e + r
  BY DEF Core, LinksEnough
<1>2. a \in Nat /\ b \in Nat /\ e \in Nat /\ r \in Nat /\ k.di[i].nlink \in Int
  BY Counts
<1>3. ASSUME NEW d \in Inums, NEW n \in Names, k.di[d].ents[n] = i PROVE a >= 1
  <2>1. <<d, n>> \in NamesOf(i)
    BY <1>3 DEF NamesOf
  <2> QED  BY <2>1, Counts, Size
<1>4. ASSUME NEW p \in Procs, c[p].op = "link2" \/ pc[p] = "erased", c[p].held = i PROVE e >= 1
  <2>1. p \in CallsOn(i)
    BY <1>4 DEF CallsOn
  <2> QED  BY <2>1, Counts, Size
<1>5. ASSUME NEW n \in Names, NEW j \in Inums, k.di[i].ents[n] = j, k.di[j].type = "dir" PROVE b >= 1
  <2>1. n \in SubdirsOf(i)
    BY <1>5 DEF SubdirsOf
  <2> QED  BY <2>1, Counts, Size
<1>6. i = Root => r = 1
  OBVIOUS
<1> HIDE DEF a, b, e, r
<1> QED  BY <1>1, <1>2, <1>3, <1>4, <1>5, <1>6

(* An inode with a link is neither free nor being freed or made: that is   *)
(* why a lookup may use it.                                                *)
LEMMA LinkedSafe ==
  ASSUME Core, NEW p \in Procs, NEW i \in Inums, k.di[i].nlink >= 1
  PROVE  SafeFor(p, i)
<1>0. k.di \in [Inums -> Inode] /\ "free" \in Types /\ k.di[i].nlink # 0
  <2>1. k.di \in [Inums -> Inode]
    BY CoreTypes
  <2>2. k.di[i].nlink \in Int
    BY <2>1, InoIs
  <2> QED  BY <2>1, <2>2 DEF Types
<1>1. k.di[i].type # "free"
  <2>1. k.di[i].type = "free" => k.di[i] = Fresh("free")
    BY DEF Core, Sound, InodesUsed
  <2> QED  BY <1>0, <2>1, FreshIs
<1>2. ASSUME NEW q \in Procs, stage[q] = "free", Head(puts[q]) = i PROVE FALSE
  <2>1. Knows(q)
    BY DEF Core
  <2> QED  BY <1>0, <1>2, <2>1 DEF Knows
<1>3. ASSUME NEW q \in Procs, ~Climbs, pc[q] = "ialloc", c[q].held = i PROVE FALSE
  <2>1. k.di[i] = Fresh(c[q].kind)
    BY <1>3 DEF Core, DotsRight
  <2>2. Fresh(c[q].kind).nlink = 0
    BY DEF Fresh
  <2> QED  BY <1>0, <2>1, <2>2
<1> QED  BY <1>1, <1>2, <1>3 DEF SafeFor

(* What ilock finds: nobody frees an inode without having its lock. *)
LEMMA LockedSafe ==
  ASSUME Core, NEW p \in Procs, NEW x \in Kinds, Points(p, x) \in Inums,
         k.lock[Points(p, x)] \in {p, None},
         k.di[Points(p, x)].type # "free", ~(x = "put1" /\ stage[p] = "drop")
  PROVE  SafeFor(p, Points(p, x))
<1> DEFINE i == Points(p, x)
<1>1. CASE Climbs
  <2>1. ASSUME NEW q \in Procs, q # p, stage[q] = "free", Head(puts[q]) = i PROVE FALSE
    <3>1. i \in Locked(q)
      BY <2>1 DEF Locked
    <3>2. k.lock[i] = q
      BY <3>1 DEF Core, Locks
    <3>3. q # None
      BY Numbers
    <3> QED  BY <2>1, <3>2, <3>3
  <2> QED  BY <1>1, <2>1 DEF SafeFor
<1>2. CASE ~Climbs
  <2>1. Sure(p, x)
    BY <1>2 DEF Sure
  <2>2. Points(p, x) # 0
    BY Numbers
  <2> QED  BY <2>1, <2>2, OldSure DEF Core
<1> QED  BY <1>1, <1>2

(* The elements of paths are names. *)
LEMMA ElemsAre == Elems \subseteq AllNames
<1> SUFFICES ASSUME NEW call \in Calls
             PROVE  Range(call.path.names) \subseteq AllNames /\ Range(call.new.names) \subseteq AllNames
  BY DEF Elems
<1>1. call.path.names \in Seq(AllNames) /\ call.new.names \in Seq(AllNames)
  BY CallsAssumption DEF Path
<1> QED  BY <1>1 DEF Range

(* What a path finds if it does not climb. *)
LEMMA FoundSafe ==
  ASSUME Core, ~Climbs, NEW p \in Procs, NEW d \in Inums, NEW n \in Elems, k.di[d].type = "dir",
         SafeFor(p, d),
         pc[p] # "ialloc", stage[p] # "free", k.di[d].ents[n] # 0
  PROVE  SafeFor(p, k.di[d].ents[n])
<1>0. n \in AllNames /\ n # ".." /\ k.di[d].ents[n] \in Inums
  <2>1. n \in AllNames
    BY ElemsAre
  <2>2. k.di[d] \in Inode
    BY CoreTypes
  <2>3. k.di[d].ents[n] \in 0..NINODES
    BY <2>1, <2>2, InoIs
  <2> QED  BY <2>1, <2>3, Numbers DEF Climbs
<1>1. CASE n \in Names
  BY <1>0, <1>1, Named, LinkedSafe
<1>2. CASE n = "."
  <2>1. k.di[d].ents["."] = d
    BY DEF Core, DotsRight, SafeFor
  <2> QED  BY <1>2, <2>1
<1> QED  BY <1>0, <1>1, <1>2 DEF AllNames

(* The types of one process after a step. *)
LEMMA TypesNext ==
  ASSUME TypeOK', NEW p \in Procs
  PROVE  /\ k' \in Kernel /\ k'.di \in [Inums -> Inode] /\ k'.ref \in [Inums -> Nat]
         /\ pc'[p] \in Labels /\ c'[p] \in InCall /\ puts'[p] \in Seq(Inums)
         /\ stage'[p] \in {"lock", "free", "drop"} /\ cwd'[p] \in Inums /\ fd'[p] \in 0..NINODES
<1>1. k' \in Kernel
  BY DEF TypeOK
<1>2. k'.di \in [Inums -> Inode] /\ k'.ref \in [Inums -> Nat]
  BY <1>1, KernIs
<1> QED  BY <1>1, <1>2 DEF TypeOK

(* A pointer is an inode number or 0. *)
LEMMA PointsIn ==
  ASSUME TypeOK, NEW p \in Procs, NEW x \in Kinds
  PROVE  Points(p, x) \in 0..NINODES
<1>1. /\ cwd[p] \in Inums /\ fd[p] \in 0..NINODES /\ c[p].ip \in 0..NINODES /\ c[p].held \in 0..NINODES
      /\ Put(puts[p], 1) \in 0..NINODES /\ Put(puts[p], 2) \in 0..NINODES
  BY PutIn DEF TypeOK, InCall
<1> QED  BY <1>1, PointsAre, Numbers DEF Kinds

(* The same after a step. *)
LEMMA PointsInNext ==
  ASSUME TypeOK', NEW p \in Procs, NEW x \in Kinds
  PROVE  Points(p, x)' \in 0..NINODES
<1>1. /\ cwd'[p] \in Inums /\ fd'[p] \in 0..NINODES /\ c'[p].ip \in 0..NINODES
        /\ c'[p].held \in 0..NINODES
      /\ Put(puts'[p], 1) \in 0..NINODES /\ Put(puts'[p], 2) \in 0..NINODES
  BY PutIn DEF TypeOK, InCall
<1> QED  BY <1>1, PointsAreNext, Numbers DEF Kinds

(* A step of p leaves the pointers of the others. *)
LEMMA OthersPoint ==
  ASSUME NEW p \in Procs, Others(p), NEW q \in Procs, q # p, NEW x \in Kinds
  PROVE  Points(q, x)' = Points(q, x) /\ (Sure(q, x)' <=> Sure(q, x))
<1>1. Climbs' <=> Climbs
  BY DEF Climbs, Elems
<1> QED  BY <1>1, PointsAre, PointsAreNext DEF Others, Sure, Kinds

(* p's new sure pointers are to inodes that are safe, and others' stay so. *)
LEMMA SureStep ==
  ASSUME TypeOK, TypeOK', SurePointers, NEW p \in Procs, Others(p), stage'[p] # "free",
         pc'[p] # "ialloc",
         \A i \in Inums : k.di[i].type # "free" => k'.di[i].type # "free",
         \A x \in Kinds : Sure(p, x)' /\ Points(p, x)' # 0 => SafeFor(p, Points(p, x)')
  PROVE  SurePointers'
<1>0. Climbs' <=> Climbs
  BY DEF Climbs, Elems
<1> SUFFICES ASSUME NEW q \in Procs, NEW x \in Kinds, Sure(q, x)', Points(q, x)' # 0
             PROVE  Kept(q, x, Points(q, x))'
  BY DEF SurePointers
<1> DEFINE i == Points(q, x)'
<1>1. i \in Inums
  BY PointsInNext, Numbers
<1>2. ASSUME NEW r \in Procs, stage'[r] = "free", Head(puts'[r]) = i
      PROVE  r # p /\ stage[r] = "free" /\ Head(puts[r]) = i
  BY <1>2 DEF Others
<1>3. ASSUME NEW r \in Procs, pc'[r] = "ialloc", c'[r].held = i
      PROVE  r # p /\ pc[r] = "ialloc" /\ c[r].held = i
  BY <1>3 DEF Others
<1>4. CASE q = p
  <2>1. SafeFor(p, i)
    BY <1>4
  <2> HIDE DEF i
  <2>2. k'.di[i].type # "free"
    BY <1>1, <2>1 DEF SafeFor
  <2>3. \A r \in Procs : ~(stage'[r] = "free" /\ Head(puts'[r]) = i)
    BY <1>2, <2>1 DEF SafeFor
  <2>4. ~Climbs => \A r \in Procs : ~(pc'[r] = "ialloc" /\ c'[r].held = i)
    BY <1>3, <2>1 DEF SafeFor
  <2> QED  BY <1>0, <2>2, <2>3, <2>4 DEF Kept, i
<1>5. CASE q # p
  <2>1. i = Points(q, x) /\ Sure(q, x)
    BY <1>5, OthersPoint
  <2> HIDE DEF i
  <2>2. Kept(q, x, i)
    BY <1>1, <2>1, Numbers DEF SurePointers
  <2>3. k'.di[i].type # "free"
    BY <1>1, <2>2 DEF Kept
  <2>4. \A r \in Procs : stage'[r] = "free" /\ Head(puts'[r]) = i => r = q /\ x = "put1"
    BY <1>2, <2>2 DEF Kept
  <2>5. ~Climbs => \A r \in Procs : pc'[r] = "ialloc" /\ c'[r].held = i => r = q /\ x = "held"
    BY <1>3, <2>2 DEF Kept
  <2> QED  BY <1>0, <2>3, <2>4, <2>5 DEF Kept, i
<1> QED  BY <1>4, <1>5

(* What the others know stays true. *)
LEMMA KnowsOthers ==
  ASSUME Core, TypeOK', NEW p \in Procs, Others(p), NEW q \in Procs, q # p,
         \A i \in Inums : k'.di[i] # k.di[i] => k.lock[i] \in {p, None},
         \A i \in Inums : k'.di[i].type # k.di[i].type =>
                            k.di[i].type = "free" \/ (stage[p] = "free" /\ Head(puts[p]) = i)
  PROVE  Place(q)' /\ Knows(q)'
<1>0. pc'[q] = pc[q] /\ c'[q] = c[q] /\ puts'[q] = puts[q] /\ stage'[q] = stage[q]
  BY DEF Others
<1>1. Place(q) /\ Knows(q)
  BY DEF Core
<1>2. Place(q)'
  BY <1>0, <1>1 DEF Place, HasIp, HasHeld
<1>3. ASSUME NEW x \in Kinds, Sure(q, x), Points(q, x) \in Inums
      PROVE  k'.di[Points(q, x)].type = k.di[Points(q, x)].type
  <2>1. Kept(q, x, Points(q, x))
    BY <1>3, Numbers DEF Core, SurePointers
  <2> QED  BY <1>3, <2>1 DEF Kept
<1>4. ASSUME NEW i \in Locked(q) PROVE i \in Inums /\ k'.di[i] = k.di[i]
  <2>1. i \in Inums /\ k.lock[i] = q
    BY <1>4 DEF Core, Locks, Locked
  <2>2. q # None
    BY Numbers
  <2> QED  BY <2>1, <2>2
<1>5. /\ c[q].ip \in 0..NINODES /\ c[q].held \in 0..NINODES /\ puts[q] \in Seq(Inums)
      /\ Points(q, "ip") = c[q].ip /\ Points(q, "held") = c[q].held
  BY CoreTypes, PointsAre DEF InCall
<1>6. pc[q] \in InParent => c[q].ip \in Inums /\ k'.di[c[q].ip].type = k.di[c[q].ip].type
  <2>1. ASSUME pc[q] \in InParent PROVE c[q].ip \in Inums
    BY <1>1, <1>5, <2>1, Numbers DEF Place, HasIp
  <2>2. ASSUME pc[q] \in InParent PROVE Sure(q, "ip") /\ "ip" \in Kinds
    BY <2>2 DEF Sure, Kinds
  <2> QED  BY <1>3, <1>5, <2>1, <2>2
<1>7. pc[q] = "ialloc" \/ c[q].op = "link2" => c[q].held \in Inums
        /\ k'.di[c[q].held].type = k.di[c[q].held].type
  <2>1. ASSUME pc[q] = "ialloc" \/ c[q].op = "link2" PROVE c[q].held \in Inums
    BY <1>1, <1>5, <2>1, Numbers DEF Place, HasHeld
  <2>2. ASSUME pc[q] = "ialloc" \/ c[q].op = "link2" PROVE Sure(q, "held") /\ "held" \in Kinds
    BY <1>1, <2>2 DEF Sure, Kinds, Place
  <2> QED  BY <1>3, <1>5, <2>1, <2>2
<1>8. pc[q] \in {"ialloc", "erase", "unlockdp"} => k'.di[c[q].ip] = k.di[c[q].ip]
  <2>1. ASSUME pc[q] \in {"ialloc", "erase", "unlockdp"} PROVE c[q].ip \in Locked(q)
    <3>1. c[q].ip \in Inums
      BY <1>1, <1>5, <2>1, Numbers DEF Place, HasIp, InParent
    <3> QED  BY <2>1, <3>1 DEF Locked
  <2> QED  BY <1>4, <2>1
<1>9. stage[q] = "free" => k'.di[Head(puts[q])] = k.di[Head(puts[q])]
  <2>1. ASSUME stage[q] = "free" PROVE Head(puts[q]) \in Locked(q)
    <3>1. Head(puts[q]) \in Inums
      BY <1>1, <1>5, <2>1, PutHead DEF Place
    <3> QED  BY <2>1, <3>1 DEF Locked
  <2> QED  BY <1>4, <2>1
<1>10. Knows(q)'
  BY <1>0, <1>1, <1>6, <1>7, <1>8, <1>9 DEF Knows
<1> QED  BY <1>2, <1>10

(* All that is left to show of a step. *)
LEMMA Keeps ==
  ASSUME Core, TypeOK', Good(k'), NEW p \in Procs, Others(p),
         \A i \in Inums : k'.ref[i] + Hits(p, i) = k.ref[i] + Hits(p, i)',
         \A i \in Inums : /\ k'.lock[i] = p <=> i \in Locked(p)'
                          /\ k'.lock[i] # k.lock[i] => k.lock[i] \in {p, None}
                               /\ k'.lock[i] \in {p, None},
         \A i \in Inums : k'.di[i] # k.di[i] => k.lock[i] \in {p, None},
         \A i \in Inums : k'.di[i].type # k.di[i].type =>
                            k.di[i].type = "free" \/ (stage[p] = "free" /\ Head(puts[p]) = i),
         LinksEnough', SurePointers', Place(p)', Knows(p)', ~Climbs => DotsRight' /\ NoCycle'
  PROVE  IInv'
<1>1. RefsExact'
  BY CoreTypes, TypesNext, RefsStep DEF Core
<1>2. Locks'
  BY LocksStep DEF Core
<1>3. ASSUME NEW q \in Procs PROVE Place(q)' /\ Knows(q)'
  BY KnowsOthers
<1>4. Sound(k')
  BY DEF Good
<1>5. Climbs' <=> Climbs
  BY DEF Climbs, Elems
<1> QED  BY <1>1, <1>2, <1>3, <1>4, <1>5 DEF IInv

(* A step that changes no inode on the disk. *)
LEMMA QuietStep ==
  ASSUME Core, TypeOK', Good(k'), NEW p \in Procs, Others(p), k'.di = k.di,
         \A i \in Inums : k'.ref[i] + Hits(p, i) = k.ref[i] + Hits(p, i)',
         \A i \in Inums : /\ k'.lock[i] = p <=> i \in Locked(p)'
                          /\ k'.lock[i] # k.lock[i] => k.lock[i] \in {p, None}
                               /\ k'.lock[i] \in {p, None},
         pc[p] # "ialloc", stage[p] # "free", pc'[p] # "ialloc", stage'[p] # "free",
         \A x \in Kinds : Sure(p, x)' /\ Points(p, x)' # 0 => SafeFor(p, Points(p, x)'),
         c'[p].op = "link2" \/ pc'[p] = "erased" =>
           (c[p].op = "link2" \/ pc[p] = "erased") /\ c[p].held = c'[p].held,
         Place(p)', Knows(p)'
  PROVE  IInv'
<1>1. SurePointers'
  BY SureStep DEF Core
<1>2. LinksEnough'
  <2> SUFFICES ASSUME NEW i \in Inums
               PROVE  k'.di[i].nlink >= Cardinality(NamesOf(i)') + Cardinality(SubdirsOf(i)') + Cardinality(CallsOn(i)')
                                          + (IF i = Root THEN 1 ELSE 0)
    BY DEF LinksEnough
  <2>1. NamesOf(i)' = NamesOf(i) /\ SubdirsOf(i)' = SubdirsOf(i)
    BY DEF NamesOf, SubdirsOf
  <2>2. CallsOn(i)' \subseteq CallsOn(i)
    BY DEF CallsOn, Others
  <2>3. Cardinality(CallsOn(i)') <= Cardinality(CallsOn(i)) /\ Cardinality(CallsOn(i)') \in Nat
    BY <2>2, Counts, Size
  <2>4. k.di[i].nlink >= Cardinality(NamesOf(i)) + Cardinality(SubdirsOf(i)) + Cardinality(CallsOn(i))
                                          + (IF i = Root THEN 1 ELSE 0)
    BY DEF Core, LinksEnough
  <2> QED  BY <2>1, <2>3, <2>4, Counts
<1>3. ASSUME ~Climbs PROVE DotsRight' /\ NoCycle'
  <2>1. DotsRight /\ NoCycle
    BY <1>3 DEF Core
  <2>2. NoCycle'
    BY <2>1 DEF NoCycle
  <2>3. ASSUME NEW q \in Procs, pc'[q] = "ialloc" PROVE k'.di[c'[q].held] = Fresh(c'[q].kind)
    BY <2>1, <2>3 DEF DotsRight, Others
  <2>4. ASSUME NEW i \in Inums, k'.di[i].type = "dir", k'.di[i].ents["."] # i
        PROVE  \E q \in Procs : \/ pc'[q] = "ialloc" /\ c'[q].held = i
                                \/ stage'[q] = "free" /\ Head(puts'[q]) = i
    <3>1. PICK q \in Procs : \/ pc[q] = "ialloc" /\ c[q].held = i
                             \/ stage[q] = "free" /\ Head(puts[q]) = i
      BY <2>1, <2>4 DEF DotsRight
    <3> QED  BY <3>1 DEF Others
  <2>5. \A d, i \in Inums, n \in Names : k'.di[d].ents[n] = i /\ k'.di[i].type = "dir"
          => k'.di[i].ents[".."] = d
    BY <2>1 DEF DotsRight
  <2>6. k'.di[Root].ents[".."] = Root
    BY <2>1 DEF DotsRight
  <2> QED  BY <2>2, <2>3, <2>4, <2>5, <2>6 DEF DotsRight
<1> QED  BY <1>1, <1>2, <1>3, Keeps

(* What a call must leave when p goes on at l with call r, inodes q to put, *)
(* current directory w and open file f.                                    *)
Is(x, i) == IF x = i THEN 1 ELSE 0
(* the number of pointers to i among current directory w, open file f,     *)
(* call r and inodes q                                                     *)
Ptrs(w, f, r, q, i) ==
  Is(w, i) + Is(f, i) + Is(r.ip, i) + Is(r.held, i) + Is(Put(q, 1), i) + Is(Put(q, 2), i)
(* p may go on with w, f, r and q: the counts change as its pointers do *)
RefsFit(p, ref, w, f, r, q) ==
  \A i \in Inums : ref[i] + Ptrs(cwd[p], fd[p], c[p], puts[p], i) = k.ref[i] + Ptrs(w, f, r, q, i)
(* the locks are what p has at place l *)
LocksFit(p, lock, l, r) ==
  \A i \in Inums : /\ lock[i] = p <=> \/ l \in {"ialloc", "erase", "unlockdp"} /\ i = r.ip
                                      \/ l \in {"opened", "erased"} /\ i = r.held
                   /\ lock[i] # k.lock[i] => k.lock[i] \in {p, None} /\ lock[i] \in {p, None}
(* what p will point to surely is safe *)
SureFit(p, l, r, q, w, f) ==
  /\ SafeFor(p, w) /\ (f # 0 => SafeFor(p, f))
  /\ r.held # 0 /\ (l # "exists" \/ ~Climbs) => SafeFor(p, r.held)
  /\ r.ip # 0 /\ (l \in InParent \cup {"unlockdp"} \/ ~Climbs) => SafeFor(p, r.ip)
  /\ ~Climbs => (Put(q, 1) # 0 => SafeFor(p, Put(q, 1))) /\ (Put(q, 2) # 0 => SafeFor(p, Put(q, 2)))
(* call and inodes to put fit the place *)
PlaceFit(l, r, q) ==
  /\ r.ip # 0 <=> l \in InParent \cup {"walk", "open", "chdir", "link", "unlockdp"}
  /\ r.held # 0 <=> l \in {"exists", "ialloc", "opened", "erase", "erased", "linkbad"} \/ r.op = "link2"
  /\ Len(q) <= 2
  /\ l \in {"ialloc", "erase"} => q = <<>>
  /\ l = "idle" => r = NoCall
  /\ l \in Started => r.op = l
  /\ r.op = "link2" => l \in {"walk", "link2", "unlockdp", "linkbad"}
  /\ l = "linkbad" => r.op = "link2"
  /\ l = "walk" => r.op # "none" /\ (r.parent <=> r.op \in InParent)
  /\ l \in InParent => r.rest # <<>>
  /\ r.op = "create" => r.kind \in {"file", "dir", "dev"}
(* the disk is as the call relies on *)
KnowsFit(di, l, r, q) ==
  /\ l \in InParent => di[r.ip].type = "dir"
  /\ l = "ialloc" => r.op = "create" /\ di[r.held].type = r.kind /\ di[r.ip].ents[Head(r.rest)] = 0
  /\ l = "erase" => Head(r.rest) \in Names /\ di[r.ip].ents[Head(r.rest)] = r.held
  /\ l = "unlockdp" => r.rest # <<>> /\ q \in {<<>>, <<di[r.ip].ents[Head(r.rest)]>>}
  /\ r.op = "link2" => di[r.held].type # "dir"
(* the types of what p goes on with *)
Typed(l, r, q, w, f) ==
  l \in Labels /\ r \in InCall /\ q \in Seq(Inums) /\ w \in Inums /\ f \in 0..NINODES

(* a step of p that does not put *)
Goes(p, s, l, r, q, w, f) ==
  /\ puts[p] = <<>> /\ Typed(l, r, q, w, f) /\ Goto(p, s, l, r, q)
  /\ cwd' = [cwd EXCEPT ![p] = w] /\ fd' = [fd EXCEPT ![p] = f] /\ left' \in Nat

(* p is between its steps: it has nothing to put. *)
LEMMA AtIs ==
  ASSUME Core, NEW p \in Procs, puts[p] = <<>>
  PROVE  stage[p] = "lock"
<1>1. Place(p) /\ stage[p] \in {"lock", "free", "drop"}
  BY CoreTypes
<1> QED  BY <1>1 DEF Place

(* Such a step keeps the types and leaves the other processes. *)
LEMMA GotoTypes ==
  ASSUME Core, NEW p \in Procs, NEW s \in Kernel, NEW l, NEW r, NEW q, NEW w, NEW f,
         Goes(p, s, l, r, q, w, f)
  PROVE  /\ TypeOK' /\ Others(p) /\ k' = s /\ pc'[p] = l /\ c'[p] = r /\ puts'[p] = q
         /\ stage'[p] = "lock" /\ cwd'[p] = w /\ fd'[p] = f
<1>1. /\ pc \in [Procs -> Labels] /\ c \in [Procs -> InCall]
      /\ puts \in [Procs -> Seq(Inums)] /\ stage \in [Procs -> {"lock", "free", "drop"}]
      /\ cwd \in [Procs -> Inums] /\ fd \in [Procs -> 0..NINODES]
  BY DEF Core, TypeOK
<1>2. /\ k' = s /\ pc' = [pc EXCEPT ![p] = l] /\ c' = [c EXCEPT ![p] = r]
      /\ puts' = [puts EXCEPT ![p] = q] /\ stage' = stage
  BY DEF Goes, Goto
<1>3. l \in Labels /\ r \in InCall /\ q \in Seq(Inums) /\ w \in Inums /\ f \in 0..NINODES
  BY DEF Goes, Typed
<1>4. TypeOK'
  BY <1>1, <1>2, <1>3 DEF Goes, TypeOK
<1>5. Others(p)
  BY <1>1, <1>2 DEF Goes, Others
<1>6. pc'[p] = l /\ c'[p] = r /\ puts'[p] = q /\ stage'[p] = "lock" /\ cwd'[p] = w /\ fd'[p] = f
  BY <1>1, <1>2, AtIs DEF Goes
<1> QED  BY <1>2, <1>4, <1>5, <1>6

(* A call that ends in a panic. *)
LEMMA PanicGoto ==
  ASSUME Core, NEW p \in Procs, NEW s \in Kernel, NEW l, NEW r, NEW q, NEW w, NEW f,
         Goes(p, s, l, r, q, w, f), s.panic # "no"
  PROVE  IInv'
<1>1. TypeOK' /\ k' = s
  BY GotoTypes
<1> QED  BY <1>1 DEF IInv

(* What all steps of that form have in common, whatever they change on     *)
(* disk.                                                                   *)
LEMMA GotoFacts ==
  ASSUME Core, NEW p \in Procs, NEW s, NEW l, NEW r, NEW q, NEW w, NEW f,
         NEW di, NEW ref, NEW lock, Becomes(s, di, ref, lock),
         Goes(p, s, l, r, q, w, f),
         RefsFit(p, ref, w, f, r, q), LocksFit(p, lock, l, r), PlaceFit(l, r, q), KnowsFit(di, l, r, q)
  PROVE  /\ TypeOK' /\ Good(k') /\ Others(p) /\ k'.di = di
         /\ \A i \in Inums : k'.ref[i] + Hits(p, i) = k.ref[i] + Hits(p, i)'
         /\ \A i \in Inums : /\ k'.lock[i] = p <=> i \in Locked(p)'
                             /\ k'.lock[i] # k.lock[i] => k.lock[i] \in {p, None}
                                  /\ k'.lock[i] \in {p, None}
         /\ stage[p] # "free" /\ stage'[p] = "lock" /\ Place(p)' /\ Knows(p)'
         /\ pc'[p] = l /\ c'[p] = r
         /\ SureFit(p, l, r, q, w, f) =>
              \A x \in Kinds : Sure(p, x)' /\ Points(p, x)' # 0 => SafeFor(p, Points(p, x)')
<1>0. s \in Kernel /\ Good(s) /\ s.di = di /\ s.ref = ref /\ s.lock = lock
  BY DEF Becomes, Good
<1>1. /\ TypeOK' /\ Others(p) /\ k' = s /\ pc'[p] = l /\ c'[p] = r /\ puts'[p] = q
      /\ stage'[p] = "lock" /\ cwd'[p] = w /\ fd'[p] = f
  BY <1>0, GotoTypes
<1>2. \A i \in Inums : k'.ref[i] + Hits(p, i) = k.ref[i] + Hits(p, i)'
  <2> SUFFICES ASSUME NEW i \in Inums PROVE k'.ref[i] + Hits(p, i) = k.ref[i] + Hits(p, i)'
    OBVIOUS
  <2>1. Hits(p, i) = Ptrs(cwd[p], fd[p], c[p], puts[p], i)
    BY DEF Hits, Ptrs, One, Is
  <2>2. Hits(p, i)' = Ptrs(w, f, r, q, i)
    BY <1>1 DEF Hits, Ptrs, One, Is
  <2> QED  BY <1>0, <1>1, <2>1, <2>2 DEF RefsFit
<1>3. \A i \in Inums : /\ k'.lock[i] = p <=> i \in Locked(p)'
                       /\ k'.lock[i] # k.lock[i] => k.lock[i] \in {p, None} /\ k'.lock[i] \in {p, None}
  <2> SUFFICES ASSUME NEW i \in Inums
               PROVE  /\ k'.lock[i] = p <=> i \in Locked(p)'
                      /\ k'.lock[i] # k.lock[i] => k.lock[i] \in {p, None} /\ k'.lock[i] \in {p, None}
    OBVIOUS
  <2>1. i \in Locked(p)' <=> \/ l \in {"ialloc", "erase", "unlockdp"} /\ i = r.ip
                             \/ l \in {"opened", "erased"} /\ i = r.held
    BY <1>1 DEF Locked
  <2> QED  BY <1>0, <1>1, <2>1 DEF LocksFit
<1>4. Place(p)'
  BY <1>1 DEF PlaceFit, Place, HasIp, HasHeld
<1>5. Knows(p)'
  BY <1>0, <1>1 DEF KnowsFit, Knows
<1>6. ASSUME SureFit(p, l, r, q, w, f)
      PROVE  \A x \in Kinds : Sure(p, x)' /\ Points(p, x)' # 0 => SafeFor(p, Points(p, x)')
  <2>0. Climbs' <=> Climbs
    BY DEF Climbs, Elems
  <2>1. /\ Points(p, "cwd")' = w /\ Points(p, "fd")' = f /\ Points(p, "ip")' = r.ip
        /\ Points(p, "held")' = r.held /\ Points(p, "put1")' = Put(q, 1)
             /\ Points(p, "put2")' = Put(q, 2)
    BY <1>1, PointsAreNext
  <2>2. /\ Sure(p, "ip")' => l \in InParent \cup {"unlockdp"} \/ ~Climbs
        /\ Sure(p, "held")' => l # "exists" \/ ~Climbs
        /\ Sure(p, "put1")' => ~Climbs
        /\ Sure(p, "put2")' => ~Climbs
    BY <1>1, <2>0 DEF Sure
  <2>3. \A x \in Kinds : x \in {"cwd", "fd", "ip", "held", "put1", "put2"}
    BY DEF Kinds
  <2> QED  BY <1>6, <2>1, <2>2, <2>3 DEF SureFit
<1>7. stage[p] # "free"
  BY AtIs DEF Goes
<1> QED  BY <1>0, <1>1, <1>2, <1>3, <1>4, <1>5, <1>6, <1>7

(* A call that changes no inode on the disk. *)
LEMMA QuietGoto ==
  ASSUME Core, NEW p \in Procs, NEW s, NEW l, NEW r, NEW q, NEW w, NEW f,
         NEW ref, NEW lock, Becomes(s, k.di, ref, lock),
         Goes(p, s, l, r, q, w, f),
         RefsFit(p, ref, w, f, r, q), LocksFit(p, lock, l, r), PlaceFit(l, r, q), KnowsFit(k.di, l, r, q),
         SureFit(p, l, r, q, w, f), pc[p] # "ialloc", l # "ialloc",
         r.op = "link2" \/ l = "erased" => (c[p].op = "link2" \/ pc[p] = "erased") /\ c[p].held = r.held
  PROVE  IInv'
<1> DEFINE di == k.di
<1>1. Becomes(s, di, ref, lock) /\ KnowsFit(di, l, r, q)
  OBVIOUS
<1> HIDE DEF di
<1>2. /\ TypeOK' /\ Good(k') /\ Others(p) /\ k'.di = di
      /\ \A i \in Inums : k'.ref[i] + Hits(p, i) = k.ref[i] + Hits(p, i)'
      /\ \A i \in Inums : /\ k'.lock[i] = p <=> i \in Locked(p)'
                          /\ k'.lock[i] # k.lock[i] => k.lock[i] \in {p, None}
                               /\ k'.lock[i] \in {p, None}
      /\ stage[p] # "free" /\ stage'[p] = "lock" /\ Place(p)' /\ Knows(p)'
      /\ pc'[p] = l /\ c'[p] = r
      /\ \A x \in Kinds : Sure(p, x)' /\ Points(p, x)' # 0 => SafeFor(p, Points(p, x)')
  BY ONLY <1>1, Core, p \in Procs, Goes(p, s, l, r, q, w, f), RefsFit(p, ref, w, f, r, q),
          LocksFit(p, lock, l, r), PlaceFit(l, r, q), SureFit(p, l, r, q, w, f), GotoFacts
<1>3. k'.di = k.di /\ stage'[p] # "free" /\ pc'[p] # "ialloc"
  BY <1>2 DEF di
<1>4. c'[p].op = "link2" \/ pc'[p] = "erased" =>
           (c[p].op = "link2" \/ pc[p] = "erased") /\ c[p].held = c'[p].held
  BY <1>2
<1> QED  BY ONLY <1>2, <1>3, <1>4, Core, p \in Procs, pc[p] # "ialloc", QuietStep

(* The values of Is. *)
LEMMA IsIs ==
  ASSUME NEW i \in Inums
  PROVE  Is(0, i) = 0 /\ \A x : Is(x, i) \in Nat
BY Numbers DEF Is

(* A reference more, or a reference less. *)
LEMMA RefMore ==
  ASSUME NEW ref \in [Inums -> Nat], NEW j \in Inums, NEW i \in Inums
  PROVE  With(ref, j, ref[j] + 1)[i] = ref[i] + Is(j, i)
BY DEF With, Is

(* A call by its fields. *)
Cal(op, kind, rest, parent, ip, held, new) ==
  [op |-> op, kind |-> kind, rest |-> rest, parent |-> parent, ip |-> ip, held |-> held, new |-> new]

(* A call is made of its seven fields, each of its type. *)
LEMMA CalIs ==
  ASSUME NEW r \in InCall
  PROVE  /\ r = Cal(r.op, r.kind, r.rest, r.parent, r.ip, r.held, r.new)
         /\ r.op \in Started \cup {"none"} /\ r.kind \in {"file", "dir", "dev", "read", "write"}
         /\ r.rest \in Seq(Elems) /\ r.parent \in BOOLEAN /\ r.ip \in 0..NINODES /\ r.held \in 0..NINODES
         /\ r.new \in [abs : BOOLEAN, names : Seq(Elems)]
BY DEF InCall, Cal

(* dp has been put. *)
NoIp(r) == [r EXCEPT !.ip = 0]

(* The fields of a call that gives its directory up. *)
LEMMA CalNoIp ==
  ASSUME NEW r \in InCall, NEW y,
         y = NoIp(r)
  PROVE  /\ y \in InCall /\ y.op = r.op /\ y.kind = r.kind /\ y.rest = r.rest /\ y.parent = r.parent
         /\ y.ip = 0 /\ y.held = r.held /\ y.new = r.new
<1>1. r = [op |-> r.op, kind |-> r.kind, rest |-> r.rest, parent |-> r.parent, ip |-> r.ip, held |-> r.held, new |-> r.new]
  BY CalIs DEF Cal
<1>2. y = [op |-> r.op, kind |-> r.kind, rest |-> r.rest, parent |-> r.parent, ip |-> 0, held |-> r.held, new |-> r.new]
  BY <1>1 DEF NoIp
<1>3. /\ r.op \in Started \cup {"none"} /\ r.kind \in {"file", "dir", "dev", "read", "write"}
      /\ r.rest \in Seq(Elems) /\ r.parent \in BOOLEAN /\ r.ip \in 0..NINODES /\ r.held \in 0..NINODES
      /\ r.new \in [abs : BOOLEAN, names : Seq(Elems)] /\ 0 \in 0..NINODES
           /\ "link2" \in Started \cup {"none"}
  BY CalIs, Numbers DEF Started
<1> QED  BY ONLY <1>2, <1>3 DEF InCall

(* The walk goes on at a. *)
NextIp(r, a, b) == [r EXCEPT !.ip = a, !.rest = b]

(* The fields of a call that goes on to the next directory. *)
LEMMA CalNext ==
  ASSUME NEW r \in InCall, NEW y, NEW a \in 0..NINODES, NEW b \in Seq(Elems),
         y = NextIp(r, a, b)
  PROVE  /\ y \in InCall /\ y.op = r.op /\ y.kind = r.kind /\ y.rest = b /\ y.parent = r.parent
         /\ y.ip = a /\ y.held = r.held /\ y.new = r.new
<1>1. r = [op |-> r.op, kind |-> r.kind, rest |-> r.rest, parent |-> r.parent, ip |-> r.ip, held |-> r.held, new |-> r.new]
  BY CalIs DEF Cal
<1>2. y = [op |-> r.op, kind |-> r.kind, rest |-> b, parent |-> r.parent, ip |-> a, held |-> r.held, new |-> r.new]
  BY <1>1 DEF NextIp
<1>3. /\ r.op \in Started \cup {"none"} /\ r.kind \in {"file", "dir", "dev", "read", "write"}
      /\ r.rest \in Seq(Elems) /\ r.parent \in BOOLEAN /\ r.ip \in 0..NINODES /\ r.held \in 0..NINODES
      /\ r.new \in [abs : BOOLEAN, names : Seq(Elems)] /\ 0 \in 0..NINODES
           /\ "link2" \in Started \cup {"none"}
  BY CalIs, Numbers DEF Started
<1> QED  BY ONLY <1>2, <1>3, a \in 0..NINODES, b \in Seq(Elems) DEF InCall

(* The inode found or opened. *)
FoundIp(r, a) == [r EXCEPT !.held = a, !.ip = 0]

(* The fields of a call that has found an inode and gives its directory    *)
(* up.                                                                     *)
LEMMA CalFound ==
  ASSUME NEW r \in InCall, NEW y, NEW a \in 0..NINODES,
         y = FoundIp(r, a)
  PROVE  /\ y \in InCall /\ y.op = r.op /\ y.kind = r.kind /\ y.rest = r.rest /\ y.parent = r.parent
         /\ y.ip = 0 /\ y.held = a /\ y.new = r.new
<1>1. r = [op |-> r.op, kind |-> r.kind, rest |-> r.rest, parent |-> r.parent, ip |-> r.ip, held |-> r.held, new |-> r.new]
  BY CalIs DEF Cal
<1>2. y = [op |-> r.op, kind |-> r.kind, rest |-> r.rest, parent |-> r.parent, ip |-> 0, held |-> a, new |-> r.new]
  BY <1>1 DEF FoundIp
<1>3. /\ r.op \in Started \cup {"none"} /\ r.kind \in {"file", "dir", "dev", "read", "write"}
      /\ r.rest \in Seq(Elems) /\ r.parent \in BOOLEAN /\ r.ip \in 0..NINODES /\ r.held \in 0..NINODES
      /\ r.new \in [abs : BOOLEAN, names : Seq(Elems)] /\ 0 \in 0..NINODES
           /\ "link2" \in Started \cup {"none"}
  BY CalIs, Numbers DEF Started
<1> QED  BY ONLY <1>2, <1>3, a \in 0..NINODES DEF InCall

(* The inode below dp. *)
Holds(r, a) == [r EXCEPT !.held = a]

(* The fields of a call that has found an inode. *)
LEMMA CalHolds ==
  ASSUME NEW r \in InCall, NEW y, NEW a \in 0..NINODES,
         y = Holds(r, a)
  PROVE  /\ y \in InCall /\ y.op = r.op /\ y.kind = r.kind /\ y.rest = r.rest /\ y.parent = r.parent
         /\ y.ip = r.ip /\ y.held = a /\ y.new = r.new
<1>1. r = [op |-> r.op, kind |-> r.kind, rest |-> r.rest, parent |-> r.parent, ip |-> r.ip, held |-> r.held, new |-> r.new]
  BY CalIs DEF Cal
<1>2. y = [op |-> r.op, kind |-> r.kind, rest |-> r.rest, parent |-> r.parent, ip |-> r.ip, held |-> a, new |-> r.new]
  BY <1>1 DEF Holds
<1>3. /\ r.op \in Started \cup {"none"} /\ r.kind \in {"file", "dir", "dev", "read", "write"}
      /\ r.rest \in Seq(Elems) /\ r.parent \in BOOLEAN /\ r.ip \in 0..NINODES /\ r.held \in 0..NINODES
      /\ r.new \in [abs : BOOLEAN, names : Seq(Elems)] /\ 0 \in 0..NINODES
           /\ "link2" \in Started \cup {"none"}
  BY CalIs, Numbers DEF Started
<1> QED  BY ONLY <1>2, <1>3, a \in 0..NINODES DEF InCall

(* link starts its second walk. *)
LinkTo(r, h, a, b) == [r EXCEPT !.op = "link2", !.held = h, !.parent = TRUE, !.ip = a, !.rest = b]

(* The fields of a link that starts to walk its new path. *)
LEMMA CalLink ==
  ASSUME NEW r \in InCall, NEW y, NEW h \in 0..NINODES, NEW a \in 0..NINODES, NEW b \in Seq(Elems),
         y = LinkTo(r, h, a, b)
  PROVE  /\ y \in InCall /\ y.op = "link2" /\ y.kind = r.kind /\ y.rest = b /\ y.parent
         /\ y.ip = a /\ y.held = h /\ y.new = r.new
<1>1. r = [op |-> r.op, kind |-> r.kind, rest |-> r.rest, parent |-> r.parent, ip |-> r.ip, held |-> r.held, new |-> r.new]
  BY CalIs DEF Cal
<1>2. y = [op |-> "link2", kind |-> r.kind, rest |-> b, parent |-> TRUE, ip |-> a, held |-> h, new |-> r.new]
  BY <1>1 DEF LinkTo
<1>3. /\ r.op \in Started \cup {"none"} /\ r.kind \in {"file", "dir", "dev", "read", "write"}
      /\ r.rest \in Seq(Elems) /\ r.parent \in BOOLEAN /\ r.ip \in 0..NINODES /\ r.held \in 0..NINODES
      /\ r.new \in [abs : BOOLEAN, names : Seq(Elems)] /\ 0 \in 0..NINODES
           /\ "link2" \in Started \cup {"none"}
  BY CalIs, Numbers DEF Started
<1> QED  BY ONLY <1>2, <1>3, h \in 0..NINODES, a \in 0..NINODES, b \in Seq(Elems) DEF InCall

(* The fields of NoCall. *)
LEMMA NoCallIs ==
  /\ NoCall \in InCall /\ NoCall.op = "none" /\ NoCall.ip = 0 /\ NoCall.held = 0
<1>1. <<>> \in Seq(Elems) /\ 0 \in 0..NINODES
  BY Numbers
<1> QED  BY <1>1 DEF NoCall, InCall

(* The pieces of p's state that a call leaves alone. *)
LEMMA RestIs ==
  ASSUME Core, NEW p \in Procs, Rest
  PROVE  /\ cwd' = [cwd EXCEPT ![p] = cwd[p]] /\ fd' = [fd EXCEPT ![p] = fd[p]] /\ left' \in Nat
         /\ cwd[p] \in Inums /\ fd[p] \in 0..NINODES
BY DEF Core, TypeOK, Rest

(* What a process points to surely, by kind. *)
LEMMA OldSafe ==
  ASSUME Core, NEW p \in Procs
  PROVE  /\ SafeFor(p, cwd[p]) /\ (fd[p] # 0 => SafeFor(p, fd[p]))
         /\ c[p].held # 0 /\ (pc[p] # "exists" \/ ~Climbs) => SafeFor(p, c[p].held)
         /\ c[p].ip # 0 /\ (pc[p] \in InParent \cup {"unlockdp"} \/ ~Climbs) => SafeFor(p, c[p].ip)
<1>1. /\ Points(p, "cwd") = cwd[p] /\ Points(p, "fd") = fd[p] /\ Points(p, "ip") = c[p].ip
      /\ Points(p, "held") = c[p].held
  BY PointsAre
<1>2. "cwd" \in Kinds /\ "fd" \in Kinds /\ "ip" \in Kinds /\ "held" \in Kinds
  BY DEF Kinds
<1>3. cwd[p] # 0
  BY CoreTypes, Numbers
<1>4. Sure(p, "cwd") /\ Sure(p, "fd")
  BY DEF Sure
<1>5. pc[p] # "exists" \/ ~Climbs => Sure(p, "held")
  BY DEF Sure
<1>6. pc[p] \in InParent \cup {"unlockdp"} \/ ~Climbs => Sure(p, "ip")
  BY DEF Sure
<1>7. SurePointers
  BY DEF Core
<1> QED  BY <1>1, <1>2, <1>3, <1>4, <1>5, <1>6, <1>7, OldSure

(* ip and held are counted. *)
LEMMA OldRef ==
  ASSUME Core, NEW p \in Procs
  PROVE  /\ c[p].ip # 0 => c[p].ip \in Inums /\ k.ref[c[p].ip] > 0
         /\ c[p].held # 0 => c[p].held \in Inums /\ k.ref[c[p].held] > 0
         /\ fd[p] # 0 => fd[p] \in Inums /\ k.ref[fd[p]] > 0
         /\ cwd[p] \in Inums /\ k.ref[cwd[p]] > 0
<1>1. /\ Points(p, "cwd") = cwd[p] /\ Points(p, "fd") = fd[p] /\ Points(p, "ip") = c[p].ip
      /\ Points(p, "held") = c[p].held
  BY PointsAre
<1>2. "cwd" \in Kinds /\ "fd" \in Kinds /\ "ip" \in Kinds /\ "held" \in Kinds
  BY DEF Kinds
<1>3. /\ c[p].ip # 0 => c[p].ip \in Inums
      /\ c[p].held # 0 => c[p].held \in Inums
      /\ fd[p] # 0 => fd[p] \in Inums
      /\ cwd[p] \in Inums /\ k.ref \in [Inums -> Nat] /\ RefsExact
  BY CoreTypes, CalIs, Numbers DEF Core
<1> QED  BY <1>1, <1>2, <1>3, HasRef

(* ilock of an inode that p refers to, whose lock is free. *)
LEMMA Locking ==
  ASSUME Core, NEW p \in Procs, NEW i \in Inums, k.ref[i] > 0, k.lock[i] = None
  PROVE  LET t == ilock(k, p, i) IN
         /\ t \in Kernel /\ t.ic[i] = k.di[i]
         /\ k.di[i].type = "free" => t.panic = "ilock: no type"
         /\ k.di[i].type # "free" => Becomes(t, k.di, k.ref, With(k.lock, i, p))
         /\ iunlock(t, i) \in Kernel
         /\ k.di[i].type = "free" => iunlock(t, i).panic # "no"
         /\ k.di[i].type # "free" => Becomes(iunlock(t, i), k.di, k.ref, k.lock)
<1> DEFINE t == ilock(k, p, i)
<1>1. /\ t \in Kernel /\ t.ic[i] = k.di[i]
      /\ k.di[i].type = "free" => t.panic = "ilock: no type"
      /\ k.di[i].type # "free" => Becomes(t, k.di, k.ref, With(k.lock, i, p))
  BY CoreGood, GoodIlock
<1> HIDE DEF t
<1>2. iunlock(t, i) \in Kernel /\ (t.panic # "no" => iunlock(t, i).panic # "no")
  BY <1>1, IunlockIs DEF Stays
<1>3. ASSUME k.di[i].type # "free" PROVE Becomes(iunlock(t, i), k.di, k.ref, k.lock)
  <2>1. Good(t) /\ t.di = k.di /\ t.ref = k.ref /\ t.lock = With(k.lock, i, p)
    BY <1>1, <1>3 DEF Becomes
  <2>2. Becomes(iunlock(t, i), t.di, t.ref, With(t.lock, i, None))
    BY <2>1, GoodIunlock
  <2>3. With(With(k.lock, i, p), i, None) = k.lock
    <3>1. k.lock \in [Inums -> Procs \cup {None}] /\ p \in Procs \cup {None}
      BY CoreTypes
    <3> QED  BY <3>1 DEF With
  <2> QED  BY <2>1, <2>2, <2>3
<1> QED  BY <1>1, <1>2, <1>3 DEF t

(* The locks p has between its steps. *)
LEMMA HasLocks ==
  ASSUME Core, NEW p \in Procs, puts[p] = <<>>
  PROVE  \A i \in Inums : k.lock[i] = p <=> \/ pc[p] \in {"ialloc", "erase", "unlockdp"} /\ i = c[p].ip
                                            \/ pc[p] \in {"opened", "erased"} /\ i = c[p].held
<1>1. stage[p] = "lock"
  BY AtIs
<1> QED  BY <1>1 DEF Core, Locks, Locked

(* the places without a lock *)
NoLock == Labels \ {"ialloc", "erase", "unlockdp", "opened", "erased"}

(* A step between places without a lock changes none. *)
LEMMA SameLocks ==
  ASSUME Core, NEW p \in Procs, puts[p] = <<>>, pc[p] \in NoLock, NEW l \in NoLock, NEW r
  PROVE  LocksFit(p, k.lock, l, r)
BY HasLocks DEF LocksFit, NoLock

(* The references after a call, by the pointers p has then. *)
LEMMA FitRefs ==
  ASSUME Core, NEW p \in Procs, puts[p] = <<>>, NEW ref, NEW w, NEW f, NEW r, NEW q, NEW x, NEW y,
         NEW a, NEW b,
         ref \in [Inums -> Nat], r.ip = x, r.held = y, Put(q, 1) = a, Put(q, 2) = b,
         \A i \in Inums : ref[i] + Is(cwd[p], i) + Is(fd[p], i) + Is(c[p].ip, i) + Is(c[p].held, i)
                            = k.ref[i] + Is(w, i) + Is(f, i) + Is(x, i) + Is(y, i) + Is(a, i) + Is(b, i)
  PROVE  RefsFit(p, ref, w, f, r, q)
<1> SUFFICES ASSUME NEW i \in Inums
             PROVE  ref[i] + Ptrs(cwd[p], fd[p], c[p], puts[p], i) = k.ref[i] + Ptrs(w, f, r, q, i)
  BY DEF RefsFit
<1>1. Is(0, i) = 0 /\ \A z : Is(z, i) \in Nat
  BY IsIs
<1>2. k.ref[i] \in Nat /\ ref[i] \in Nat
  BY CoreTypes
<1>3. Put(puts[p], 1) = 0 /\ Put(puts[p], 2) = 0
  BY PutIs
<1>4. Ptrs(w, f, r, q, i) = Is(w, i) + Is(f, i) + Is(x, i) + Is(y, i) + Is(a, i) + Is(b, i)
  BY DEF Ptrs
<1>5. Ptrs(cwd[p], fd[p], c[p], puts[p], i) = Is(cwd[p], i) + Is(fd[p], i) + Is(c[p].ip, i) + Is(c[p].held, i)
  BY <1>1, <1>3 DEF Ptrs
<1>6. ref[i] + Is(cwd[p], i) + Is(fd[p], i) + Is(c[p].ip, i) + Is(c[p].held, i)
        = k.ref[i] + Is(w, i) + Is(f, i) + Is(x, i) + Is(y, i) + Is(a, i) + Is(b, i)
  OBVIOUS
<1>7. /\ Is(cwd[p], i) \in Nat /\ Is(fd[p], i) \in Nat /\ Is(c[p].ip, i) \in Nat
        /\ Is(c[p].held, i) \in Nat
      /\ Is(w, i) \in Nat /\ Is(f, i) \in Nat /\ Is(x, i) \in Nat /\ Is(y, i) \in Nat /\ Is(a, i) \in Nat
           /\ Is(b, i) \in Nat
  BY <1>1
<1> QED  BY ONLY <1>2, <1>4, <1>5, <1>6, <1>7

(* A call that returns. *)
LEMMA QuietReturn ==
  ASSUME Core, NEW p \in Procs, NEW s, NEW q, NEW w, NEW f,
         NEW ref, NEW lock, Becomes(s, k.di, ref, lock), Goes(p, s, "idle", NoCall, q, w, f),
         RefsFit(p, ref, w, f, NoCall, q), LocksFit(p, lock, "idle", NoCall), Len(q) <= 2,
         SafeFor(p, w), f # 0 => SafeFor(p, f), pc[p] # "ialloc",
         ~Climbs => (Put(q, 1) # 0 => SafeFor(p, Put(q, 1))) /\ (Put(q, 2) # 0 => SafeFor(p, Put(q, 2)))
  PROVE  IInv'
<1>1. NoCall.op = "none" /\ NoCall.ip = 0 /\ NoCall.held = 0
  BY NoCallIs
<1> DEFINE l == "idle"
           r == NoCall
<1>2. PlaceFit(l, r, q)
  BY <1>1 DEF PlaceFit, InParent, Started
<1>3. KnowsFit(k.di, l, r, q)
  BY <1>1 DEF KnowsFit, InParent
<1>4. SureFit(p, l, r, q, w, f)
  BY <1>1 DEF SureFit, InParent
<1>5. l # "ialloc" /\ ~(r.op = "link2" \/ l = "erased")
  BY <1>1
<1>6. Goes(p, s, l, r, q, w, f) /\ RefsFit(p, ref, w, f, r, q) /\ LocksFit(p, lock, l, r)
  OBVIOUS
<1> HIDE DEF l, r
<1> QED  BY ONLY <1>2, <1>3, <1>4, <1>5, <1>6, Core, p \in Procs, Becomes(s, k.di, ref, lock),
                 pc[p] # "ialloc", QuietGoto

(* NoInode: the call fails, with ip to put and no lock. *)
LEMMA NoInodeKeeps ==
  ASSUME Core, NEW p \in Procs, puts[p] = <<>>, pc[p] = "walk", NEW s \in Kernel,
         NoInode(p, s, <<c[p].ip>>), Rest,
         s.panic # "no" \/ Becomes(s, k.di, k.ref, k.lock)
  PROVE  IInv'
<1> DEFINE ip == c[p].ip
           q == <<ip>>
           w == cwd[p]
           f == fd[p]
<1>1. Place(p) /\ c[p] \in InCall
  BY CoreTypes
<1>2. ip # 0 /\ ip \in Inums
  BY <1>1, OldRef DEF Place, HasIp
<1>3. cwd' = [cwd EXCEPT ![p] = w] /\ fd' = [fd EXCEPT ![p] = f] /\ left' \in Nat /\ w \in Inums
        /\ f \in 0..NINODES
  BY RestIs
<1>4. q \in Seq(Inums) /\ Len(q) <= 2 /\ Put(q, 1) = ip /\ Put(q, 2) = 0 /\ Put(puts[p], 1) = 0
        /\ Put(puts[p], 2) = 0
  BY <1>2, PutIs
<1>5. /\ SafeFor(p, w) /\ (f # 0 => SafeFor(p, f)) /\ (c[p].held # 0 => SafeFor(p, c[p].held))
      /\ ~Climbs => (Put(q, 1) # 0 => SafeFor(p, Put(q, 1))) /\ (Put(q, 2) # 0 => SafeFor(p, Put(q, 2)))
  BY <1>2, <1>4, OldSafe
<1>6. k.ref \in [Inums -> Nat]
  BY CoreTypes
<1>7. CASE c[p].op = "link2"
  <2> DEFINE r == NoIp(c[p])
             l == "linkbad"
  <2>1. c[p] \in InCall /\ r = NoIp(c[p])
    BY <1>1
  <2> HIDE DEF r
  <2>3. r \in InCall /\ r.op = c[p].op /\ r.rest = c[p].rest /\ r.ip = 0 /\ r.held = c[p].held
          /\ r.kind = c[p].kind
    BY ONLY <2>1, CalNoIp
  <2>4. Goto(p, s, l, r, q)
    BY <1>7 DEF NoInode, r, NoIp
  <2>5. Typed(l, r, q, w, f)
    BY <1>3, <1>4, <2>3 DEF Typed, Labels, Started
  <2>6. Goes(p, s, l, r, q, w, f)
    BY <1>3, <2>4, <2>5 DEF Goes
  <2>7. CASE s.panic # "no"
    BY <2>6, <2>7, PanicGoto
  <2>8. CASE Becomes(s, k.di, k.ref, k.lock)
    <3>1. RefsFit(p, k.ref, w, f, r, q)
      <4>1. ASSUME NEW i \in Inums
            PROVE  k.ref[i] + Is(cwd[p], i) + Is(fd[p], i) + Is(c[p].ip, i) + Is(c[p].held, i)
                     = k.ref[i] + Is(w, i) + Is(f, i) + Is(0, i) + Is(c[p].held, i) + Is(ip, i) + Is(0, i)
        BY <1>6, IsIs
      <4> HIDE DEF q, w, f, ip
      <4> QED  BY ONLY <1>4, <1>6, <2>3, <4>1, Core, p \in Procs, puts[p] = <<>>, FitRefs
    <3>2. LocksFit(p, k.lock, l, r)
      BY SameLocks DEF NoLock, Labels, Started
    <3>3. PlaceFit(l, r, q)
      BY <1>1, <1>4, <1>7, <2>3 DEF PlaceFit, Place, HasHeld, HasIp, InParent, Started
    <3>4. KnowsFit(k.di, l, r, q)
      <4>1. Knows(p)
        BY CoreTypes
      <4> QED  BY <1>7, <2>3, <4>1 DEF KnowsFit, Knows, InParent
    <3>5. SureFit(p, l, r, q, w, f)
      BY <1>5, <2>3 DEF SureFit
    <3>6. pc[p] # "ialloc" /\ l # "ialloc" /\ (c[p].op = "link2" \/ pc[p] = "erased")
            /\ c[p].held = r.held
      BY <1>7, <2>3
    <3> HIDE DEF l, q, w, f
    <3> QED  BY ONLY <2>6, <2>8, <3>1, <3>2, <3>3, <3>4, <3>5, <3>6, Core, p \in Procs, QuietGoto
  <2> QED  BY <2>7, <2>8
<1>8. CASE c[p].op # "link2"
  <2>1. Goto(p, s, "idle", NoCall, q)
    BY <1>8 DEF NoInode, Return
  <2>2. Typed("idle", NoCall, q, w, f)
    BY <1>3, <1>4, NoCallIs DEF Typed, Labels
  <2>3. Goes(p, s, "idle", NoCall, q, w, f)
    BY <1>3, <2>1, <2>2 DEF Goes
  <2>4. CASE s.panic # "no"
    BY <2>3, <2>4, PanicGoto
  <2>5. CASE Becomes(s, k.di, k.ref, k.lock)
    <3>0. c[p].held = 0
      BY <1>1, <1>8 DEF Place, HasHeld
    <3>1. RefsFit(p, k.ref, w, f, NoCall, q)
      <4> SUFFICES ASSUME NEW i \in Inums
                   PROVE  k.ref[i] + Ptrs(cwd[p], fd[p], c[p], puts[p], i) = k.ref[i] + Ptrs(w, f, NoCall, q, i)
        BY DEF RefsFit
      <4>1. Is(0, i) = 0 /\ \A x : Is(x, i) \in Nat
        BY IsIs
      <4>2. NoCall.ip = 0 /\ NoCall.held = 0
        BY NoCallIs
      <4> HIDE DEF q, ip
      <4> QED  BY <1>4, <1>6, <3>0, <4>1, <4>2, SMTT(20) DEF Ptrs, ip
    <3>2. LocksFit(p, k.lock, "idle", NoCall)
      BY SameLocks DEF NoLock, Labels, Started
    <3>3. pc[p] # "ialloc"
      OBVIOUS
    <3> HIDE DEF q, w, f
    <3> QED  BY ONLY <1>4, <1>5, <2>3, <2>5, <3>1, <3>2, <3>3, Core, p \in Procs, QuietReturn
  <2> QED  BY <2>4, <2>5
<1> QED  BY <1>7, <1>8

(* A call that changes no inode on the disk, or panics. *)
LEMMA QuietMove ==
  ASSUME Core, NEW p \in Procs, puts[p] = <<>>, NEW s \in Kernel, NEW l, NEW r, NEW q, NEW w, NEW f,
         Typed(l, r, q, w, f), Goto(p, s, l, r, q),
         cwd' = [cwd EXCEPT ![p] = w], fd' = [fd EXCEPT ![p] = f], left' \in Nat,
         NEW ref, NEW lock,
         \/ s.panic # "no"
         \/ /\ Becomes(s, k.di, ref, lock)
            /\ RefsFit(p, ref, w, f, r, q) /\ LocksFit(p, lock, l, r) /\ PlaceFit(l, r, q)
            /\ KnowsFit(k.di, l, r, q) /\ SureFit(p, l, r, q, w, f),
         pc[p] # "ialloc", l # "ialloc",
         r.op = "link2" \/ l = "erased" => (c[p].op = "link2" \/ pc[p] = "erased") /\ c[p].held = r.held
  PROVE  IInv'
<1>1. Goes(p, s, l, r, q, w, f)
  BY DEF Goes
<1>2. CASE s.panic # "no"
  BY <1>1, <1>2, PanicGoto
<1>3. CASE s.panic = "no"
  BY <1>1, <1>3, QuietGoto
<1> QED  BY <1>2, <1>3

(* The same for a call that returns. *)
LEMMA ReturnMove ==
  ASSUME Core, NEW p \in Procs, puts[p] = <<>>, NEW s \in Kernel, NEW q \in Seq(Inums),
         NEW w \in Inums, NEW f \in 0..NINODES,
         Return(p, s, q),
         cwd' = [cwd EXCEPT ![p] = w], fd' = [fd EXCEPT ![p] = f], left' \in Nat,
         NEW ref, NEW lock,
         \/ s.panic # "no"
         \/ /\ Becomes(s, k.di, ref, lock)
            /\ RefsFit(p, ref, w, f, NoCall, q) /\ LocksFit(p, lock, "idle", NoCall) /\ Len(q) <= 2
            /\ SafeFor(p, w) /\ (f # 0 => SafeFor(p, f))
            /\ ~Climbs => (Put(q, 1) # 0 => SafeFor(p, Put(q, 1)))
                 /\ (Put(q, 2) # 0 => SafeFor(p, Put(q, 2))),
         pc[p] # "ialloc"
  PROVE  IInv'
<1>0. Typed("idle", NoCall, q, w, f)
  BY NoCallIs DEF Typed, Labels
<1>1. Goes(p, s, "idle", NoCall, q, w, f)
  BY <1>0 DEF Goes, Return
<1>2. CASE s.panic # "no"
  BY <1>1, <1>2, PanicGoto
<1>3. CASE s.panic = "no"
  BY <1>1, <1>3, QuietReturn
<1> QED  BY <1>2, <1>3

(* p lets go of the lock it has, or takes its first. *)
LEMMA LockFrees ==
  ASSUME Core, NEW p \in Procs, NEW i \in Inums, \A j \in Inums : k.lock[j] = p <=> j = i,
         NEW l \in NoLock, NEW r
  PROVE  LocksFit(p, With(k.lock, i, None), l, r)
<1>1. k.lock \in [Inums -> Procs \cup {None}] /\ None # p
  BY CoreTypes, Numbers
<1>2. /\ With(k.lock, i, None)[i] = None
      /\ \A j \in Inums : j # i => With(k.lock, i, None)[j] = k.lock[j]
  BY <1>1 DEF With
<1> DEFINE lock == With(k.lock, i, None)
<1> HIDE DEF lock
<1> QED  BY <1>1, <1>2 DEF LocksFit, NoLock, lock

(* A step that takes one lock, and has none before. *)
LEMMA LockTakes ==
  ASSUME Core, NEW p \in Procs, puts[p] = <<>>, pc[p] \in NoLock, NEW i \in Inums, k.lock[i] = None,
         NEW l, NEW r,
         \/ l \in {"ialloc", "erase", "unlockdp"} /\ r.ip = i
         \/ l \in {"opened", "erased"} /\ r.held = i
  PROVE  LocksFit(p, With(k.lock, i, p), l, r)
<1>1. k.lock \in [Inums -> Procs \cup {None}] /\ None # p
  BY CoreTypes, Numbers
<1>2. /\ With(k.lock, i, p)[i] = p
      /\ \A j \in Inums : j # i => With(k.lock, i, p)[j] = k.lock[j]
  BY <1>1 DEF With
<1>3. \A j \in Inums : k.lock[j] # p
  BY HasLocks DEF NoLock
<1> DEFINE lock == With(k.lock, i, p)
<1> HIDE DEF lock
<1> QED  BY <1>1, <1>2, <1>3 DEF LocksFit, lock

(* dirlookup in a directory that is unlocked, and iget of what it found. *)
LEMMA Finding ==
  ASSUME Core, NEW p \in Procs, NEW d \in Inums, k.ref[d] > 0, k.lock[d] = None, NEW j \in Inums
  PROVE  LET u == iget(ilock(k, p, d), j)
             t == iunlock(u, d)
         IN  /\ u \in Kernel /\ t \in Kernel
             /\ u.panic # "no" \/ Becomes(u, k.di, With(k.ref, j, k.ref[j] + 1), With(k.lock, d, p))
             /\ t.panic # "no" \/ Becomes(t, k.di, With(k.ref, j, k.ref[j] + 1), k.lock)
<1> DEFINE l == ilock(k, p, d)
           u == iget(l, j)
           t == iunlock(u, d)
<1>1. /\ l \in Kernel
      /\ k.di[d].type = "free" => l.panic = "ilock: no type"
      /\ k.di[d].type # "free" => Becomes(l, k.di, k.ref, With(k.lock, d, p))
  BY Locking
<1> HIDE DEF l
<1>2. u \in Kernel /\ (l.panic # "no" => u.panic # "no")
  BY <1>1, IgetIs DEF Stays
<1>3. ASSUME l.panic = "no" PROVE u.panic # "no" \/ Becomes(u, k.di, With(k.ref, j, k.ref[j] + 1), With(k.lock, d, p))
  <2>1. Good(l) /\ l.di = k.di /\ l.ref = k.ref /\ l.lock = With(k.lock, d, p)
    BY <1>1, <1>3 DEF Becomes
  <2>2. u.panic = "iget: no inodes" \/ Becomes(u, l.di, With(l.ref, j, l.ref[j] + 1), l.lock)
    BY <2>1, GoodIget
  <2> QED  BY <2>1, <2>2
<1> HIDE DEF u
<1>4. t \in Kernel /\ (u.panic # "no" => t.panic # "no")
  BY <1>2, IunlockIs DEF Stays
<1>5. ASSUME u.panic = "no" PROVE Becomes(t, k.di, With(k.ref, j, k.ref[j] + 1), k.lock)
  <2>1. Good(u) /\ u.di = k.di /\ u.ref = With(k.ref, j, k.ref[j] + 1) /\ u.lock = With(k.lock, d, p)
    BY <1>2, <1>3, <1>5 DEF Becomes
  <2>2. Becomes(t, u.di, u.ref, With(u.lock, d, None))
    BY <2>1, GoodIunlock
  <2>3. With(With(k.lock, d, p), d, None) = k.lock
    <3>1. k.lock \in [Inums -> Procs \cup {None}] /\ p \in Procs \cup {None}
      BY CoreTypes
    <3> QED  BY <3>1 DEF With
  <2> QED  BY <2>1, <2>2, <2>3
<1> QED  BY <1>2, <1>3, <1>4, <1>5 DEF l, u, t

(* A count more is still a count. *)
LEMMA RefsWith ==
  ASSUME Core, NEW j \in Inums
  PROVE  With(k.ref, j, k.ref[j] + 1) \in [Inums -> Nat] /\ k.ref \in [Inums -> Nat]
BY DEF With, Core, TypeOK, Kernel

(* Put of one inode and of none. *)
LEMMA PutOne ==
  ASSUME NEW i \in Inums
  PROVE  /\ <<i>> \in Seq(Inums) /\ Len(<<i>>) <= 2 /\ Put(<<i>>, 1) = i /\ Put(<<i>>, 2) = 0 /\ i # 0
         /\ <<>> \in Seq(Inums) /\ Len(<<>>) <= 2 /\ Put(<<>>, 1) = 0 /\ Put(<<>>, 2) = 0
BY PutIs, Numbers

(* close puts the open file. IInv is kept. *)
LEMMA CloseKeeps ==
  ASSUME Core, NEW p \in Procs, Close(p) PROVE IInv'
<1> DEFINE f == fd[p]
           q == <<f>>
<1>1. pc[p] = "idle" /\ puts[p] = <<>> /\ f # 0 /\ Return(p, k, <<f>>) /\ fd' = [fd EXCEPT ![p] = 0]
        /\ cwd' = cwd /\ left' = left
  BY DEF Close, At
<1>2. f \in Inums /\ cwd[p] \in Inums /\ 0 \in 0..NINODES
  BY <1>1, OldRef, Numbers
<1>3. c[p].ip = 0 /\ c[p].held = 0 /\ k.ref \in [Inums -> Nat] /\ k \in Kernel
  BY <1>1, CoreTypes, NoCallIs DEF Place
<1>4. cwd' = [cwd EXCEPT ![p] = cwd[p]] /\ left' \in Nat
  BY <1>1 DEF Core, TypeOK
<1>5. Becomes(k, k.di, k.ref, k.lock)
  BY CoreGood DEF Becomes
<1>6. RefsFit(p, k.ref, cwd[p], 0, NoCall, <<f>>)
  <2>1. ASSUME NEW i \in Inums
        PROVE  k.ref[i] + Is(cwd[p], i) + Is(fd[p], i) + Is(c[p].ip, i) + Is(c[p].held, i)
                     = k.ref[i] + Is(cwd[p], i) + Is(0, i) + Is(0, i) + Is(0, i) + Is(f, i) + Is(0, i)
    BY <1>3, IsIs
  <2> HIDE DEF f
  <2> QED  BY <1>1, <1>2, <1>3, <2>1, FitRefs, NoCallIs, PutOne
<1>7. LocksFit(p, k.lock, "idle", NoCall)
  BY <1>1, SameLocks DEF NoLock, Labels, Started
<1>8. SafeFor(p, cwd[p]) /\ SafeFor(p, f)
  BY <1>1, OldSafe
<1> HIDE DEF f
<1> QED  BY <1>1, <1>2, <1>3, <1>4, <1>5, <1>6, <1>7, <1>8, ReturnMove, PutOne

(* The end of open, mkdir and mknod. IInv is kept. *)
LEMMA OpenedKeeps ==
  ASSUME Core, NEW p \in Procs, Opened(p) PROVE IInv'
<1> DEFINE ip == c[p].held
           opens == c[p].kind \notin {"dir", "dev"} /\ fd[p] = 0
           q == IF opens THEN <<>> ELSE <<ip>>
           f == IF opens THEN ip ELSE fd[p]
           s == iunlock(k, ip)
           lock == With(k.lock, ip, None)
<1>1. pc[p] = "opened" /\ puts[p] = <<>> /\ Return(p, s, q) /\ fd' = [fd EXCEPT ![p] = f] /\ cwd' = cwd
        /\ left' = left
  BY DEF Opened, At
<1>2. c[p].ip = 0 /\ c[p].held # 0 /\ k.ref \in [Inums -> Nat] /\ k \in Kernel
  BY <1>1, CoreTypes DEF Place, HasHeld, HasIp, InParent
<1>3. ip \in Inums /\ cwd[p] \in Inums /\ 0 \in 0..NINODES /\ fd[p] \in 0..NINODES
        /\ Inums \subseteq 0..NINODES
  BY <1>2, OldRef, Numbers, CoreTypes
<1>4. cwd' = [cwd EXCEPT ![p] = cwd[p]] /\ left' \in Nat
  BY <1>1 DEF Core, TypeOK
<1>5. Becomes(s, k.di, k.ref, lock)
  BY <1>3, CoreGood, GoodIunlock
<1>6. q \in Seq(Inums) /\ Len(q) <= 2 /\ Put(q, 2) = 0 /\ Put(q, 1) = IF opens THEN 0 ELSE ip
  BY <1>3, PutOne
<1>7. RefsFit(p, k.ref, cwd[p], f, NoCall, q)
  <2> DEFINE a == IF opens THEN 0 ELSE ip
  <2>1. ASSUME NEW i \in Inums
        PROVE  k.ref[i] + Is(cwd[p], i) + Is(fd[p], i) + Is(c[p].ip, i) + Is(c[p].held, i)
                     = k.ref[i] + Is(cwd[p], i) + Is(f, i) + Is(0, i) + Is(0, i) + Is(a, i) + Is(0, i)
    <3>1. CASE opens
      <4>1. f = ip /\ a = 0 /\ fd[p] = 0
        BY <3>1
      <4> HIDE DEF f, a
      <4> QED  BY <1>2, <4>1, IsIs
    <3>2. CASE ~opens
      <4>1. f = fd[p] /\ a = ip
        BY <3>2
      <4> HIDE DEF f, a
      <4> QED  BY <1>2, <4>1, IsIs
    <3> QED  BY <3>1, <3>2
  <2> HIDE DEF f, a
  <2>2. Put(q, 1) = a /\ Put(q, 2) = 0
    BY <1>6 DEF a
  <2> HIDE DEF q
  <2> QED  BY <1>1, <1>2, <2>1, <2>2, FitRefs, NoCallIs
<1>8. LocksFit(p, lock, "idle", NoCall)
  <2>1. \A j \in Inums : k.lock[j] = p <=> j = ip
    BY <1>1, HasLocks
  <2>2. "idle" \in NoLock
    BY DEF NoLock, Labels
  <2> QED  BY <1>3, <2>1, <2>2, LockFrees
<1>9. SafeFor(p, cwd[p]) /\ (fd[p] # 0 => SafeFor(p, fd[p])) /\ SafeFor(p, ip)
  BY <1>1, <1>2, OldSafe
<1>10. f \in 0..NINODES /\ (f # 0 => SafeFor(p, f)) /\ (Put(q, 1) # 0 => SafeFor(p, Put(q, 1)))
  BY <1>3, <1>6, <1>9
<1>11. s \in Kernel
  BY <1>5 DEF Becomes, Good
<1>12. pc[p] # "ialloc"
  BY <1>1
<1> HIDE DEF f, q, s, lock
<1> QED  BY ONLY <1>1, <1>3, <1>4, <1>5, <1>6, <1>7, <1>8, <1>9, <1>10, <1>11, <1>12, Core,
                 p \in Procs, ReturnMove

(* A call that locks an inode, unlocks it and returns with it to put. *)
LEMMA Returns ==
  ASSUME Core, NEW p \in Procs, puts[p] = <<>>, pc[p] \in NoLock, NEW i \in Inums, k.lock[i] = None,
         \/ c[p].ip = i /\ c[p].held = 0
         \/ c[p].ip = 0 /\ c[p].held = i,
         Return(p, iunlock(ilock(k, p, i), i), <<i>>), Rest
  PROVE  IInv'
<1> DEFINE s == iunlock(ilock(k, p, i), i)
<1>1. k.ref[i] > 0
  BY OldRef, Numbers
<1>2. s \in Kernel /\ (s.panic # "no" \/ Becomes(s, k.di, k.ref, k.lock))
  BY <1>1, Locking
<1>3. RefsFit(p, k.ref, cwd[p], fd[p], NoCall, <<i>>)
  <2>1. ASSUME NEW j \in Inums
        PROVE  k.ref[j] + Is(cwd[p], j) + Is(fd[p], j) + Is(c[p].ip, j) + Is(c[p].held, j)
                     = k.ref[j] + Is(cwd[p], j) + Is(fd[p], j) + Is(0, j) + Is(0, j) + Is(i, j) + Is(0, j)
    BY CoreTypes, IsIs, SMTT(20)
  <2> QED  BY <2>1, FitRefs, NoCallIs, PutOne, CoreTypes
<1>4. LocksFit(p, k.lock, "idle", NoCall)
  BY SameLocks DEF NoLock, Labels
<1>5. SafeFor(p, cwd[p]) /\ (fd[p] # 0 => SafeFor(p, fd[p])) /\ (~Climbs => SafeFor(p, i))
  BY OldSafe, Numbers
<1>6. /\ <<i>> \in Seq(Inums) /\ Len(<<i>>) <= 2 /\ Put(<<i>>, 1) = i /\ Put(<<i>>, 2) = 0
  BY PutOne
<1>7. cwd' = [cwd EXCEPT ![p] = cwd[p]] /\ fd' = [fd EXCEPT ![p] = fd[p]] /\ left' \in Nat
        /\ cwd[p] \in Inums /\ fd[p] \in 0..NINODES
  BY RestIs
<1>8. pc[p] # "ialloc"
  BY DEF NoLock
<1>9. Return(p, s, <<i>>)
  OBVIOUS
<1> DEFINE q == <<i>>
<1>10. /\ Return(p, s, q) /\ q \in Seq(Inums) /\ Len(q) <= 2
         /\ RefsFit(p, k.ref, cwd[p], fd[p], NoCall, q)
       /\ Put(q, 1) = i /\ Put(q, 2) = 0
  BY <1>3, <1>6
<1> HIDE DEF s, q
<1> QED  BY ONLY <1>2, <1>4, <1>5, <1>7, <1>8, <1>10, Core, p \in Procs, puts[p] = <<>>, ReturnMove

(* What p refers to by ip or held, once it has locked it. *)
LEMMA FoundLocked ==
  ASSUME Core, NEW p \in Procs, puts[p] = <<>>, NEW i \in Inums, k.lock[i] \in {p, None},
         k.di[i].type # "free",
         c[p].ip = i \/ c[p].held = i \/ fd[p] = i
  PROVE  SafeFor(p, i)
<1>1. Points(p, "ip") = c[p].ip /\ Points(p, "held") = c[p].held /\ Points(p, "fd") = fd[p]
  BY PointsAre
<1>2. "ip" \in Kinds /\ "held" \in Kinds /\ "fd" \in Kinds
  BY DEF Kinds
<1>3. PICK x \in {"ip", "held", "fd"} : Points(p, x) = i
  BY <1>1
<1>4. x \in Kinds /\ x # "put1"
  BY <1>2
<1> QED  BY <1>3, <1>4, LockedSafe

(* A call that ends with the inode it opens locked. *)
LEMMA OpensIt ==
  ASSUME Core, NEW p \in Procs, puts[p] = <<>>, pc[p] \in NoLock, NEW i \in Inums, k.lock[i] = None,
         \/ c[p].ip = i /\ c[p].held = 0
         \/ c[p].ip = 0 /\ c[p].held = i,
         NEW r \in InCall, r.ip = 0, r.held = i, r.op = c[p].op, r.kind = c[p].kind,
         c[p].op # "link2",
         Goto(p, ilock(k, p, i), "opened", r, <<>>), Rest
  PROVE  IInv'
<1> DEFINE s == ilock(k, p, i)
           l == "opened"
           q == <<>>
           lock == With(k.lock, i, p)
           w == cwd[p]
           f == fd[p]
<1>0. k.ref[i] > 0
  BY OldRef, Numbers
<1>1. s \in Kernel /\ (s.panic # "no" \/ (Becomes(s, k.di, k.ref, lock) /\ k.di[i].type # "free"))
  BY <1>0, Locking
<1>2. q \in Seq(Inums) /\ Len(q) <= 2 /\ Put(q, 1) = 0 /\ Put(q, 2) = 0
  BY PutOne
<1>3. RefsFit(p, k.ref, w, f, r, q)
  <2>1. ASSUME NEW j \in Inums
        PROVE  k.ref[j] + Is(cwd[p], j) + Is(fd[p], j) + Is(c[p].ip, j) + Is(c[p].held, j)
                     = k.ref[j] + Is(cwd[p], j) + Is(fd[p], j) + Is(0, j) + Is(i, j) + Is(0, j) + Is(0, j)
    <3>1. /\ k.ref[j] \in Nat /\ Is(0, j) = 0 /\ Is(i, j) \in Nat /\ Is(cwd[p], j) \in Nat
            /\ Is(fd[p], j) \in Nat
          /\ (c[p].ip = i /\ c[p].held = 0) \/ (c[p].ip = 0 /\ c[p].held = i)
      BY CoreTypes, IsIs
    <3> QED  BY ONLY <3>1
  <2>2. k.ref \in [Inums -> Nat] /\ r.ip = 0 /\ r.held = i
    BY CoreTypes
  <2> HIDE DEF q
  <2> QED  BY ONLY <1>2, <2>1, <2>2, Core, p \in Procs, puts[p] = <<>>, FitRefs DEF w, f
<1>4. LocksFit(p, lock, l, r)
  BY LockTakes
<1>5. PlaceFit(l, r, q)
  BY <1>2, CoreTypes, Numbers DEF PlaceFit, Place, InParent, Started
<1>6. KnowsFit(k.di, l, r, q)
  BY DEF KnowsFit, InParent
<1>7. ASSUME k.di[i].type # "free" PROVE SureFit(p, l, r, q, w, f)
  <2>1. SafeFor(p, i)
    BY <1>7, FoundLocked
  <2> HIDE DEF q
  <2> QED  BY <2>1, <1>2, OldSafe DEF SureFit
<1>8. cwd' = [cwd EXCEPT ![p] = w] /\ fd' = [fd EXCEPT ![p] = f] /\ left' \in Nat /\ w \in Inums
        /\ f \in 0..NINODES
  BY RestIs
<1>9. Typed(l, r, q, w, f)
  BY <1>2, <1>8 DEF Typed, Labels
<1>10. pc[p] # "ialloc" /\ l # "ialloc" /\ ~(r.op = "link2" \/ l = "erased") /\ Goto(p, s, l, r, q)
  BY DEF NoLock
<1> HIDE DEF s, l, q, w, f, lock
<1> QED  BY ONLY <1>1, <1>3, <1>4, <1>5, <1>6, <1>7, <1>8, <1>9, <1>10, Core, p \in Procs,
                 puts[p] = <<>>, QuietMove

(* open of a path without O_CREATE. IInv is kept. *)
LEMMA OpenKeeps ==
  ASSUME Core, NEW p \in Procs, Open(p) PROVE IInv'
<1> DEFINE i == c[p].ip
           r == FoundIp(c[p], i)
           t == ilock(k, p, i)
<1>1. pc[p] = "open" /\ puts[p] = <<>> /\ k.lock[i] = None /\ Rest
  BY DEF Open, At, Free
<1>2. c[p] \in InCall /\ i # 0 /\ c[p].held = 0 /\ c[p].op = "open"
  BY <1>1, CoreTypes DEF Place, HasIp, HasHeld, InParent, Started
<1>3. i \in Inums /\ i \in 0..NINODES /\ pc[p] \in NoLock
  BY <1>1, <1>2, OldRef, Numbers DEF NoLock, Labels, Started
<1>4. Return(p, iunlock(t, i), <<i>>) \/ Goto(p, t, "opened", r, <<>>)
  BY DEF Open, FoundIp
<1>5. CASE Return(p, iunlock(t, i), <<i>>)
  BY <1>1, <1>2, <1>3, <1>5, Returns
<1>6. CASE Goto(p, t, "opened", r, <<>>)
  <2>1. c[p] \in InCall /\ i \in 0..NINODES /\ r = FoundIp(c[p], i)
    BY <1>2, <1>3
  <2> HIDE DEF r, i
  <2>2. r \in InCall /\ r.op = c[p].op /\ r.kind = c[p].kind /\ r.ip = 0 /\ r.held = i
    BY ONLY <2>1, CalFound
  <2> QED  BY <1>1, <1>2, <1>3, <1>6, <2>2, OpensIt DEF i
<1> QED  BY <1>4, <1>5, <1>6

(* create finds that the name exists. IInv is kept. *)
LEMMA CreateExistsKeeps ==
  ASSUME Core, NEW p \in Procs, CreateExists(p) PROVE IInv'
<1> DEFINE i == c[p].held
           t == ilock(k, p, i)
<1>1. pc[p] = "exists" /\ puts[p] = <<>> /\ k.lock[i] = None /\ Rest
  BY DEF CreateExists, At, Free
<1>2. c[p] \in InCall /\ i # 0 /\ c[p].ip = 0 /\ c[p].op # "link2"
  BY <1>1, CoreTypes DEF Place, HasIp, HasHeld, InParent, Started
<1>3. i \in Inums /\ pc[p] \in NoLock
  BY <1>1, <1>2, OldRef, Numbers DEF NoLock, Labels, Started
<1>4. Return(p, iunlock(t, i), <<i>>) \/ Goto(p, t, "opened", c[p], <<>>)
  BY DEF CreateExists
<1>5. CASE Return(p, iunlock(t, i), <<i>>)
  BY <1>1, <1>2, <1>3, <1>5, Returns
<1>6. CASE Goto(p, t, "opened", c[p], <<>>)
  BY <1>1, <1>2, <1>3, <1>6, OpensIt
<1> QED  BY <1>4, <1>5, <1>6

(* chdir swaps the current directory, or fails. IInv is kept. *)
LEMMA ChdirKeeps ==
  ASSUME Core, NEW p \in Procs, Chdir(p) PROVE IInv'
<1> DEFINE i == c[p].ip
           s == iunlock(ilock(k, p, i), i)
           old == cwd[p]
           f == fd[p]
<1>1. pc[p] = "chdir" /\ puts[p] = <<>> /\ k.lock[i] = None /\ fd' = fd /\ left' = left
  BY DEF Chdir, At, Free
<1>2. c[p] \in InCall /\ i # 0 /\ c[p].held = 0 /\ c[p].op = "chdir"
  BY <1>1, CoreTypes DEF Place, HasIp, HasHeld, InParent, Started
<1>3. i \in Inums /\ pc[p] \in NoLock /\ old \in Inums /\ f \in 0..NINODES /\ k.ref[i] > 0
        /\ k.ref \in [Inums -> Nat]
  BY <1>1, <1>2, OldRef, Numbers, CoreTypes DEF NoLock, Labels, Started
<1>4. \/ Return(p, s, <<old>>) /\ cwd' = [cwd EXCEPT ![p] = i]
      \/ Return(p, s, <<i>>) /\ cwd' = [cwd EXCEPT ![p] = cwd[p]]
  BY DEF Chdir
<1>5. CASE Return(p, s, <<old>>) /\ cwd' = [cwd EXCEPT ![p] = i]
  <2> DEFINE q == <<old>>
  <2>1. s \in Kernel /\ (s.panic # "no" \/ (Becomes(s, k.di, k.ref, k.lock) /\ k.di[i].type # "free"))
    BY <1>1, <1>3, Locking
  <2>2. q \in Seq(Inums) /\ Len(q) <= 2 /\ Put(q, 1) = old /\ Put(q, 2) = 0
    BY <1>3, PutOne
  <2>3. RefsFit(p, k.ref, i, f, NoCall, q)
    <3>1. ASSUME NEW j \in Inums
          PROVE  k.ref[j] + Is(cwd[p], j) + Is(fd[p], j) + Is(c[p].ip, j) + Is(c[p].held, j)
                     = k.ref[j] + Is(i, j) + Is(f, j) + Is(0, j) + Is(0, j) + Is(old, j) + Is(0, j)
      BY <1>2, CoreTypes, IsIs
    <3> HIDE DEF q, i, f, old
    <3> QED  BY <1>1, <1>3, <2>2, <3>1, FitRefs, NoCallIs
  <2>4. LocksFit(p, k.lock, "idle", NoCall)
    BY <1>1, <1>3, SameLocks DEF NoLock, Labels
  <2>5. SafeFor(p, old) /\ (f # 0 => SafeFor(p, f)) /\ (k.di[i].type # "free" => SafeFor(p, i))
    BY <1>1, <1>3, OldSafe, FoundLocked
  <2>6. fd' = [fd EXCEPT ![p] = f] /\ left' \in Nat
    BY <1>1 DEF Core, TypeOK
  <2>7. Return(p, s, q) /\ cwd' = [cwd EXCEPT ![p] = i] /\ pc[p] # "ialloc"
    BY <1>1, <1>5
  <2> HIDE DEF s, q, i, f, old
  <2> QED  BY ONLY <1>1, <1>3, <2>1, <2>2, <2>3, <2>4, <2>5, <2>6, <2>7, Core, p \in Procs,
                   ReturnMove
<1>6. CASE Return(p, s, <<i>>) /\ cwd' = [cwd EXCEPT ![p] = cwd[p]]
  <2>1. Rest
    BY <1>1, <1>6 DEF Rest, Core, TypeOK
  <2> QED  BY <1>1, <1>2, <1>3, <1>6, <2>1, Returns
<1> QED  BY <1>4, <1>5, <1>6

(* The failing ends of unlink and link. IInv is kept. *)
LEMMA UnlockParentKeeps ==
  ASSUME Core, NEW p \in Procs, UnlockParent(p) PROVE IInv'
<1> DEFINE i == c[p].ip
           s == iunlock(k, i)
           q == <<i>>
           w == cwd[p]
           f == fd[p]
           lock == With(k.lock, i, None)
<1>1. pc[p] = "unlockdp" /\ puts[p] = <<>> /\ Rest
  BY DEF UnlockParent, At
<1>2. c[p] \in InCall /\ i # 0 /\ (c[p].held # 0 <=> c[p].op = "link2") /\ Knows(p)
  BY <1>1, CoreTypes DEF Place, HasIp, HasHeld, InParent, Started
<1>3. i \in Inums /\ k.ref[i] > 0 /\ k.ref \in [Inums -> Nat]
  BY <1>1, <1>2, OldRef, Numbers, CoreTypes
<1>4. Becomes(s, k.di, k.ref, lock)
  BY <1>3, CoreGood, GoodIunlock
<1>5. s \in Kernel
  BY <1>4 DEF Becomes, Good
<1>6. q \in Seq(Inums) /\ Len(q) <= 2 /\ Put(q, 1) = i /\ Put(q, 2) = 0
  BY <1>3, PutOne
<1>7. SafeFor(p, i) /\ SafeFor(p, w) /\ (f # 0 => SafeFor(p, f))
        /\ (c[p].held # 0 => SafeFor(p, c[p].held))
  BY <1>1, <1>2, OldSafe
<1>8. cwd' = [cwd EXCEPT ![p] = w] /\ fd' = [fd EXCEPT ![p] = f] /\ left' \in Nat /\ w \in Inums
        /\ f \in 0..NINODES
  BY <1>1, RestIs
<1>9. \A j \in Inums : k.lock[j] = p <=> j = i
  BY <1>1, HasLocks
<1>10. CASE c[p].op = "link2"
  <2> DEFINE r == NoIp(c[p])
             l == "linkbad"
  <2>1. Goto(p, s, l, r, q)
    BY <1>10 DEF UnlockParent, NoIp
  <2>2. r = NoIp(c[p])
    OBVIOUS
  <2> HIDE DEF r
  <2>3. r \in InCall /\ r.op = c[p].op /\ r.kind = c[p].kind /\ r.ip = 0 /\ r.held = c[p].held
    BY ONLY <1>2, <2>2, CalNoIp
  <2>4. RefsFit(p, k.ref, w, f, r, q)
    <3>1. ASSUME NEW j \in Inums
          PROVE  k.ref[j] + Is(cwd[p], j) + Is(fd[p], j) + Is(c[p].ip, j) + Is(c[p].held, j)
                     = k.ref[j] + Is(w, j) + Is(f, j) + Is(0, j) + Is(c[p].held, j) + Is(i, j) + Is(0, j)
      BY <1>2, CoreTypes, IsIs
    <3> HIDE DEF q, i, f, w
    <3> QED  BY <1>1, <1>3, <1>6, <2>3, <3>1, FitRefs
  <2>5. LocksFit(p, lock, l, r)
    <3>1. l \in NoLock
      BY DEF NoLock, Labels
    <3> QED  BY <1>3, <1>9, <3>1, LockFrees
  <2>6. PlaceFit(l, r, q)
    BY <1>2, <1>6, <1>10, <2>3 DEF PlaceFit, InParent, Started
  <2>7. KnowsFit(k.di, l, r, q)
    BY <1>2, <1>10, <2>3 DEF KnowsFit, Knows, InParent
  <2>8. SureFit(p, l, r, q, w, f)
    BY <1>6, <1>7, <2>3 DEF SureFit, InParent
  <2>9. Typed(l, r, q, w, f)
    BY <1>6, <1>8, <2>3 DEF Typed, Labels
  <2>10. pc[p] # "ialloc" /\ l # "ialloc" /\ c[p].op = "link2" /\ c[p].held = r.held
    BY <1>1, <1>10, <2>3
  <2>11. puts[p] = <<>> /\ (r.op = "link2" \/ l = "erased" => (c[p].op = "link2" \/ pc[p] = "erased")
           /\ c[p].held = r.held)
    BY <1>1, <2>10
  <2> HIDE DEF s, q, w, f, lock, l, i
  <2>12. Goes(p, s, l, r, q, w, f)
    BY ONLY <1>8, <2>1, <2>9, <2>11 DEF Goes
  <2> QED  BY ONLY <1>4, <2>4, <2>5, <2>6, <2>7, <2>8, <2>10, <2>12, Core, p \in Procs, QuietGoto
<1>11. CASE c[p].op # "link2"
  <2>0. puts[p] = <<>>
    BY <1>1
  <2>1. Return(p, s, q)
    BY <1>11 DEF UnlockParent
  <2>2. RefsFit(p, k.ref, w, f, NoCall, q)
    <3>1. ASSUME NEW j \in Inums
          PROVE  k.ref[j] + Is(cwd[p], j) + Is(fd[p], j) + Is(c[p].ip, j) + Is(c[p].held, j)
                     = k.ref[j] + Is(w, j) + Is(f, j) + Is(0, j) + Is(0, j) + Is(i, j) + Is(0, j)
      BY <1>2, <1>11, CoreTypes, IsIs
    <3> HIDE DEF q, i, f, w
    <3> QED  BY <1>1, <1>3, <1>6, <3>1, FitRefs, NoCallIs
  <2>3. LocksFit(p, lock, "idle", NoCall)
    <3>1. "idle" \in NoLock
      BY DEF NoLock, Labels
    <3> QED  BY <1>3, <1>9, <3>1, LockFrees
  <2>4. /\ pc[p] # "ialloc" /\ SafeFor(p, w) /\ (f # 0 => SafeFor(p, f)) /\ Len(q) <= 2
          /\ q \in Seq(Inums)
        /\ (Put(q, 1) # 0 => SafeFor(p, Put(q, 1))) /\ (Put(q, 2) # 0 => SafeFor(p, Put(q, 2)))
    BY <1>1, <1>6, <1>7
  <2> HIDE DEF s, q, w, f, lock, i
  <2> QED  BY ONLY <1>4, <1>5, <1>8, <2>0, <2>1, <2>2, <2>3, <2>4, Core, p \in Procs, ReturnMove
<1> QED  BY <1>10, <1>11

(* namex returns the inode it has reached. *)
LEMMA Arrives ==
  ASSUME Core, NEW p \in Procs, puts[p] = <<>>, pc[p] = "walk", NEW s \in Kernel,
         s.panic # "no" \/ Becomes(s, k.di, k.ref, k.lock),
         c[p].parent => c[p].rest # <<>>,
         s.panic = "no" /\ c[p].parent => k.di[c[p].ip].type = "dir" /\ SafeFor(p, c[p].ip),
         Goto(p, s, c[p].op, c[p], <<>>), Rest
  PROVE  IInv'
<1> DEFINE r == c[p]
           l == c[p].op
           q == <<>>
           w == cwd[p]
           f == fd[p]
<1>1. Place(p) /\ r \in InCall /\ Knows(p) /\ k.ref \in [Inums -> Nat]
  BY CoreTypes
<1>2. l \in Started /\ (c[p].parent <=> l \in InParent)
  BY <1>1, CalIs DEF Place
<1>3. l \in NoLock /\ l \in Labels /\ pc[p] \in NoLock /\ l # "ialloc" /\ l # "erased"
        /\ pc[p] # "ialloc"
  BY <1>2 DEF Started, NoLock, Labels
<1>4. q \in Seq(Inums) /\ Len(q) <= 2 /\ Put(q, 1) = 0 /\ Put(q, 2) = 0
  BY PutIs
<1>5. cwd' = [cwd EXCEPT ![p] = w] /\ fd' = [fd EXCEPT ![p] = f] /\ left' \in Nat /\ w \in Inums
        /\ f \in 0..NINODES
  BY RestIs
<1>6. RefsFit(p, k.ref, w, f, r, q)
  <2>1. ASSUME NEW j \in Inums
        PROVE  k.ref[j] + Is(cwd[p], j) + Is(fd[p], j) + Is(c[p].ip, j) + Is(c[p].held, j)
                     = k.ref[j] + Is(w, j) + Is(f, j) + Is(c[p].ip, j) + Is(c[p].held, j) + Is(0, j) + Is(0, j)
    BY <1>1, IsIs
  <2> HIDE DEF q, w, f
  <2> QED  BY ONLY <1>1, <1>4, <2>1, Core, p \in Procs, puts[p] = <<>>, FitRefs DEF r
<1>7. LocksFit(p, k.lock, l, r)
  BY <1>3, SameLocks
<1>8. PlaceFit(l, r, q)
  <2>1. r.ip # 0 /\ (r.held # 0 <=> l = "link2")
          /\ (r.op = "create" => r.kind \in {"file", "dir", "dev"})
    BY <1>1, <1>2 DEF Place, HasIp, HasHeld
  <2>2. l \in InParent => r.rest # <<>>
    BY <1>2
  <2>3. l \in InParent \cup {"walk", "open", "chdir", "link", "unlockdp"}
    BY <1>2 DEF InParent, Started
  <2> QED  BY <1>2, <1>4, <2>1, <2>2, <2>3 DEF PlaceFit, InParent, Started
<1>9. ASSUME s.panic = "no" PROVE KnowsFit(k.di, l, r, q) /\ SureFit(p, l, r, q, w, f)
  <2>1. l \in InParent => k.di[r.ip].type = "dir" /\ SafeFor(p, r.ip)
    BY <1>2, <1>9
  <2>2. r.op = "link2" => k.di[r.held].type # "dir"
    BY <1>1 DEF Knows
  <2>3. KnowsFit(k.di, l, r, q)
    BY <1>2, <2>1, <2>2 DEF KnowsFit, Started
  <2>4. /\ SafeFor(p, w) /\ (f # 0 => SafeFor(p, f)) /\ (r.held # 0 => SafeFor(p, r.held))
        /\ r.ip # 0 /\ ~Climbs => SafeFor(p, r.ip)
    BY OldSafe
  <2>5. SureFit(p, l, r, q, w, f)
    BY <1>2, <1>4, <2>1, <2>4 DEF SureFit, Started
  <2> QED  BY <2>3, <2>5
<1>10. Typed(l, r, q, w, f) /\ Goto(p, s, l, r, q)
  BY <1>1, <1>3, <1>4, <1>5 DEF Typed
<1>11. Goes(p, s, l, r, q, w, f)
  BY <1>5, <1>10 DEF Goes
<1>12. CASE s.panic # "no"
  BY <1>11, <1>12, PanicGoto
<1>13. CASE s.panic = "no"
  <2>1. r.op = "link2" \/ l = "erased" => (c[p].op = "link2" \/ pc[p] = "erased") /\ c[p].held = r.held
    BY <1>3
  <2>2. Becomes(s, k.di, k.ref, k.lock) /\ KnowsFit(k.di, l, r, q) /\ SureFit(p, l, r, q, w, f)
    BY <1>9, <1>13
  <2> HIDE DEF r, l, q, w, f
  <2> QED  BY ONLY <1>3, <1>6, <1>7, <1>8, <1>11, <2>1, <2>2, Core, p \in Procs, QuietGoto
<1> QED  BY <1>12, <1>13

(* The end of a walk. IInv is kept. *)
LEMMA NamexEndKeeps ==
  ASSUME Core, NEW p \in Procs, NamexEnd(p) PROVE IInv'
<1>1. pc[p] = "walk" /\ puts[p] = <<>> /\ Rest
  BY DEF NamexEnd, At
<1>2. k \in Kernel /\ Becomes(k, k.di, k.ref, k.lock)
  BY CoreGood DEF Becomes, Good
<1>3. CASE c[p].parent
  <2>1. NoInode(p, k, <<c[p].ip>>)
    BY <1>3 DEF NamexEnd
  <2> QED  BY <1>1, <1>2, <2>1, NoInodeKeeps
<1>4. CASE ~c[p].parent
  <2>1. Goto(p, k, c[p].op, c[p], <<>>)
    BY <1>4 DEF NamexEnd
  <2> QED  BY <1>1, <1>2, <1>4, <2>1, Arrives
<1> QED  BY <1>3, <1>4

(* The first element of the path is one of the calls' names. *)
LEMMA HeadIn ==
  ASSUME NEW r \in InCall, r.rest # <<>>
  PROVE  Head(r.rest) \in Elems /\ Tail(r.rest) \in Seq(Elems) /\ Head(r.rest) \in AllNames
<1>1. r.rest \in Seq(Elems)
  BY CalIs
<1>2. Head(r.rest) \in Elems /\ Tail(r.rest) \in Seq(Elems)
  BY <1>1
<1> QED  BY <1>2, ElemsAre

(* An entry names an inode or nothing. *)
LEMMA EntryIn ==
  ASSUME Core, NEW d \in Inums, NEW n \in AllNames
  PROVE  k.di[d].ents[n] \in 0..NINODES /\ (k.di[d].ents[n] # 0 => k.di[d].ents[n] \in Inums)
<1>1. k.di[d] \in Inode
  BY DEF Core, TypeOK, Kernel
<1>2. k.di[d].ents \in [AllNames -> 0..NINODES]
  BY <1>1, InoIs
<1> QED  BY <1>2, Numbers

(* What the entry n of directory d names. *)
EntryOf(d, n) == k.di[d].ents[n]

(* The walk goes on at what it found. *)
LEMMA WalksOn ==
  ASSUME Core, NEW p \in Procs, puts[p] = <<>>, pc[p] = "walk", NEW ip, ip = c[p].ip,
         k.lock[ip] = None,
         c[p].rest # <<>>, NEW n, n = Head(c[p].rest), NEW next, next = EntryOf(ip, n), next # 0,
         k.di[ip].type = "dir",
         Goto(p, iunlock(iget(ilock(k, p, ip), next), ip), "walk", NextIp(c[p], next, Tail(c[p].rest)), <<ip>>), Rest
  PROVE  IInv'
<1> DEFINE s == iunlock(iget(ilock(k, p, ip), next), ip)
           t == Tail(c[p].rest)
           r == NextIp(c[p], next, t)
           l == "walk"
           q == <<ip>>
           w == cwd[p]
           f == fd[p]
           ref == With(k.ref, next, k.ref[next] + 1)
<1>0. next = k.di[ip].ents[n]
  BY DEF EntryOf
<1>1. Place(p) /\ c[p] \in InCall /\ Knows(p) /\ k.ref \in [Inums -> Nat]
  BY CoreTypes
<1>2. ip # 0 /\ ip \in Inums /\ k.ref[ip] > 0
  BY <1>1, OldRef DEF Place, HasIp
<1>3. n \in Elems /\ n \in AllNames /\ Tail(c[p].rest) \in Seq(Elems)
  BY <1>1, HeadIn
<1>4. next \in Inums /\ next \in 0..NINODES
  BY <1>0, <1>2, <1>3, EntryIn
<1>5. s \in Kernel /\ (s.panic # "no" \/ Becomes(s, k.di, ref, k.lock))
  BY <1>2, <1>4, Finding
<1>6. r = NextIp(c[p], next, t) /\ c[p] \in InCall /\ next \in 0..NINODES /\ t \in Seq(Elems)
  BY <1>1, <1>3, <1>4
<1> HIDE DEF r, t
<1>7. /\ r \in InCall /\ r.op = c[p].op /\ r.kind = c[p].kind /\ r.rest = t /\ r.parent = c[p].parent
      /\ r.ip = next /\ r.held = c[p].held
  BY ONLY <1>6, CalNext
<1>8. q \in Seq(Inums) /\ Len(q) <= 2 /\ Put(q, 1) = ip /\ Put(q, 2) = 0
  BY <1>2, PutOne
<1>9. cwd' = [cwd EXCEPT ![p] = w] /\ fd' = [fd EXCEPT ![p] = f] /\ left' \in Nat /\ w \in Inums
        /\ f \in 0..NINODES
  BY RestIs
<1>10. RefsFit(p, ref, w, f, r, q)
  <2>0. ref \in [Inums -> Nat]
    BY <1>4, RefsWith
  <2>1. ASSUME NEW j \in Inums
        PROVE  ref[j] + Is(cwd[p], j) + Is(fd[p], j) + Is(c[p].ip, j) + Is(c[p].held, j)
                     = k.ref[j] + Is(w, j) + Is(f, j) + Is(next, j) + Is(c[p].held, j) + Is(ip, j) + Is(0, j)
    <3>1. ref[j] = k.ref[j] + Is(next, j)
      BY <1>1, <1>4, RefMore
    <3>2. k.ref[j] \in Nat /\ Is(0, j) = 0 /\ Is(ip, j) \in Nat /\ Is(cwd[p], j) \in Nat
            /\ Is(fd[p], j) \in Nat
          /\ Is(next, j) \in Nat /\ Is(c[p].held, j) \in Nat /\ Is(c[p].ip, j) = Is(ip, j) /\ w = cwd[p]
               /\ f = fd[p]
      BY <1>1, IsIs
    <3> HIDE DEF ref, w, f
    <3> QED  BY ONLY <3>1, <3>2
  <2> HIDE DEF q, w, f, ref
  <2> QED  BY ONLY <1>7, <1>8, <2>0, <2>1, Core, p \in Procs, puts[p] = <<>>, FitRefs
<1>11. LocksFit(p, k.lock, l, r)
  BY SameLocks DEF NoLock, Labels
<1>12. PlaceFit(l, r, q)
  <2>1. c[p].op # "none" /\ (c[p].parent <=> c[p].op \in InParent)
          /\ (c[p].held # 0 <=> c[p].op = "link2")
        /\ (c[p].op = "create" => c[p].kind \in {"file", "dir", "dev"})
    BY <1>1 DEF Place, HasHeld
  <2> QED  BY <1>4, <1>7, <1>8, <2>1, Numbers DEF PlaceFit, InParent, Started
<1>13. KnowsFit(k.di, l, r, q)
  BY <1>1, <1>7 DEF KnowsFit, Knows, InParent
<1>14. SureFit(p, l, r, q, w, f)
  <2>1. /\ SafeFor(p, w) /\ (f # 0 => SafeFor(p, f)) /\ (c[p].held # 0 => SafeFor(p, c[p].held))
        /\ ~Climbs => SafeFor(p, ip)
    BY <1>2, OldSafe
  <2>2. ~Climbs => SafeFor(p, next)
    <3>1. stage[p] # "free"
      BY AtIs
    <3> QED  BY <1>0, <1>2, <1>3, <2>1, <3>1, FoundSafe
  <2> QED  BY <1>7, <1>8, <2>1, <2>2 DEF SureFit, InParent
<1>15. Typed(l, r, q, w, f) /\ Goto(p, s, l, r, q)
  BY <1>7, <1>8, <1>9 DEF Typed, Labels, r, t
<1>16. Goes(p, s, l, r, q, w, f)
  BY <1>9, <1>15 DEF Goes
<1>17. CASE s.panic # "no"
  BY <1>5, <1>16, <1>17, PanicGoto
<1>18. CASE Becomes(s, k.di, ref, k.lock)
  <2>1. r.op = "link2" \/ l = "erased" => (c[p].op = "link2" \/ pc[p] = "erased") /\ c[p].held = r.held
    BY <1>7
  <2>2. l # "ialloc" /\ pc[p] # "ialloc"
    BY SMTT(30)
  <2> HIDE DEF l, q, w, f, s, ref
  <2> QED  BY ONLY <1>10, <1>11, <1>12, <1>13, <1>14, <1>16, <1>18, <2>1, <2>2, Core, p \in Procs,
                   QuietGoto
<1> QED  BY SMTT(30), <1>5, <1>17, <1>18

(* A turn of the walk: fail, stop at the parent, or go on to the entry     *)
(* found. IInv is kept.                                                    *)
LEMMA NamexTurnKeeps ==
  ASSUME Core, NEW p \in Procs, NamexTurn(p) PROVE IInv'
<1> DEFINE ip == c[p].ip
           l == ilock(k, p, ip)
           n == Head(c[p].rest)
           e == l.ic[ip]
           next == e.ents[n]
<1>1. pc[p] = "walk" /\ puts[p] = <<>> /\ Rest /\ c[p].rest # <<>> /\ k.lock[ip] = None
  BY DEF NamexTurn, At, Free
<1>2. ip # 0 /\ ip \in Inums /\ k.ref[ip] > 0 /\ c[p] \in InCall
  BY SMTT(30), <1>1, CoreTypes, OldRef DEF Place, HasIp
<1>3. \/ NoInode(p, iunlock(l, ip), <<ip>>)
      \/ e.type = "dir" /\ c[p].parent /\ Goto(p, iunlock(l, ip), c[p].op, c[p], <<>>)
      \/ e.type = "dir" /\ next # 0
         /\ Goto(p, iunlock(iget(l, next), ip), "walk", NextIp(c[p], next, Tail(c[p].rest)), <<ip>>)
  BY DEF NamexTurn, skipelem, dirlookup, NextIp
<1>4. /\ e = k.di[ip] /\ iunlock(l, ip) \in Kernel
      /\ k.di[ip].type = "free" => iunlock(l, ip).panic # "no"
      /\ k.di[ip].type # "free" => Becomes(iunlock(l, ip), k.di, k.ref, k.lock)
  BY <1>1, <1>2, Locking
<1>5. CASE NoInode(p, iunlock(l, ip), <<ip>>)
  BY <1>1, <1>4, <1>5, NoInodeKeeps
<1>6. CASE e.type = "dir" /\ c[p].parent /\ Goto(p, iunlock(l, ip), c[p].op, c[p], <<>>)
  <2>1. k.di[ip].type = "dir"
    BY <1>4, <1>6
  <2>2. SafeFor(p, ip)
    BY <1>1, <1>2, <2>1, FoundLocked
  <2>3. iunlock(l, ip) \in Kernel /\ Becomes(iunlock(l, ip), k.di, k.ref, k.lock)
    BY <1>4, <2>1
  <2> HIDE DEF l
  <2> QED  BY <1>1, <1>6, <2>1, <2>2, <2>3, Arrives
<1>7. CASE e.type = "dir" /\ next # 0
           /\ Goto(p, iunlock(iget(l, next), ip), "walk", NextIp(c[p], next, Tail(c[p].rest)), <<ip>>)
  <2> DEFINE x == k.di[ip].ents[n]
             i == ip
             m == n
  <2>1. next = x /\ e = k.di[ip]
    BY SMTT(30), <1>4
  <2> HIDE DEF next, e
  <2>2. /\ i = c[p].ip /\ k.lock[i] = None /\ m = Head(c[p].rest) /\ x = EntryOf(i, m) /\ x # 0
          /\ k.di[i].type = "dir"
        /\ Goto(p, iunlock(iget(ilock(k, p, i), x), i), "walk", NextIp(c[p], x, Tail(c[p].rest)), <<i>>)
    BY <1>1, <1>7, <2>1 DEF EntryOf
  <2> HIDE DEF x, i, m
  <2> QED  BY ONLY <1>1, <2>2, Core, p \in Procs, WalksOn
<1> QED  BY <1>3, <1>5, <1>6, <1>7

(* A call starts. *)
LEMMA Starts ==
  ASSUME Core, NEW p \in Procs, NEW path \in Path, NEW s \in Kernel
  PROVE  LET t == Start(s, p, path)
             i == From(p, path)
         IN  /\ i \in Inums /\ t \in Kernel /\ SafeFor(p, i)
             /\ s.panic # "no" => t.panic # "no"
             /\ Good(s) /\ s.ref = k.ref
                  => t.panic # "no" \/ Becomes(t, s.di, With(k.ref, i, k.ref[i] + 1), s.lock)
<1>1. cwd[p] \in Inums /\ Root \in Inums /\ k.ref[cwd[p]] > 0
  BY OldRef, Numbers
<1>2. SafeFor(p, cwd[p])
  BY OldSafe
<1>3. SafeFor(p, Root)
  BY <1>1, Named, LinkedSafe
<1>4. CASE path.abs
  <2>1. Start(s, p, path) = iget(s, Root) /\ From(p, path) = Root
    BY <1>4 DEF Start, From
  <2> DEFINE i == Root
  <2>2. i \in Inums /\ SafeFor(p, i) /\ Start(s, p, path) = iget(s, i) /\ From(p, path) = i
    BY <1>1, <1>3, <2>1
  <2> HIDE DEF i
  <2>3. iget(s, i) \in Kernel /\ (s.panic # "no" => iget(s, i).panic # "no")
    BY <2>2, IgetIs DEF Stays
  <2>4. Good(s) => iget(s, i).panic # "no" \/ Becomes(iget(s, i), s.di, With(s.ref, i, s.ref[i] + 1), s.lock)
    BY <2>2, GoodIget
  <2> QED  BY <2>2, <2>3, <2>4
<1>5. CASE ~path.abs
  <2> DEFINE i == cwd[p]
  <2>1. i \in Inums /\ SafeFor(p, i) /\ Start(s, p, path) = idup(s, i) /\ From(p, path) = i
          /\ k.ref[i] > 0
    BY <1>1, <1>2, <1>5 DEF Start, From
  <2> HIDE DEF i
  <2>2. idup(s, i) \in Kernel /\ (s.panic # "no" => idup(s, i).panic # "no")
    BY <2>1, IdupIs DEF Stays
  <2>3. Good(s) /\ s.ref = k.ref => Becomes(idup(s, i), s.di, With(s.ref, i, s.ref[i] + 1), s.lock)
    BY <2>1, GoodIdup
  <2> QED  BY <2>1, <2>2, <2>3
<1> QED  BY <1>4, <1>5

(* the call that Call starts *)
CallRec(p, call) ==
  [NoCall EXCEPT !.op = call.op, !.kind = call.kind, !.new = call.new,
                 !.ip = From(p, call.path), !.rest = call.path.names,
                 !.parent = call.op \in {"create", "unlink"}]

(* Its fields. *)
LEMMA CallRecIs ==
  ASSUME Core, NEW p \in Procs, NEW call \in Calls
  PROVE  LET r == CallRec(p, call) IN
         /\ r \in InCall /\ r.op = call.op /\ r.kind = call.kind /\ r.ip = From(p, call.path)
              /\ r.held = 0
         /\ r.parent = (call.op \in {"create", "unlink"}) /\ r.rest = call.path.names
         /\ call.path \in Path
         /\ r.op \in {"open", "create", "unlink", "chdir", "link"}
         /\ r.op = "create" => r.kind \in {"file", "dir", "dev"}
<1> DEFINE a == From(p, call.path)
           y == CallRec(p, call)
<1>1. /\ call.op \in {"open", "create", "unlink", "chdir", "link"}
        /\ call.kind \in {"file", "dir", "dev", "read", "write"}
      /\ call.path \in Path /\ call.new \in Path
  BY CallsAssumption
<1>2. y = [op |-> call.op, kind |-> call.kind, rest |-> call.path.names, parent |-> call.op \in {"create", "unlink"},
           ip |-> a, held |-> 0, new |-> call.new]
  <2> DEFINE m == call.op \in {"create", "unlink"}
             r == NoCall
  <2>1. ASSUME NEW o, NEW kind, NEW new, NEW ip, NEW rest, NEW b, NEW y1, NEW r1, NEW x, NEW z,
               NEW b1,
               r1 = [op |-> "none", kind |-> "file", rest |-> z, parent |-> b1, ip |-> 0, held |-> 0, new |-> x],
               y1 = [r1 EXCEPT !.op = o, !.kind = kind, !.new = new, !.ip = ip, !.rest = rest, !.parent = b]
        PROVE  y1 = [op |-> o, kind |-> kind, rest |-> rest, parent |-> b, ip |-> ip, held |-> 0, new |-> new]
    BY <2>1
  <2>2. r = [op |-> "none", kind |-> "file", rest |-> <<>>, parent |-> FALSE, ip |-> 0, held |-> 0,
             new |-> [abs |-> FALSE, names |-> <<>>]]
    BY DEF NoCall
  <2>3. y = [r EXCEPT !.op = call.op, !.kind = call.kind, !.new = call.new, !.ip = a, !.rest = call.path.names, !.parent = m]
    BY DEF CallRec
  <2> HIDE DEF y, r, m, a
  <2>4. y = [op |-> call.op, kind |-> call.kind, rest |-> call.path.names, parent |-> m, ip |-> a, held |-> 0, new |-> call.new]
    BY ONLY <2>1, <2>2, <2>3, Zenon
  <2> QED  BY <2>4 DEF m
<1>3. a \in 0..NINODES
  BY <1>1, OldRef, Numbers DEF From
<1>4. call.path.names \in Seq(Elems) /\ call.new.names \in Seq(Elems)
  <2>1. ASSUME NEW f \in Seq(AllNames), Range(f) \subseteq Elems PROVE f \in Seq(Elems)
    <3>1. \A j \in 1..Len(f) : f[j] \in Elems
      BY <2>1 DEF Range
    <3>2. f \in [1..Len(f) -> Elems] /\ Len(f) \in Nat
      BY <3>1
    <3> QED  BY <3>2
  <2>2. Range(call.path.names) \subseteq Elems /\ Range(call.new.names) \subseteq Elems
    BY DEF Elems
  <2> QED  BY <1>1, <2>1, <2>2 DEF Path
<1>5. call.new \in [abs : BOOLEAN, names : Seq(Elems)]
  BY <1>1, <1>4 DEF Path
<1>6. call.op \in Started \cup {"none"} /\ 0 \in 0..NINODES
  BY <1>1, Numbers DEF Started
<1>7. call.op = "create" => call.kind \in {"file", "dir", "dev"}
  BY CallsAssumption
<1> HIDE DEF a
<1>8. y \in InCall
  BY ONLY <1>1, <1>2, <1>3, <1>4, <1>5, <1>6 DEF InCall
<1>9. /\ y.op = call.op /\ y.kind = call.kind /\ y.ip = a /\ y.held = 0 /\ y.rest = call.path.names
      /\ y.parent = (call.op \in {"create", "unlink"})
  BY ONLY <1>2
<1> QED  BY <1>1, <1>7, <1>8, <1>9 DEF a

(* A call starts. IInv is kept. *)
LEMMA CallKeeps ==
  ASSUME Core, NEW p \in Procs, Call(p) PROVE IInv'
<1>1. pc[p] = "idle" /\ puts[p] = <<>> /\ left > 0 /\ left' = left - 1 /\ cwd' = cwd /\ fd' = fd
  BY DEF Call, At
<1>2. PICK call \in Calls : Goto(p, Start(k, p, call.path), "walk", CallRec(p, call), <<>>)
  BY DEF Call, CallRec
<1> DEFINE s == Start(k, p, call.path)
           r == CallRec(p, call)
           l == "walk"
           q == <<>>
           w == cwd[p]
           f == fd[p]
           i == From(p, call.path)
           ref == With(k.ref, i, k.ref[i] + 1)
<1>3. /\ r \in InCall /\ r.op = call.op /\ r.kind = call.kind /\ r.ip = i /\ r.held = 0
      /\ r.parent = (call.op \in {"create", "unlink"})
      /\ call.path \in Path
      /\ r.op \in {"open", "create", "unlink", "chdir", "link"}
      /\ r.op = "create" => r.kind \in {"file", "dir", "dev"}
  BY CallRecIs
<1>4. k \in Kernel /\ Good(k) /\ k.ref \in [Inums -> Nat]
  BY CoreGood, CoreTypes
<1>5. i \in Inums /\ s \in Kernel /\ SafeFor(p, i) /\ (s.panic # "no" \/ Becomes(s, k.di, ref, k.lock))
  BY <1>3, <1>4, Starts
<1>6. cwd' = [cwd EXCEPT ![p] = w] /\ fd' = [fd EXCEPT ![p] = f] /\ left' \in Nat /\ w \in Inums
        /\ f \in 0..NINODES
  BY <1>1, CoreTypes DEF Core, TypeOK
<1>7. c[p].ip = 0 /\ c[p].held = 0
  BY <1>1, CoreTypes, NoCallIs DEF Place
<1>8. q \in Seq(Inums) /\ Len(q) <= 2 /\ Put(q, 1) = 0 /\ Put(q, 2) = 0
  BY PutIs
<1>9. Goto(p, s, l, r, q)
  BY <1>2
<1> HIDE DEF r, s, i
<1>10. RefsFit(p, ref, w, f, r, q)
  <2>0. ref \in [Inums -> Nat]
    BY <1>5, RefsWith
  <2>1. ASSUME NEW j \in Inums
        PROVE  ref[j] + Is(cwd[p], j) + Is(fd[p], j) + Is(c[p].ip, j) + Is(c[p].held, j)
                     = k.ref[j] + Is(w, j) + Is(f, j) + Is(i, j) + Is(0, j) + Is(0, j) + Is(0, j)
    <3>1. ref[j] = k.ref[j] + Is(i, j)
      BY <1>4, <1>5, RefMore
    <3>2. k.ref[j] \in Nat /\ Is(0, j) = 0 /\ Is(i, j) \in Nat /\ Is(cwd[p], j) \in Nat
            /\ Is(fd[p], j) \in Nat
          /\ Is(c[p].ip, j) = 0 /\ Is(c[p].held, j) = 0 /\ w = cwd[p] /\ f = fd[p]
      BY <1>4, <1>7, IsIs
    <3> HIDE DEF ref, w, f
    <3> QED  BY ONLY <3>1, <3>2
  <2> HIDE DEF q, w, f, ref
  <2> QED  BY ONLY <1>1, <1>3, <1>8, <2>0, <2>1, Core, p \in Procs, FitRefs
<1>11. LocksFit(p, k.lock, l, r)
  BY <1>1, SameLocks DEF NoLock, Labels
<1>12. PlaceFit(l, r, q)
  <2>1. r.ip # 0
    BY <1>3, <1>5, Numbers
  <2>2. r.parent <=> r.op \in InParent
    BY <1>3 DEF InParent
  <2> QED  BY <1>3, <1>8, <2>1, <2>2 DEF PlaceFit, InParent, Started
<1>13. KnowsFit(k.di, l, r, q)
  BY <1>3 DEF KnowsFit, InParent
<1>14. SureFit(p, l, r, q, w, f)
  <2>1. SafeFor(p, w) /\ (f # 0 => SafeFor(p, f))
    BY OldSafe
  <2> QED  BY <1>3, <1>5, <1>8, <2>1 DEF SureFit
<1>15. Typed(l, r, q, w, f)
  BY <1>3, <1>6, <1>8 DEF Typed, Labels
<1>16. Goes(p, s, l, r, q, w, f)
  BY <1>1, <1>6, <1>9, <1>15 DEF Goes
<1>17. CASE s.panic # "no"
  BY <1>5, <1>16, <1>17, PanicGoto
<1>18. CASE Becomes(s, k.di, ref, k.lock)
  <2>1. ~(r.op = "link2" \/ l = "erased") /\ l # "ialloc" /\ pc[p] # "ialloc"
    BY <1>1, <1>3
  <2> HIDE DEF l, q, w, f, ref
  <2> QED  BY ONLY <1>10, <1>11, <1>12, <1>13, <1>14, <1>16, <1>18, <2>1, Core, p \in Procs,
                   QuietGoto
<1> QED  BY <1>5, <1>17, <1>18

(* create finds the name taken. *)
LEMMA CreateFinds ==
  ASSUME Core, NEW p \in Procs, puts[p] = <<>>, pc[p] = "create", NEW dp, dp = c[p].ip,
         k.lock[dp] = None,
         NEW ip, ip = EntryOf(dp, Head(c[p].rest)), ip # 0,
         Goto(p, iunlock(iget(ilock(k, p, dp), ip), dp), "exists", FoundIp(c[p], ip), <<dp>>), Rest
  PROVE  IInv'
<1> DEFINE s == iunlock(iget(ilock(k, p, dp), ip), dp)
           r == FoundIp(c[p], ip)
           l == "exists"
           q == <<dp>>
           w == cwd[p]
           f == fd[p]
           n == Head(c[p].rest)
           ref == With(k.ref, ip, k.ref[ip] + 1)
<1>0. ip = k.di[dp].ents[n]
  BY DEF EntryOf
<1>1. Place(p) /\ c[p] \in InCall /\ Knows(p) /\ k.ref \in [Inums -> Nat]
  BY CoreTypes
<1>2. /\ dp # 0 /\ dp \in Inums /\ k.ref[dp] > 0 /\ c[p].rest # <<>> /\ c[p].held = 0
        /\ c[p].op = "create"
      /\ k.di[dp].type = "dir" /\ c[p].kind \in {"file", "dir", "dev"}
  BY <1>1, OldRef DEF Place, HasIp, HasHeld, InParent, Started, Knows
<1>3. n \in Elems /\ n \in AllNames
  BY <1>1, <1>2, HeadIn
<1>4. ip \in Inums /\ ip \in 0..NINODES
  BY <1>0, <1>2, <1>3, EntryIn
<1>5. s \in Kernel /\ (s.panic # "no" \/ Becomes(s, k.di, ref, k.lock))
  BY <1>2, <1>4, Finding
<1>6. r = FoundIp(c[p], ip) /\ c[p] \in InCall /\ ip \in 0..NINODES
  BY <1>1, <1>4
<1> HIDE DEF r
<1>7. /\ r \in InCall /\ r.op = c[p].op /\ r.kind = c[p].kind /\ r.ip = 0 /\ r.held = ip
  BY ONLY <1>6, CalFound
<1>8. q \in Seq(Inums) /\ Len(q) <= 2 /\ Put(q, 1) = dp /\ Put(q, 2) = 0
  BY <1>2, PutOne
<1>9. cwd' = [cwd EXCEPT ![p] = w] /\ fd' = [fd EXCEPT ![p] = f] /\ left' \in Nat /\ w \in Inums
        /\ f \in 0..NINODES
  BY RestIs
<1>10. RefsFit(p, ref, w, f, r, q)
  <2>0. ref \in [Inums -> Nat]
    BY <1>4, RefsWith
  <2>1. ASSUME NEW j \in Inums
        PROVE  ref[j] + Is(cwd[p], j) + Is(fd[p], j) + Is(c[p].ip, j) + Is(c[p].held, j)
                     = k.ref[j] + Is(w, j) + Is(f, j) + Is(0, j) + Is(ip, j) + Is(dp, j) + Is(0, j)
    <3>1. ref[j] = k.ref[j] + Is(ip, j)
      BY <1>1, <1>4, RefMore
    <3>2. k.ref[j] \in Nat /\ Is(0, j) = 0 /\ Is(ip, j) \in Nat /\ Is(dp, j) \in Nat
            /\ Is(cwd[p], j) \in Nat /\ Is(fd[p], j) \in Nat
          /\ Is(c[p].ip, j) = Is(dp, j) /\ Is(c[p].held, j) = 0 /\ w = cwd[p] /\ f = fd[p]
      BY <1>1, <1>2, IsIs
    <3> HIDE DEF ref, w, f
    <3> QED  BY ONLY <3>1, <3>2
  <2> HIDE DEF q, w, f, ref
  <2> QED  BY ONLY <1>7, <1>8, <2>0, <2>1, Core, p \in Procs, puts[p] = <<>>, FitRefs
<1>11. LocksFit(p, k.lock, l, r)
  BY SameLocks DEF NoLock, Labels, Started
<1>12. PlaceFit(l, r, q)
  BY <1>2, <1>4, <1>7, <1>8, Numbers DEF PlaceFit, InParent, Started
<1>13. KnowsFit(k.di, l, r, q)
  BY <1>2, <1>7 DEF KnowsFit, InParent
<1>14. SureFit(p, l, r, q, w, f)
  <2>1. SafeFor(p, w) /\ (f # 0 => SafeFor(p, f)) /\ SafeFor(p, dp)
    BY <1>2, OldSafe DEF InParent
  <2>2. ~Climbs => SafeFor(p, ip)
    <3>1. stage[p] # "free"
      BY AtIs
    <3> QED  BY <1>0, <1>2, <1>3, <2>1, <3>1, FoundSafe
  <2> QED  BY <1>7, <1>8, <2>1, <2>2 DEF SureFit, InParent
<1>15. Typed(l, r, q, w, f) /\ Goto(p, s, l, r, q)
  BY <1>6, <1>7, <1>8, <1>9 DEF Typed, Labels
<1>16. Goes(p, s, l, r, q, w, f)
  BY <1>9, <1>15 DEF Goes
<1>17. CASE s.panic # "no"
  BY <1>5, <1>16, <1>17, PanicGoto
<1>18. CASE Becomes(s, k.di, ref, k.lock)
  <2>1. ~(r.op = "link2" \/ l = "erased") /\ l # "ialloc" /\ pc[p] # "ialloc"
    BY <1>2, <1>7
  <2> HIDE DEF l, q, w, f, s, ref
  <2> QED  BY ONLY <1>10, <1>11, <1>12, <1>13, <1>14, <1>16, <1>18, <2>1, Core, p \in Procs,
                   QuietGoto
<1> QED  BY SMTT(30), <1>5, <1>17, <1>18

(* unlink finds what it is to remove. *)
LEMMA UnlinkFinds ==
  ASSUME Core, NEW p \in Procs, puts[p] = <<>>, pc[p] = "unlink", NEW dp, dp = c[p].ip,
         k.lock[dp] = None,
         NEW n, n = Head(c[p].rest), NEW ip, ip = EntryOf(dp, n), ip # 0, n \notin {".", ".."},
         Goto(p, iget(ilock(k, p, dp), ip), "erase", Holds(c[p], ip), <<>>), Rest
  PROVE  IInv'
<1> DEFINE s == iget(ilock(k, p, dp), ip)
           r == Holds(c[p], ip)
           l == "erase"
           q == <<>>
           w == cwd[p]
           f == fd[p]
           ref == With(k.ref, ip, k.ref[ip] + 1)
           lock == With(k.lock, dp, p)
<1>0. ip = k.di[dp].ents[n]
  BY DEF EntryOf
<1>1. Place(p) /\ c[p] \in InCall /\ Knows(p) /\ k.ref \in [Inums -> Nat]
  BY CoreTypes
<1>2. /\ dp # 0 /\ dp \in Inums /\ k.ref[dp] > 0 /\ c[p].rest # <<>> /\ c[p].held = 0
        /\ c[p].op = "unlink"
      /\ k.di[dp].type = "dir"
  BY <1>1, OldRef DEF Place, HasIp, HasHeld, InParent, Started, Knows
<1>3. n \in AllNames /\ n \in Names
  BY <1>1, <1>2, HeadIn DEF AllNames
<1>4. ip \in Inums /\ ip \in 0..NINODES
  BY <1>0, <1>2, <1>3, EntryIn
<1>5. s \in Kernel /\ (s.panic # "no" \/ Becomes(s, k.di, ref, lock))
  BY <1>2, <1>4, Finding
<1>6. r = Holds(c[p], ip) /\ c[p] \in InCall /\ ip \in 0..NINODES
  BY <1>1, <1>4
<1> HIDE DEF r
<1>7. /\ r \in InCall /\ r.op = c[p].op /\ r.kind = c[p].kind /\ r.ip = c[p].ip /\ r.held = ip
        /\ r.rest = c[p].rest
  BY ONLY <1>6, CalHolds
<1>8. q \in Seq(Inums) /\ Len(q) <= 2 /\ Put(q, 1) = 0 /\ Put(q, 2) = 0
  BY <1>2, PutOne
<1>9. cwd' = [cwd EXCEPT ![p] = w] /\ fd' = [fd EXCEPT ![p] = f] /\ left' \in Nat /\ w \in Inums
        /\ f \in 0..NINODES
  BY RestIs
<1>10. RefsFit(p, ref, w, f, r, q)
  <2>0. ref \in [Inums -> Nat]
    BY <1>4, RefsWith
  <2>1. ASSUME NEW j \in Inums
        PROVE  ref[j] + Is(cwd[p], j) + Is(fd[p], j) + Is(c[p].ip, j) + Is(c[p].held, j)
                     = k.ref[j] + Is(w, j) + Is(f, j) + Is(c[p].ip, j) + Is(ip, j) + Is(0, j) + Is(0, j)
    <3>1. ref[j] = k.ref[j] + Is(ip, j)
      BY <1>1, <1>4, RefMore
    <3>2. k.ref[j] \in Nat /\ Is(0, j) = 0 /\ Is(ip, j) \in Nat /\ Is(c[p].ip, j) \in Nat
            /\ Is(cwd[p], j) \in Nat /\ Is(fd[p], j) \in Nat
          /\ Is(c[p].held, j) = 0 /\ w = cwd[p] /\ f = fd[p]
      BY <1>1, <1>2, IsIs
    <3> HIDE DEF ref, w, f
    <3> QED  BY ONLY <3>1, <3>2
  <2> HIDE DEF q, w, f, ref
  <2> QED  BY ONLY <1>7, <1>8, <2>0, <2>1, Core, p \in Procs, puts[p] = <<>>, FitRefs
<1>11. LocksFit(p, lock, l, r)
  <2>1. pc[p] \in NoLock /\ l \in {"ialloc", "erase", "unlockdp"} /\ r.ip = dp
    BY <1>7 DEF NoLock, Labels, Started
  <2> QED  BY <1>2, <2>1, LockTakes
<1>12. PlaceFit(l, r, q)
  BY <1>2, <1>4, <1>7, <1>8, Numbers DEF PlaceFit, InParent, Started
<1>13. KnowsFit(k.di, l, r, q)
  BY <1>0, <1>2, <1>3, <1>7 DEF KnowsFit, InParent
<1>14. SureFit(p, l, r, q, w, f)
  <2>1. SafeFor(p, w) /\ (f # 0 => SafeFor(p, f)) /\ SafeFor(p, dp)
    BY <1>2, OldSafe DEF InParent
  <2>2. SafeFor(p, ip)
    BY <1>0, <1>2, <1>3, <1>4, Named, LinkedSafe
  <2> QED  BY <1>7, <1>8, <2>1, <2>2 DEF SureFit, InParent
<1>15. Typed(l, r, q, w, f) /\ Goto(p, s, l, r, q)
  BY <1>6, <1>7, <1>8, <1>9 DEF Typed, Labels
<1>16. Goes(p, s, l, r, q, w, f)
  BY <1>9, <1>15 DEF Goes
<1>17. CASE s.panic # "no"
  BY <1>5, <1>16, <1>17, PanicGoto
<1>18. CASE Becomes(s, k.di, ref, lock)
  <2>1. ~(r.op = "link2" \/ l = "erased") /\ l # "ialloc" /\ pc[p] # "ialloc"
    BY SMTT(30), <1>2, <1>7
  <2> HIDE DEF l, q, w, f, s, ref, lock
  <2> QED  BY ONLY <1>10, <1>11, <1>12, <1>13, <1>14, <1>16, <1>18, <2>1, Core, p \in Procs,
                   QuietGoto
<1> QED  BY SMTT(30), <1>5, <1>17, <1>18

(* unlink looks its name up. IInv is kept. *)
LEMMA UnlinkLookupKeeps ==
  ASSUME Core, NEW p \in Procs, UnlinkLookup(p) PROVE IInv'
<1> DEFINE dp == c[p].ip
           t == ilock(k, p, dp)
           n == Head(c[p].rest)
           e == t.ic[dp]
           ip == e.ents[n]
           x == k.di[dp].ents[n]
<1>1. pc[p] = "unlink" /\ puts[p] = <<>> /\ k.lock[dp] = None /\ Rest
  BY DEF UnlinkLookup, At, Free
<1>2. c[p] \in InCall /\ dp # 0 /\ c[p].held = 0
  BY SMTT(30), <1>1, CoreTypes DEF Place, HasIp, HasHeld, InParent, Started
<1>3. dp \in Inums /\ pc[p] \in NoLock /\ k.ref[dp] > 0
  BY <1>1, <1>2, OldRef, Numbers DEF NoLock, Labels, Started
<1>4. \/ Return(p, iunlock(t, dp), <<dp>>)
      \/ n \notin {".", ".."} /\ ip # 0 /\ Goto(p, iget(t, ip), "erase", Holds(c[p], ip), <<>>)
  BY DEF UnlinkLookup, dirlookup, Holds
<1>5. e = k.di[dp]
  BY <1>1, <1>3, Locking
<1>6. CASE Return(p, iunlock(t, dp), <<dp>>)
  BY <1>1, <1>2, <1>3, <1>6, Returns
<1>7. CASE n \notin {".", ".."} /\ ip # 0 /\ Goto(p, iget(t, ip), "erase", Holds(c[p], ip), <<>>)
  <2>1. ip = x
    BY SMTT(30), <1>5
  <2> HIDE DEF ip
  <2>2. x # 0 /\ Goto(p, iget(ilock(k, p, dp), x), "erase", Holds(c[p], x), <<>>) /\ x = EntryOf(dp, n)
          /\ dp = c[p].ip
        /\ n = Head(c[p].rest) /\ n \notin {".", ".."}
    BY <1>7, <2>1 DEF EntryOf
  <2> HIDE DEF x, dp, n
  <2> QED  BY ONLY <1>1, <2>2, Core, p \in Procs, UnlinkFinds
<1> QED  BY <1>4, <1>6, <1>7

(* unlink of a directory that is not empty. *)
LEMMA UnlinkRefuses ==
  ASSUME Core, NEW p \in Procs, puts[p] = <<>>, pc[p] = "erase", NEW ip, ip = c[p].held,
         k.lock[ip] = None,
         Goto(p, iunlock(ilock(k, p, ip), ip), "unlockdp", Holds(c[p], 0), <<ip>>), Rest
  PROVE  IInv'
<1> DEFINE s == iunlock(ilock(k, p, ip), ip)
           r == Holds(c[p], 0)
           l == "unlockdp"
           q == <<ip>>
           w == cwd[p]
           f == fd[p]
           dp == c[p].ip
<1>1. Place(p) /\ c[p] \in InCall /\ Knows(p) /\ k.ref \in [Inums -> Nat]
  BY CoreTypes
<1>2. /\ dp # 0 /\ ip # 0 /\ ip \in Inums /\ dp \in Inums /\ k.ref[ip] > 0 /\ c[p].op # "link2"
      /\ c[p].op = "create" => c[p].kind \in {"file", "dir", "dev"}
      /\ c[p].rest # <<>> /\ k.di[dp].ents[Head(c[p].rest)] = ip
  BY <1>1, OldRef DEF Place, HasIp, HasHeld, InParent, Started, Knows
<1>3. s \in Kernel /\ (s.panic # "no" \/ Becomes(s, k.di, k.ref, k.lock))
  BY <1>2, Locking
<1>6. r = Holds(c[p], 0) /\ c[p] \in InCall /\ 0 \in 0..NINODES
  BY <1>1, Numbers
<1> HIDE DEF r
<1>7. /\ r \in InCall /\ r.op = c[p].op /\ r.kind = c[p].kind /\ r.ip = c[p].ip /\ r.held = 0
      /\ r.rest = c[p].rest
  BY ONLY <1>6, CalHolds
<1>8. q \in Seq(Inums) /\ Len(q) <= 2 /\ Put(q, 1) = ip /\ Put(q, 2) = 0
  BY <1>2, PutOne
<1>9. cwd' = [cwd EXCEPT ![p] = w] /\ fd' = [fd EXCEPT ![p] = f] /\ left' \in Nat /\ w \in Inums
        /\ f \in 0..NINODES
  BY RestIs
<1>10. RefsFit(p, k.ref, w, f, r, q)
  <2>1. ASSUME NEW j \in Inums
        PROVE  k.ref[j] + Is(cwd[p], j) + Is(fd[p], j) + Is(c[p].ip, j) + Is(c[p].held, j)
                     = k.ref[j] + Is(w, j) + Is(f, j) + Is(c[p].ip, j) + Is(0, j) + Is(ip, j) + Is(0, j)
    <3>2. k.ref[j] \in Nat /\ Is(0, j) = 0 /\ Is(ip, j) \in Nat /\ Is(c[p].ip, j) \in Nat
            /\ Is(cwd[p], j) \in Nat /\ Is(fd[p], j) \in Nat
          /\ Is(c[p].held, j) = Is(ip, j) /\ w = cwd[p] /\ f = fd[p]
      BY <1>1, <1>2, IsIs
    <3> HIDE DEF w, f
    <3> QED  BY ONLY <3>2
  <2> HIDE DEF q, w, f
  <2> QED  BY ONLY <1>1, <1>7, <1>8, <2>1, Core, p \in Procs, puts[p] = <<>>, FitRefs
<1>11. LocksFit(p, k.lock, l, r)
  BY <1>7, HasLocks DEF LocksFit
<1>12. PlaceFit(l, r, q)
  BY <1>2, <1>7, <1>8, Numbers DEF PlaceFit, InParent, Started
<1>13. KnowsFit(k.di, l, r, q)
  BY <1>2, <1>7 DEF KnowsFit, InParent
<1>14. SureFit(p, l, r, q, w, f)
  <2>1. SafeFor(p, w) /\ (f # 0 => SafeFor(p, f)) /\ SafeFor(p, dp) /\ SafeFor(p, ip)
    BY <1>2, OldSafe DEF InParent
  <2> QED  BY <1>7, <1>8, <2>1 DEF SureFit, InParent
<1>15. Typed(l, r, q, w, f) /\ Goto(p, s, l, r, q)
  BY <1>6, <1>7, <1>8, <1>9 DEF Typed, Labels
<1>16. Goes(p, s, l, r, q, w, f)
  BY <1>9, <1>15 DEF Goes
<1>17. CASE s.panic # "no"
  BY <1>3, <1>16, <1>17, PanicGoto
<1>18. CASE Becomes(s, k.di, k.ref, k.lock)
  <2>1. ~(r.op = "link2" \/ l = "erased") /\ l # "ialloc" /\ pc[p] # "ialloc"
    BY <1>2, <1>7
  <2> HIDE DEF l, q, w, f, s
  <2> QED  BY ONLY <1>10, <1>11, <1>12, <1>13, <1>14, <1>16, <1>18, <2>1, Core, p \in Procs,
                   QuietGoto
<1> QED  BY <1>3, <1>17, <1>18

(* link finds its name taken. *)
LEMMA LinkFinds ==
  ASSUME Core, NEW p \in Procs, puts[p] = <<>>, pc[p] = "link2", NEW dp, dp = c[p].ip,
         k.lock[dp] = None,
         NEW n, n = Head(c[p].rest), NEW old, old = EntryOf(dp, n), old # 0,
         Goto(p, iget(ilock(k, p, dp), old), "unlockdp", c[p], <<old>>), Rest
  PROVE  IInv'
<1> DEFINE s == iget(ilock(k, p, dp), old)
           r == c[p]
           l == "unlockdp"
           q == <<old>>
           w == cwd[p]
           f == fd[p]
           ref == With(k.ref, old, k.ref[old] + 1)
           lock == With(k.lock, dp, p)
<1>0. old = k.di[dp].ents[n]
  BY DEF EntryOf
<1>1. Place(p) /\ c[p] \in InCall /\ Knows(p) /\ k.ref \in [Inums -> Nat]
  BY CoreTypes
<1>2. /\ dp # 0 /\ dp \in Inums /\ k.ref[dp] > 0 /\ c[p].rest # <<>> /\ c[p].held # 0
        /\ c[p].op = "link2"
      /\ k.di[dp].type = "dir" /\ k.di[c[p].held].type # "dir"
  BY <1>1, OldRef DEF Place, HasIp, HasHeld, InParent, Started, Knows
<1>3. n \in AllNames /\ n \in Elems
  BY <1>1, <1>2, HeadIn
<1>4. old \in Inums /\ old \in 0..NINODES
  BY <1>0, <1>2, <1>3, EntryIn
<1>5. s \in Kernel /\ (s.panic # "no" \/ Becomes(s, k.di, ref, lock))
  BY <1>2, <1>4, Finding
<1>8. q \in Seq(Inums) /\ Len(q) <= 2 /\ Put(q, 1) = old /\ Put(q, 2) = 0
  BY <1>4, PutOne
<1>9. cwd' = [cwd EXCEPT ![p] = w] /\ fd' = [fd EXCEPT ![p] = f] /\ left' \in Nat /\ w \in Inums
        /\ f \in 0..NINODES
  BY RestIs
<1>10. RefsFit(p, ref, w, f, r, q)
  <2>0. ref \in [Inums -> Nat]
    BY <1>4, RefsWith
  <2>1. ASSUME NEW j \in Inums
        PROVE  ref[j] + Is(cwd[p], j) + Is(fd[p], j) + Is(c[p].ip, j) + Is(c[p].held, j)
                     = k.ref[j] + Is(w, j) + Is(f, j) + Is(c[p].ip, j) + Is(c[p].held, j) + Is(old, j) + Is(0, j)
    <3>1. ref[j] = k.ref[j] + Is(old, j)
      BY <1>1, <1>4, RefMore
    <3>2. k.ref[j] \in Nat /\ Is(0, j) = 0 /\ Is(old, j) \in Nat /\ Is(c[p].ip, j) \in Nat
            /\ Is(cwd[p], j) \in Nat /\ Is(fd[p], j) \in Nat
          /\ Is(c[p].held, j) \in Nat /\ w = cwd[p] /\ f = fd[p]
      BY <1>1, <1>2, IsIs
    <3> HIDE DEF ref, w, f
    <3> QED  BY ONLY <3>1, <3>2
  <2> HIDE DEF q, w, f, ref
  <2> QED  BY ONLY <1>8, <2>0, <2>1, Core, p \in Procs, puts[p] = <<>>, FitRefs DEF r
<1>11. LocksFit(p, lock, l, r)
  <2>1. pc[p] \in NoLock /\ l \in {"ialloc", "erase", "unlockdp"} /\ r.ip = dp
    BY DEF NoLock, Labels, Started
  <2> QED  BY <1>2, <2>1, LockTakes
<1>12. PlaceFit(l, r, q)
  BY <1>2, <1>8 DEF PlaceFit, InParent, Started
<1>13. KnowsFit(k.di, l, r, q)
  BY <1>0, <1>2 DEF KnowsFit, InParent
<1>14. SureFit(p, l, r, q, w, f)
  <2>1. SafeFor(p, w) /\ (f # 0 => SafeFor(p, f)) /\ SafeFor(p, dp) /\ SafeFor(p, c[p].held)
    BY <1>2, OldSafe DEF InParent
  <2>2. ~Climbs => SafeFor(p, old)
    <3>1. stage[p] # "free"
      BY AtIs
    <3> QED  BY <1>0, <1>2, <1>3, <2>1, <3>1, FoundSafe
  <2> QED  BY <1>8, <2>1, <2>2 DEF SureFit, InParent
<1>15. Typed(l, r, q, w, f) /\ Goto(p, s, l, r, q)
  BY <1>1, <1>8, <1>9 DEF Typed, Labels
<1>16. Goes(p, s, l, r, q, w, f)
  BY <1>9, <1>15 DEF Goes
<1>17. CASE s.panic # "no"
  BY <1>5, <1>16, <1>17, PanicGoto
<1>18. CASE Becomes(s, k.di, ref, lock)
  <2>1. c[p].op = "link2" /\ c[p].held = r.held /\ l # "ialloc" /\ pc[p] # "ialloc"
    BY <1>2
  <2> HIDE DEF l, q, w, f, s, ref, lock, r
  <2> QED  BY ONLY <1>10, <1>11, <1>12, <1>13, <1>14, <1>16, <1>18, <2>1, Core, p \in Procs,
                   QuietGoto
<1> QED  BY SMTT(30), <1>5, <1>17, <1>18

(* iput in its steps: only its stage, its inodes to put and the kernel change. *)
LEMMA StageIs ==
  ASSUME Core, NEW p \in Procs, NEW from, NEW to \in {"lock", "free", "drop"}, Stage(p, from, to),
         NEW q \in Seq(Inums), puts' = [puts EXCEPT ![p] = q], k' \in Kernel
  PROVE  /\ TypeOK' /\ Others(p) /\ stage[p] = from /\ stage'[p] = to /\ pc'[p] = pc[p] /\ c'[p] = c[p]
         /\ puts'[p] = q /\ cwd'[p] = cwd[p] /\ fd'[p] = fd[p] /\ puts[p] # <<>>
              /\ puts[p] \in Seq(Inums)
         /\ Len(puts[p]) <= 2 /\ Head(puts[p]) \in Inums /\ pc[p] \notin {"ialloc", "erase"}
         /\ Head(puts[p]) = Put(puts[p], 1) /\ k.ref[Head(puts[p])] > 0
<1>1. /\ pc \in [Procs -> Labels] /\ c \in [Procs -> InCall]
      /\ puts \in [Procs -> Seq(Inums)] /\ stage \in [Procs -> {"lock", "free", "drop"}]
      /\ cwd \in [Procs -> Inums] /\ fd \in [Procs -> 0..NINODES] /\ left \in Nat /\ Place(p)
  BY DEF Core, TypeOK
<1>2. /\ puts[p] # <<>> /\ stage[p] = from /\ stage' = [stage EXCEPT ![p] = to] /\ pc' = pc /\ c' = c
      /\ cwd' = cwd /\ fd' = fd /\ left' = left
  BY DEF Stage, Rest
<1>3. TypeOK'
  BY <1>1, <1>2 DEF TypeOK
<1>4. Others(p)
  BY <1>1, <1>2 DEF Others
<1>5. Len(puts[p]) <= 2 /\ pc[p] \notin {"ialloc", "erase"}
  BY <1>1, <1>2 DEF Place
<1>6. puts[p] \in Seq(Inums) /\ Head(puts[p]) \in Inums /\ Head(puts[p]) = Put(puts[p], 1)
  BY <1>1, <1>2, PutHead
<1>7. k.ref[Head(puts[p])] > 0
  <2>1. Points(p, "put1") = Head(puts[p]) /\ "put1" \in Kinds
    BY <1>6, PointsAre DEF Kinds
  <2>2. RefsExact /\ k.ref \in [Inums -> Nat]
    BY CoreTypes DEF Core
  <2> QED  BY <1>6, <2>1, <2>2, HasRef
<1> QED  BY <1>1, <1>2, <1>3, <1>4, <1>5, <1>6, <1>7

(* Who has a lock has another reference than the one that p drops. *)
LEMMA LockedTwice ==
  ASSUME Core, NEW p \in Procs, puts[p] # <<>>, stage[p] = "drop", NEW i, i = Head(puts[p]),
         k.lock[i] # None
  PROVE  k.ref[i] > 1
<1>1. puts[p] \in Seq(Inums) /\ k.lock \in [Inums -> Procs \cup {None}] /\ RefsExact
        /\ k.ref \in [Inums -> Nat]
  BY CoreTypes DEF Core
<1>2. i \in Inums /\ Points(p, "put1") = i /\ "put1" \in Kinds /\ "ip" \in Kinds /\ "held" \in Kinds
  BY <1>1, PutHead, PointsAre DEF Kinds
<1>3. PICK q \in Procs : k.lock[i] = q
  BY <1>1, <1>2
<1>4. i \in Locked(q)
  BY <1>2, <1>3 DEF Core, Locks
<1>5. PICK y \in Kinds : <<q, y>> # <<p, "put1">> /\ Points(q, y) = i
  <2>1. CASE i = c[q].ip
    BY <1>2, <2>1, PointsAre, "ip" # "put1"
  <2>2. CASE i = c[q].held
    BY <1>2, <2>2, PointsAre, "held" # "put1"
  <2>3. CASE stage[q] = "free" /\ i = Head(puts[q])
    <3>1. puts[q] \in Seq(Inums) /\ puts[q] # <<>>
      BY <2>3, CoreTypes DEF Place
    <3>2. Points(q, "put1") = i /\ q # p
      BY <2>3, <3>1, PutHead, PointsAre
    <3> QED  BY <1>2, <3>2
  <2> QED  BY <1>4, <2>1, <2>2, <2>3 DEF Locked
<1> QED  BY <1>1, <1>2, <1>5, HasRef

(* iput of an inode with links or other references. IInv is kept. *)
LEMMA IputKeepKeeps ==
  ASSUME Core, NEW p \in Procs, IputKeep(p) PROVE IInv'
<1> DEFINE q == puts[p]
<1>1. Stage(p, "lock", "drop") /\ k' = k /\ puts' = puts
  BY DEF IputKeep
<1>2. k' \in Kernel /\ Good(k') /\ q \in Seq(Inums) /\ puts' = [puts EXCEPT ![p] = q]
        /\ "drop" \in {"lock", "free", "drop"}
  BY <1>1, CoreGood, CoreTypes DEF Core, TypeOK
<1>3. /\ TypeOK' /\ Others(p) /\ stage[p] = "lock" /\ stage'[p] = "drop" /\ pc'[p] = pc[p]
        /\ c'[p] = c[p]
      /\ puts'[p] = puts[p] /\ cwd'[p] = cwd[p] /\ fd'[p] = fd[p] /\ puts[p] # <<>> /\ pc[p] # "ialloc"
  BY <1>1, <1>2, StageIs
<1>4. \A i \in Inums : k'.ref[i] + Hits(p, i) = k.ref[i] + Hits(p, i)'
  BY <1>1, <1>3 DEF Hits
<1>5. \A i \in Inums : /\ k'.lock[i] = p <=> i \in Locked(p)'
                       /\ k'.lock[i] # k.lock[i] => k.lock[i] \in {p, None} /\ k'.lock[i] \in {p, None}
  <2>1. \A i \in Inums : i \in Locked(p)' <=> i \in Locked(p)
    BY <1>3 DEF Locked
  <2> QED  BY <1>1, <2>1 DEF Core, Locks
<1>6. ASSUME NEW x \in Kinds, Sure(p, x)', Points(p, x)' # 0 PROVE SafeFor(p, Points(p, x)')
  <2>1. Points(p, x)' = Points(p, x)
    BY <1>3, PointsAre, PointsAreNext DEF Kinds
  <2>2. Climbs' <=> Climbs
    BY DEF Climbs, Elems
  <2>3. Sure(p, x)
    BY <1>3, <1>6, <2>2 DEF Sure
  <2> QED  BY <1>6, <2>1, <2>3, OldSure DEF Core
<1>7. Place(p)' /\ Knows(p)'
  <2>1. Place(p) /\ Knows(p)
    BY CoreTypes
  <2> QED  BY <1>1, <1>3, <2>1 DEF Place, Knows, HasIp, HasHeld
<1>8. k'.di = k.di /\ stage[p] # "free" /\ stage'[p] # "free" /\ pc'[p] # "ialloc"
  BY <1>1, <1>3
<1>9. c'[p].op = "link2" \/ pc'[p] = "erased" => (c[p].op = "link2" \/ pc[p] = "erased")
        /\ c[p].held = c'[p].held
  BY <1>3
<1> QED  BY <1>2, <1>3, <1>4, <1>5, <1>6, <1>7, <1>8, <1>9, QuietStep

(* iput drops the reference: the pointer goes with it. IInv is kept. *)
LEMMA IputDropKeeps ==
  ASSUME Core, NEW p \in Procs, IputDrop(p) PROVE IInv'
<1> DEFINE i == Head(puts[p])
           q == Tail(puts[p])
           h == With(k.ref, i, k.ref[i] - 1)
<1>1. Stage(p, "drop", "lock") /\ k' = [k EXCEPT !.ref[i] = @ - 1]
        /\ puts' = [puts EXCEPT ![p] = Tail(@)]
  BY DEF IputDrop
<1>2. puts[p] # <<>> /\ stage[p] = "drop"
  BY <1>1 DEF Stage
<1>3. puts[p] \in Seq(Inums) /\ Place(p) /\ Knows(p) /\ k.ref \in [Inums -> Nat]
        /\ puts \in [Procs -> Seq(Inums)]
  BY CoreTypes DEF Core, TypeOK
<1>4. /\ i \in Inums /\ Put(puts[p], 1) = i /\ q \in Seq(Inums)
      /\ Put(q, 1) = Put(puts[p], 2) /\ Put(q, 2) = 0 /\ Len(q) <= 2
  BY <1>2, <1>3, PutHead DEF Place
<1>5. k.ref[i] > 0
  <2>1. Points(p, "put1") = i /\ "put1" \in Kinds /\ RefsExact
    BY <1>4, PointsAre DEF Kinds, Core
  <2> QED  BY <1>3, <1>4, <2>1, HasRef
<1>6. Becomes(k', k.di, h, k.lock)
  <2>1. k.lock[i] # None => k.ref[i] > 1
    BY <1>2, LockedTwice
  <2> QED  BY <1>1, <1>4, <1>5, <2>1, CoreGood, GoodDrop
<1>7. k' \in Kernel /\ Good(k') /\ k'.di = k.di /\ k'.ref = h /\ k'.lock = k.lock
  BY <1>6 DEF Becomes, Good
<1>8. puts' = [puts EXCEPT ![p] = q] /\ "lock" \in {"lock", "free", "drop"}
  BY <1>1, <1>3
<1>9. /\ TypeOK' /\ Others(p) /\ stage[p] = "drop" /\ stage'[p] = "lock" /\ pc'[p] = pc[p]
        /\ c'[p] = c[p]
      /\ puts'[p] = q /\ cwd'[p] = cwd[p] /\ fd'[p] = fd[p] /\ pc[p] # "ialloc"
  BY <1>1, <1>4, <1>7, <1>8, StageIs, ZenonT(30)
<1> HIDE DEF q
<1>10. ASSUME NEW j \in Inums PROVE k'.ref[j] + Hits(p, j) = k.ref[j] + Hits(p, j)'
  <2>1. h[j] + One(i = j) = k.ref[j] /\ h[j] \in Int /\ k.ref[j] \in Nat
    BY <1>3, <1>4, <1>5 DEF With, One
  <2>2. One(0 = j) = 0
    BY Numbers DEF One
  <2> DEFINE m == One(cwd[p] = j) + One(fd[p] = j) + One(c[p].ip = j) + One(c[p].held = j)
  <2>3. m \in Nat /\ One(Put(puts[p], 2) = j) \in Nat /\ One(i = j) \in Nat
    BY DEF One
  <2>4. Hits(p, j) = m + One(i = j) + One(Put(puts[p], 2) = j)
    BY <1>4 DEF Hits
  <2>5. Hits(p, j)' = m + One(Put(puts[p], 2) = j) + One(0 = j)
    BY <1>4, <1>9 DEF Hits
  <2> HIDE DEF m, h
  <2> QED  BY ONLY <1>7, <2>1, <2>2, <2>3, <2>4, <2>5
<1>11. \A j \in Inums : /\ k'.lock[j] = p <=> j \in Locked(p)'
                        /\ k'.lock[j] # k.lock[j] => k.lock[j] \in {p, None} /\ k'.lock[j] \in {p, None}
  <2>1. \A j \in Inums : j \in Locked(p)' <=> j \in Locked(p)
    BY <1>9 DEF Locked
  <2> QED  BY <1>7, <2>1 DEF Core, Locks
<1>12. ASSUME NEW x \in Kinds, Sure(p, x)', Points(p, x)' # 0 PROVE SafeFor(p, Points(p, x)')
  <2>1. Climbs' <=> Climbs
    BY DEF Climbs, Elems
  <2>2. CASE x = "put1"
    <3>1. Points(p, x)' = Points(p, "put2") /\ "put2" \in Kinds
      BY <1>4, <1>9, <2>2, PointsAre, PointsAreNext DEF Kinds
    <3>2. Sure(p, "put2")
      BY <1>12, <2>1, <2>2 DEF Sure
    <3> QED  BY <1>12, <3>1, <3>2, OldSure DEF Core
  <2>3. CASE x = "put2"
    BY <1>4, <1>9, <1>12, <2>3, PointsAreNext
  <2>4. CASE x \notin {"put1", "put2"}
    <3>1. Points(p, x)' = Points(p, x)
      BY <1>9, <2>4, PointsAre, PointsAreNext DEF Kinds
    <3>2. Sure(p, x)
      BY <1>9, <1>12, <2>1, <2>4 DEF Sure
    <3> QED  BY <1>12, <3>1, <3>2, OldSure DEF Core
  <2> QED  BY <2>2, <2>3, <2>4
<1>13. Place(p)' /\ Knows(p)'
  <2>1. pc[p] \notin {"ialloc", "erase"}
    BY <1>2, <1>3 DEF Place
  <2>2. Place(p)'
    BY <1>3, <1>4, <1>9, <2>1 DEF Place, HasIp, HasHeld
  <2>3. pc[p] = "unlockdp" => c[p].rest # <<>> /\ q = <<>>
    <3> SUFFICES ASSUME pc[p] = "unlockdp" PROVE c[p].rest # <<>> /\ q = <<>>
      OBVIOUS
    <3>1. c[p].rest # <<>> /\ puts[p] = <<k.di[c[p].ip].ents[Head(c[p].rest)]>>
      BY SMTT(30), <1>2, <1>3 DEF Knows
    <3> QED  BY <3>1 DEF q
  <2>4. Knows(p)'
    BY <1>3, <1>7, <1>9, <2>1, <2>3 DEF Knows
  <2> QED  BY <2>2, <2>4
<1>14. stage[p] # "free" /\ stage'[p] # "free" /\ pc'[p] # "ialloc"
  BY <1>9
<1>15. c'[p].op = "link2" \/ pc'[p] = "erased" => (c[p].op = "link2" \/ pc[p] = "erased")
         /\ c[p].held = c'[p].held
  BY <1>9
<1> HIDE DEF i, h
<1> QED  BY ONLY <1>7, <1>9, <1>10, <1>11, <1>12, <1>13, <1>14, <1>15, Core, p \in Procs, QuietStep

(* Two sets that differ at most in x. *)
LEMMA Differ ==
  ASSUME NEW S, NEW T, NEW x, IsFiniteSet(S), IsFiniteSet(T), \A y : y # x => (y \in S <=> y \in T)
  PROVE  Cardinality(T) + One(x \in S) = Cardinality(S) + One(x \in T)
<1> DEFINE A == S \ {x}
           a == x \in S
           b == x \in T
<1>1. IsFiniteSet(A) /\ x \notin A
  BY Size
<1>2. a \in BOOLEAN /\ b \in BOOLEAN /\ (a => S = A \cup {x}) /\ (~a => S = A) /\ (b => T = A \cup {x})
        /\ (~b => T = A)
  OBVIOUS
<1>3. Cardinality(A) \in Nat /\ One(a) \in Nat /\ One(b) \in Nat
  BY <1>1, <1>2, Size, OneIs
<1> HIDE DEF A, a, b
<1>4. Cardinality(S) = Cardinality(A) + One(a)
  BY <1>1, <1>2, GrownIf
<1>5. Cardinality(T) = Cardinality(A) + One(b)
  BY <1>1, <1>2, GrownIf
<1>6. Cardinality(T) + One(a) = Cardinality(S) + One(b)
  BY <1>3, <1>4, <1>5
<1> QED  BY <1>6 DEF a, b

(* entry n of d is a directory *)
DirAt(di, d, n) == di[d].ents[n] \in Inums /\ di[di[d].ents[n]].type = "dir"
(* p has changed the entries of i and not yet its count, or the count and  *)
(* not the entries                                                         *)
CountedOn(p, i) == (c[p].op = "link2" \/ pc[p] = "erased") /\ c[p].held = i

(* What LinksEnough counts is finite, now and after a step. *)
LEMMA CountsNext ==
  ASSUME NEW i \in Inums
  PROVE  /\ IsFiniteSet(NamesOf(i)) /\ IsFiniteSet(SubdirsOf(i)) /\ IsFiniteSet(CallsOn(i))
         /\ IsFiniteSet(NamesOf(i)') /\ IsFiniteSet(SubdirsOf(i)') /\ IsFiniteSet(CallsOn(i)')
<1>1. NamesOf(i) \subseteq Inums \X Names /\ NamesOf(i)' \subseteq Inums \X Names
  BY DEF NamesOf
<1>2. SubdirsOf(i) \subseteq Names /\ SubdirsOf(i)' \subseteq Names
  BY DEF SubdirsOf
<1>3. CallsOn(i) \subseteq Procs /\ CallsOn(i)' \subseteq Procs
  BY DEF CallsOn
<1> QED  BY <1>1, <1>2, <1>3, InumsFinite, Size

(* One entry changes, and p's call. *)
LEMMA LinksStep ==
  ASSUME Core, TypeOK', NEW p \in Procs, Others(p), NEW d \in Inums, NEW n \in Names,
         \A i \in Inums : k'.di[i].type = k.di[i].type,
         \A x \in Inums, m \in Names : <<x, m>> # <<d, n>> => k'.di[x].ents[m] = k.di[x].ents[m],
         \A i \in Inums :
           k'.di[i].nlink + One(k.di[d].ents[n] = i) + One(i = d
             /\ DirAt(k.di, d, n)) + One(CountedOn(p, i))
             >= k.di[i].nlink + One(k'.di[d].ents[n] = i) + One(i = d
               /\ DirAt(k'.di, d, n)) + One(CountedOn(p, i)')
  PROVE  LinksEnough'
<1> SUFFICES ASSUME NEW i \in Inums
             PROVE  k'.di[i].nlink >= Cardinality(NamesOf(i)') + Cardinality(SubdirsOf(i)') + Cardinality(CallsOn(i)')
                                        + (IF i = Root THEN 1 ELSE 0)
  BY DEF LinksEnough
<1>1. Cardinality(NamesOf(i)') + One(k.di[d].ents[n] = i) = Cardinality(NamesOf(i)) + One(k'.di[d].ents[n] = i)
  <2> DEFINE S == NamesOf(i)
             T == NamesOf(i)'
             z == <<d, n>>
  <2>1. ASSUME NEW y, y # z PROVE y \in S <=> y \in T
    BY <2>1 DEF NamesOf
  <2>2. (z \in S <=> k.di[d].ents[n] = i) /\ (z \in T <=> k'.di[d].ents[n] = i)
    BY DEF NamesOf
  <2>3. IsFiniteSet(S) /\ IsFiniteSet(T)
    BY CountsNext
  <2> HIDE DEF S, T, z
  <2>4. Cardinality(T) + One(z \in S) = Cardinality(S) + One(z \in T)
    BY <2>1, <2>3, Differ
  <2> QED  BY <2>2, <2>4 DEF One, S, T
<1>2. Cardinality(SubdirsOf(i)') + One(i = d
        /\ DirAt(k.di, d, n)) = Cardinality(SubdirsOf(i)) + One(i = d /\ DirAt(k'.di, d, n))
  <2> DEFINE S == SubdirsOf(i)
             T == SubdirsOf(i)'
  <2>0. \A m : (m \in S <=> m \in Names /\ DirAt(k.di, i, m)) /\ (m \in T <=> m \in Names
          /\ DirAt(k'.di, i, m))
    BY DEF SubdirsOf, DirAt
  <2>1. ASSUME NEW m \in Names, i # d \/ m # n PROVE DirAt(k.di, i, m) <=> DirAt(k'.di, i, m)
    BY <2>1, SMTT(20) DEF DirAt
  <2>3. IsFiniteSet(S) /\ IsFiniteSet(T) /\ Cardinality(S) \in Nat /\ Cardinality(T) \in Nat
    BY CountsNext, Size
  <2> HIDE DEF S, T
  <2>4. CASE i = d
    <3>1. Cardinality(T) + One(n \in S) = Cardinality(S) + One(n \in T)
      <4>1. ASSUME NEW y, y # n PROVE y \in S <=> y \in T
        BY <2>0, <2>1, <4>1
      <4> QED  BY <2>3, <4>1, Differ
    <3>2. (n \in S <=> DirAt(k.di, d, n)) /\ (n \in T <=> DirAt(k'.di, d, n))
      BY <2>0, <2>4
    <3> QED  BY <2>4, <3>1, <3>2 DEF One, S, T
  <2>5. CASE i # d
    <3>1. S = T
      BY <2>0, <2>1, <2>5
    <3> QED  BY <2>3, <2>5, <3>1 DEF One, S, T
  <2> QED  BY <2>4, <2>5
<1>3. Cardinality(CallsOn(i)') + One(CountedOn(p, i)) = Cardinality(CallsOn(i)) + One(CountedOn(p, i)')
  <2> DEFINE S == CallsOn(i)
             T == CallsOn(i)'
  <2>1. ASSUME NEW y, y # p PROVE y \in S <=> y \in T
    BY <2>1 DEF CallsOn, Others
  <2>2. (p \in S <=> CountedOn(p, i)) /\ (p \in T <=> CountedOn(p, i)')
    BY DEF CallsOn, CountedOn
  <2>3. IsFiniteSet(S) /\ IsFiniteSet(T)
    BY CountsNext
  <2> HIDE DEF S, T
  <2>4. Cardinality(T) + One(p \in S) = Cardinality(S) + One(p \in T)
    BY <2>1, <2>3, Differ
  <2> QED  BY <2>2, <2>4 DEF One, S, T
<1> DEFINE a == Cardinality(NamesOf(i))
           b == Cardinality(SubdirsOf(i))
           e == Cardinality(CallsOn(i))
           a1 == Cardinality(NamesOf(i)')
           b1 == Cardinality(SubdirsOf(i)')
           e1 == Cardinality(CallsOn(i)')
           r == IF i = Root THEN 1 ELSE 0
           x1 == One(k.di[d].ents[n] = i)
           x2 == One(i = d /\ DirAt(k.di, d, n))
           x3 == One(CountedOn(p, i))
           y1 == One(k'.di[d].ents[n] = i)
           y2 == One(i = d /\ DirAt(k'.di, d, n))
           y3 == One(CountedOn(p, i)')
<1>4. a \in Nat /\ b \in Nat /\ e \in Nat /\ a1 \in Nat /\ b1 \in Nat /\ e1 \in Nat /\ r \in Nat
  BY CountsNext, Size
<1>5. x1 \in Nat /\ x2 \in Nat /\ x3 \in Nat /\ y1 \in Nat /\ y2 \in Nat /\ y3 \in Nat
  BY DEF One
<1>6. k.di[i].nlink \in Int /\ k'.di[i].nlink \in Int
  BY CoreTypes, TypesNext, InoIs
<1>7. k.di[i].nlink >= a + b + e + r
  BY DEF Core, LinksEnough
<1>8. k'.di[i].nlink + x1 + x2 + x3 >= k.di[i].nlink + y1 + y2 + y3
  OBVIOUS
<1>9. a1 + x1 = a + y1 /\ b1 + x2 = b + y2 /\ e1 + x3 = e + y3
  BY <1>1, <1>2, <1>3
<1> HIDE DEF a, b, e, a1, b1, e1, r, x1, x2, x3, y1, y2, y3
<1>10. k'.di[i].nlink >= a1 + b1 + e1 + r
  BY ONLY <1>4, <1>5, <1>6, <1>7, <1>8, <1>9
<1> QED  BY <1>10 DEF a1, b1, e1, r

(* Entries go, and none is counted more. *)
LEMMA LinksLess ==
  ASSUME Core, TypeOK', NEW p \in Procs, Others(p),
         \A x \in Inums, m \in Names : k'.di[x].ents[m] \in {k.di[x].ents[m], 0},
         \A i \in Inums : k'.di[i].type = "dir" => k.di[i].type = "dir" \/ k.di[i].nlink = 0,
         \A i \in Inums : k'.di[i].nlink = k.di[i].nlink /\ (CountedOn(p, i)' => CountedOn(p, i))
  PROVE  LinksEnough'
<1> SUFFICES ASSUME NEW i \in Inums
             PROVE  k'.di[i].nlink >= Cardinality(NamesOf(i)') + Cardinality(SubdirsOf(i)') + Cardinality(CallsOn(i)')
                                        + (IF i = Root THEN 1 ELSE 0)
  BY DEF LinksEnough
<1>1. NamesOf(i)' \subseteq NamesOf(i)
  BY Numbers DEF NamesOf
<1>2. SubdirsOf(i)' \subseteq SubdirsOf(i)
  <2> SUFFICES ASSUME NEW m \in Names, NEW j \in Inums, k'.di[i].ents[m] = j, k'.di[j].type = "dir"
               PROVE  k.di[i].ents[m] = j /\ k.di[j].type = "dir"
    BY DEF SubdirsOf
  <2>1. k.di[i].ents[m] = j
    BY Numbers
  <2>2. k.di[j].nlink >= 1 /\ k.di[j].nlink \in Int
    BY <2>1, Named, Counts
  <2> QED  BY <2>1, <2>2
<1>3. CallsOn(i)' \subseteq CallsOn(i)
  BY DEF CallsOn, CountedOn, Others
<1> DEFINE a == Cardinality(NamesOf(i))
           b == Cardinality(SubdirsOf(i))
           e == Cardinality(CallsOn(i))
           a1 == Cardinality(NamesOf(i)')
           b1 == Cardinality(SubdirsOf(i)')
           e1 == Cardinality(CallsOn(i)')
           r == IF i = Root THEN 1 ELSE 0
<1>4. a \in Nat /\ b \in Nat /\ e \in Nat /\ a1 \in Nat /\ b1 \in Nat /\ e1 \in Nat /\ r \in Nat
  BY CountsNext, Size
<1>5. a1 <= a /\ b1 <= b /\ e1 <= e
  BY <1>1, <1>2, <1>3, CountsNext, Size
<1>6. k.di[i].nlink \in Int /\ k'.di[i].nlink = k.di[i].nlink /\ k.di[i].nlink >= a + b + e + r
  BY Counts DEF Core, LinksEnough
<1> HIDE DEF a, b, e, a1, b1, e1, r
<1>7. k'.di[i].nlink >= a1 + b1 + e1 + r
  BY ONLY <1>4, <1>5, <1>6
<1> QED  BY <1>7 DEF a1, b1, e1, r

(* Directories still make no cycle: an entry more is for an inode that has none. *)
LEMMA NoCycleStep ==
  ASSUME NoCycle, NEW j \in Inums,
         \A x \in Inums, m \in Names : k'.di[x].ents[m] \in {k.di[x].ents[m], 0, j},
         \/ \A m \in Names : k'.di[j].ents[m] = 0
         \/ \A x \in Inums, m \in Names : k'.di[x].ents[m] \in {k.di[x].ents[m], 0}
  PROVE  NoCycle'
<1> SUFFICES ASSUME NEW S \in SUBSET Inums, S # {}
             PROVE  \E x \in S : \A m \in Names : k'.di[x].ents[m] \notin S
  BY SMTT(30) DEF NoCycle
<1>0. 0 \notin S
  BY ONLY S \in SUBSET Inums, Numbers
<1>1. PICK x \in S : \A m \in Names : k.di[x].ents[m] \notin S
  BY ONLY NoCycle, S \in SUBSET Inums, S # {} DEF NoCycle
<1>2. CASE \A y \in Inums, m \in Names : k'.di[y].ents[m] \in {k.di[y].ents[m], 0}
  <2>1. ASSUME NEW m \in Names PROVE k'.di[x].ents[m] \notin S
    <3>1. x \in Inums
      BY ONLY x \in S, S \in SUBSET Inums
    <3>2. k'.di[x].ents[m] \in {k.di[x].ents[m], 0}
      BY ONLY <1>2, <3>1, m \in Names
    <3>3. k.di[x].ents[m] \notin S
      BY ONLY <1>1, m \in Names
    <3> QED  BY ONLY <1>0, <3>2, <3>3
  <2> QED  BY ONLY <2>1, x \in S
<1>3. CASE \A m \in Names : k'.di[j].ents[m] = 0
  <2>1. CASE j \in S
    <3>1. \A m \in Names : k'.di[j].ents[m] \notin S
      BY <1>0, <1>3
    <3> QED  BY <2>1, <3>1
  <2>2. CASE j \notin S
    <3>1. ASSUME NEW m \in Names PROVE k'.di[x].ents[m] \notin S
      <4>1. k'.di[x].ents[m] \in {k.di[x].ents[m], 0, j} /\ k.di[x].ents[m] \notin S
        BY <1>1
      <4> QED  BY ONLY <1>0, <2>2, <4>1
    <3> QED  BY ONLY <3>1, x \in S
  <2> QED  BY <2>1, <2>2
<1> QED  BY <1>2, <1>3, Zenon

(* i is just being made or freed by p, so that "." may be missing *)
Exempt(p, i) == (pc[p] = "ialloc" /\ c[p].held = i) \/ (stage[p] = "free" /\ Head(puts[p]) = i)

(* "." and ".." stay right. *)
LEMMA DotsStep ==
  ASSUME Core, ~Climbs, NEW p \in Procs, Others(p),
         \A i \in Inums : k'.di[i] # k.di[i] => SafeFor(p, i) \/ k.di[i].type = "free",
         pc'[p] = "ialloc" => k'.di[c'[p].held] = Fresh(c'[p].kind),
         \A i \in Inums : k'.di[i].type = "dir" =>
           k'.di[i].ents["."] = i \/ Exempt(p, i)' \/ (k'.di[i] = k.di[i] /\ ~Exempt(p, i)),
         \A x, i \in Inums, m \in Names : k'.di[x].ents[m] = i /\ k'.di[i].type = "dir" =>
           \/ k'.di[i].ents[".."] = x
           \/ k.di[x].ents[m] = i /\ k.di[i].type = "dir" /\ k'.di[i].ents[".."] = k.di[i].ents[".."],
         k'.di[Root].ents[".."] = k.di[Root].ents[".."]
  PROVE  DotsRight'
<1>1. DotsRight
  BY DEF Core
<1>2. ASSUME NEW q \in Procs, pc'[q] = "ialloc" PROVE k'.di[c'[q].held] = Fresh(c'[q].kind)
  <2>1. CASE q = p
    BY <1>2, <2>1
  <2>2. CASE q # p
    <3>1. pc[q] = "ialloc" /\ c'[q] = c[q]
      BY <1>2, <2>2 DEF Others
    <3>2. k.di[c[q].held] = Fresh(c[q].kind)
      BY <1>1, <3>1 DEF DotsRight
    <3>3. c[q].held \in Inums /\ Place(q) /\ Knows(q)
      BY <3>1, OldRef, CoreTypes DEF Place, HasHeld
    <3>4. k.di[c[q].held].type # "free"
      <4>1. k.di[c[q].held].type = c[q].kind /\ c[q].kind \in {"file", "dir", "dev"}
        BY <3>1, <3>3 DEF Knows, Place
      <4> QED  BY <4>1
    <3>5. ~SafeFor(p, c[q].held)
      BY <2>2, <3>1 DEF SafeFor
    <3> QED  BY <3>1, <3>2, <3>3, <3>4, <3>5
  <2> QED  BY <2>1, <2>2
<1>3. ASSUME NEW i \in Inums, k'.di[i].type = "dir", k'.di[i].ents["."] # i
      PROVE  \E q \in Procs : Exempt(q, i)'
  <2>1. CASE Exempt(p, i)'
    BY <2>1
  <2>2. CASE k'.di[i] = k.di[i] /\ ~Exempt(p, i)
    <3>1. PICK q \in Procs : Exempt(q, i)
      BY <1>1, <1>3, <2>2 DEF DotsRight, Exempt
    <3>2. q # p
      BY <2>2, <3>1
    <3> QED  BY <3>1, <3>2 DEF Exempt, Others
  <2> QED  BY <1>3, <2>1, <2>2
<1>4. ASSUME NEW x \in Inums, NEW i \in Inums, NEW m \in Names, k'.di[x].ents[m] = i,
             k'.di[i].type = "dir"
      PROVE  k'.di[i].ents[".."] = x
  BY <1>1, <1>4 DEF DotsRight
<1>5. k'.di[Root].ents[".."] = Root
  BY <1>1 DEF DotsRight
<1> QED  BY <1>2, <1>3, <1>4, <1>5 DEF DotsRight, Exempt

(* A call that changes at most one entry, and links of inodes that p is sure of. *)
LEMMA ChangeGoto ==
  ASSUME Core, NEW p \in Procs, NEW s, NEW l, NEW r, NEW q, NEW w, NEW f,
         NEW di, NEW ref, NEW lock, Becomes(s, di, ref, lock),
         Goes(p, s, l, r, q, w, f),
         RefsFit(p, ref, w, f, r, q), LocksFit(p, lock, l, r), PlaceFit(l, r, q), KnowsFit(di, l, r, q),
         SureFit(p, l, r, q, w, f), l # "ialloc",
         NEW d \in Inums, NEW n \in Names, NEW j \in Inums,
         \A i \in Inums : di[i] # k.di[i] => k.lock[i] \in {p, None} /\ SafeFor(p, i),
         \A i \in Inums : di[i].type = k.di[i].type,
         \A x \in Inums, m \in Names : <<x, m>> # <<d, n>> => di[x].ents[m] = k.di[x].ents[m],
         \A i \in Inums :
           di[i].nlink + One(k.di[d].ents[n] = i) + One(i = d
             /\ DirAt(k.di, d, n)) + One(CountedOn(p, i))
             >= k.di[i].nlink + One(di[d].ents[n] = i) + One(i = d /\ DirAt(di, d, n))
                  + One((r.op = "link2" \/ l = "erased") /\ r.held = i),
         ~Climbs =>
           /\ di[Root].ents[".."] = k.di[Root].ents[".."]
           /\ \/ di[d].ents[n] \in {k.di[d].ents[n], 0}
              \/ di[d].ents[n] = j /\ \A m \in Names : di[j].ents[m] = 0
           /\ \A i \in Inums : di[i].type = "dir" =>
                di[i].ents["."] = i \/ (di[i].ents["."] = k.di[i].ents["."] /\ ~Exempt(p, i))
           /\ \A x, i \in Inums, m \in Names : di[x].ents[m] = i /\ di[i].type = "dir" =>
                \/ di[i].ents[".."] = x
                \/ k.di[x].ents[m] = i /\ di[i].ents[".."] = k.di[i].ents[".."]
  PROVE  IInv'
<1>1. /\ TypeOK' /\ Good(k') /\ Others(p) /\ k'.di = di
      /\ \A i \in Inums : k'.ref[i] + Hits(p, i) = k.ref[i] + Hits(p, i)'
      /\ \A i \in Inums : /\ k'.lock[i] = p <=> i \in Locked(p)'
                          /\ k'.lock[i] # k.lock[i] => k.lock[i] \in {p, None}
                               /\ k'.lock[i] \in {p, None}
      /\ stage[p] # "free" /\ stage'[p] = "lock" /\ Place(p)' /\ Knows(p)'
      /\ pc'[p] = l /\ c'[p] = r
      /\ \A x \in Kinds : Sure(p, x)' /\ Points(p, x)' # 0 => SafeFor(p, Points(p, x)')
  BY ONLY Core, p \in Procs, Becomes(s, di, ref, lock), Goes(p, s, l, r, q, w, f),
          RefsFit(p, ref, w, f, r, q),
          LocksFit(p, lock, l, r), PlaceFit(l, r, q), KnowsFit(di, l, r, q), SureFit(p, l, r, q, w, f), GotoFacts
<1>2. k'.di = di
  BY <1>1
<1>3. SurePointers'
  <2>1. \A i \in Inums : k.di[i].type # "free" => k'.di[i].type # "free"
    BY <1>2
  <2>2. TypeOK /\ SurePointers /\ stage'[p] # "free" /\ pc'[p] # "ialloc"
    BY <1>1 DEF Core
  <2> QED  BY ONLY <1>1, <2>1, <2>2, p \in Procs, SureStep
<1>4. LinksEnough'
  <2>1. \A i \in Inums : CountedOn(p, i)' <=> (r.op = "link2" \/ l = "erased") /\ r.held = i
    BY <1>1 DEF CountedOn
  <2>2. \A i \in Inums :
           k'.di[i].nlink + One(k.di[d].ents[n] = i) + One(i = d
             /\ DirAt(k.di, d, n)) + One(CountedOn(p, i))
             >= k.di[i].nlink + One(k'.di[d].ents[n] = i) + One(i = d
               /\ DirAt(k'.di, d, n)) + One(CountedOn(p, i)')
    <3> SUFFICES ASSUME NEW i \in Inums
                 PROVE  k'.di[i].nlink + One(k.di[d].ents[n] = i) + One(i = d
                          /\ DirAt(k.di, d, n)) + One(CountedOn(p, i))
             >= k.di[i].nlink + One(k'.di[d].ents[n] = i) + One(i = d
               /\ DirAt(k'.di, d, n)) + One(CountedOn(p, i)')
      OBVIOUS
    <3>1. One(CountedOn(p, i)') = One((r.op = "link2" \/ l = "erased") /\ r.held = i)
      BY <2>1 DEF One
    <3> QED  BY <1>2, <3>1
  <2>3. \A i \in Inums : k'.di[i].type = k.di[i].type
    BY <1>2
  <2>4. \A x \in Inums, m \in Names : <<x, m>> # <<d, n>> => k'.di[x].ents[m] = k.di[x].ents[m]
    BY <1>2
  <2> QED  BY ONLY <1>1, <2>2, <2>3, <2>4, Core, p \in Procs, d \in Inums, n \in Names, LinksStep
<1>5. ASSUME ~Climbs PROVE DotsRight' /\ NoCycle'
  <2>1. NoCycle /\ DotsRight
    BY <1>5 DEF Core
  <2>2. NoCycle'
    <3>1. \A x \in Inums, m \in Names : k'.di[x].ents[m] = k.di[x].ents[m] \/ (x = d /\ m = n)
      BY <1>2
    <3>2. CASE k'.di[d].ents[n] \in {k.di[d].ents[n], 0}
      <4>1. \A x \in Inums, m \in Names : k'.di[x].ents[m] \in {k.di[x].ents[m], 0}
        BY <3>1, <3>2
      <4> QED  BY <2>1, <4>1, NoCycleStep, SMTT(20)
    <3>3. CASE k'.di[d].ents[n] = j /\ \A m \in Names : k'.di[j].ents[m] = 0
      <4>1. \A x \in Inums, m \in Names : k'.di[x].ents[m] \in {k.di[x].ents[m], 0, j}
        BY <3>1, <3>3
      <4> QED  BY <2>1, <3>3, <4>1, NoCycleStep
    <3> QED  BY <1>2, <1>5, <3>2, <3>3
  <2>3. \A i \in Inums : k'.di[i] # k.di[i] => SafeFor(p, i) \/ k.di[i].type = "free"
    BY <1>2
  <2>4. ASSUME NEW i \in Inums, k'.di[i].type = "dir", k'.di[i].ents["."] # i
        PROVE  k'.di[i] = k.di[i] /\ ~Exempt(p, i)
    <3>1. k.di[i].type = "dir" /\ k.di[i].ents["."] # i /\ ~Exempt(p, i)
      BY <1>2, <1>5, <2>4
    <3>2. PICK y \in Procs : Exempt(y, i)
      BY <2>1, <3>1 DEF DotsRight, Exempt
    <3>3. ~SafeFor(p, i)
      BY <1>5, <3>1, <3>2 DEF SafeFor, Exempt
    <3> QED  BY <1>2, <3>1, <3>3
  <2>5. ASSUME NEW x \in Inums, NEW i \in Inums, NEW m \in Names, k'.di[x].ents[m] = i,
               k'.di[i].type = "dir"
        PROVE  \/ k'.di[i].ents[".."] = x
               \/ k.di[x].ents[m] = i /\ k.di[i].type = "dir" /\ k'.di[i].ents[".."] = k.di[i].ents[".."]
    BY <1>2, <1>5, <2>5
  <2>6. pc'[p] # "ialloc"
    BY <1>1
  <2>8. k'.di[Root].ents[".."] = k.di[Root].ents[".."]
    BY <1>2, <1>5
  <2>7. DotsRight'
    BY ONLY <1>1, <1>5, <2>3, <2>4, <2>5, <2>6, <2>8, Core, p \in Procs, DotsStep
  <2> QED  BY <2>2, <2>7
<1>6. /\ \A i \in Inums : k'.di[i] # k.di[i] => k.lock[i] \in {p, None}
      /\ \A i \in Inums : k'.di[i].type # k.di[i].type =>
                            k.di[i].type = "free" \/ (stage[p] = "free" /\ Head(puts[p]) = i)
  BY SMTT(30), <1>2
<1> QED  BY ONLY <1>1, <1>3, <1>4, <1>5, <1>6, Core, p \in Procs, Keeps

(* The same when only the count of links or the blocks of one inode change. *)
LEMMA CountGoto ==
  ASSUME Core, NEW p \in Procs, NEW s, NEW l, NEW r, NEW q, NEW w, NEW f,
         NEW i \in Inums, NEW e \in Inode, NEW ref, NEW lock,
         Becomes(s, With(k.di, i, e), ref, lock),
         Goes(p, s, l, r, q, w, f),
         RefsFit(p, ref, w, f, r, q), LocksFit(p, lock, l, r), PlaceFit(l, r, q), KnowsFit(k.di, l, r, q),
         SureFit(p, l, r, q, w, f), l # "ialloc", pc[p] # "ialloc",
         k.lock[i] \in {p, None}, SafeFor(p, i), e.type = k.di[i].type, e.ents = k.di[i].ents,
         \A x \in Inums :
           (IF x = i THEN e.nlink ELSE k.di[x].nlink) + One(CountedOn(p, x))
             >= k.di[x].nlink + One((r.op = "link2" \/ l = "erased") /\ r.held = x)
  PROVE  IInv'
<1> DEFINE di == With(k.di, i, e)
           d == Root
           n == "a"
<1>1. k.di \in [Inums -> Inode]
  BY CoreTypes
<1>2. di[i] = e /\ \A x \in Inums : x # i => di[x] = k.di[x]
  BY <1>1 DEF With
<1>3. \A x \in Inums : di[x].type = k.di[x].type /\ di[x].ents = k.di[x].ents
  BY <1>2
<1>4. \A x \in Inums : di[x] # k.di[x] => k.lock[x] \in {p, None} /\ SafeFor(p, x)
  BY <1>2
<1>5. d \in Inums /\ n \in Names /\ i \in Inums
  BY Numbers, FsAssumption
<1>6. Becomes(s, di, ref, lock)
  OBVIOUS
<1> HIDE DEF di, d, n
<1>7. DirAt(di, d, n) <=> DirAt(k.di, d, n)
  BY <1>3, <1>5 DEF DirAt
<1>8. KnowsFit(di, l, r, q)
  <2>1. /\ (r.ip # 0 => r.ip \in Inums) /\ (r.held # 0 => r.held \in Inums)
        /\ (l \in InParent \cup {"unlockdp"} => r.ip # 0) /\ (l = "ialloc" \/ r.op = "link2" => r.held # 0)
    BY CalIs, Numbers DEF Goes, Typed, PlaceFit
  <2> QED  BY <1>3, <2>1 DEF KnowsFit, InParent
<1>9. \A x \in Inums :
           di[x].nlink + One(k.di[d].ents[n] = x) + One(x = d
             /\ DirAt(k.di, d, n)) + One(CountedOn(p, x))
             >= k.di[x].nlink + One(di[d].ents[n] = x) + One(x = d /\ DirAt(di, d, n))
                  + One((r.op = "link2" \/ l = "erased") /\ r.held = x)
  <2> SUFFICES ASSUME NEW x \in Inums
               PROVE  di[x].nlink + One(k.di[d].ents[n] = x) + One(x = d
                        /\ DirAt(k.di, d, n)) + One(CountedOn(p, x))
             >= k.di[x].nlink + One(di[d].ents[n] = x) + One(x = d /\ DirAt(di, d, n))
                  + One((r.op = "link2" \/ l = "erased") /\ r.held = x)
    OBVIOUS
  <2> DEFINE x1 == One(k.di[d].ents[n] = x)
             x2 == One(x = d /\ DirAt(k.di, d, n))
             x3 == One(CountedOn(p, x))
             y3 == One((r.op = "link2" \/ l = "erased") /\ r.held = x)
             m == di[x].nlink
             o == k.di[x].nlink
  <2>1. One(di[d].ents[n] = x) = x1 /\ One(x = d /\ DirAt(di, d, n)) = x2
    BY <1>3, <1>5, <1>7 DEF One
  <2>2. x1 \in Nat /\ x2 \in Nat /\ x3 \in Nat /\ y3 \in Nat
    BY DEF One
  <2>3. m \in Int /\ o \in Int
    BY <1>1, <1>2, InoIs
  <2>4. m = (IF x = i THEN e.nlink ELSE k.di[x].nlink) /\ m + x3 >= o + y3
    BY <1>2
  <2>5. m + x1 + x2 + x3 >= o + x1 + x2 + y3
    <3> HIDE DEF m, o, x1, x2, x3, y3
    <3> QED  BY ONLY <2>2, <2>3, <2>4
  <2> QED  BY <2>1, <2>5
<1>10. \A x : ~Exempt(p, x)
  <2>1. stage[p] # "free"
    BY AtIs DEF Goes
  <2> QED  BY <2>1 DEF Exempt
<1>11. \A x \in Inums, m \in Names : <<x, m>> # <<d, n>> => di[x].ents[m] = k.di[x].ents[m]
  BY <1>3
<1>12. \/ di[d].ents[n] \in {k.di[d].ents[n], 0}
       \/ di[d].ents[n] = i /\ \A m \in Names : di[i].ents[m] = 0
  BY <1>3, <1>5
<1>13. \A x \in Inums : di[x].type = "dir" => di[x].ents["."] = x \/ (di[x].ents["."] = k.di[x].ents["."]
         /\ ~Exempt(p, x))
  BY <1>3, <1>10
<1>14. \A x, y \in Inums, m \in Names : di[x].ents[m] = y /\ di[y].type = "dir" =>
                \/ di[y].ents[".."] = x
                \/ k.di[x].ents[m] = y /\ di[y].ents[".."] = k.di[y].ents[".."]
  BY <1>3
<1>15. (\A x \in Inums : di[x].type = k.di[x].type) /\ di[Root].ents[".."] = k.di[Root].ents[".."]
  BY <1>3, Numbers
<1> QED  BY ONLY <1>4, <1>5, <1>6, <1>8, <1>9, <1>11, <1>12, <1>13, <1>14, <1>15, Core, p \in Procs,
              Goes(p, s, l, r, q, w, f), RefsFit(p, ref, w, f, r, q), LocksFit(p, lock, l, r), PlaceFit(l, r, q),
              SureFit(p, l, r, q, w, f), l # "ialloc", ChangeGoto
=============================================================================
