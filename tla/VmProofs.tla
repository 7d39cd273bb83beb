------------------------------ MODULE VmProofs ------------------------------
(***************************************************************************)
(* For any number of processes, pages, page and table sizes, any programs  *)
(* and any sbrk arguments: xv6 loses no page and gives none to two, and a  *)
(* process finds in its memory what is its own.  Core says where the pages *)
(* are (Divided, Placed), how much is mapped (Extents) and what the pages  *)
(* hold (Contents).  A step changes one process (StepOne), or one process  *)
(* and the slot that it fills or frees (StepTwo): the lemmas on vm.c say   *)
(* which pages change hands, and one lemma for each action puts them       *)
(* together.                                                               *)
(***************************************************************************)
EXTENDS Vm, WellFoundedInduction, NaturalsInduction, TLAPS

(* Sizes are whole numbers. *)
LEMMA Constants ==
  /\ NSLOT \in Nat \ {0} /\ NFRAME \in Nat /\ NFRAME >= 5 /\ PGSIZE \in Nat \ {0}
  /\ UPAGES \in Nat /\ UPAGES >= 2 /\ PTSPAN \in Nat \ {0}
BY VmAssumption

(* PGROUNDUP counts the pages that begin below a size. *)
LEMMA Division ==
  ASSUME NEW x \in Nat, NEW m \in Nat \ {0}
  PROVE  /\ x \div m \in Nat /\ x % m \in 0..(m - 1)
         /\ x = (x \div m) * m + (x % m)
OBVIOUS

(* Multiplication keeps the order. *)
LEMMA Monotone ==
  ASSUME NEW x \in Int, NEW y \in Int, NEW m \in Nat \ {0}, x <= y
  PROVE  x * m <= y * m
OBVIOUS

(* A page begins below a size exactly when PGROUNDUP counts it. *)
LEMMA RoundUp ==
  ASSUME NEW sz \in Nat
  PROVE  /\ PGROUNDUP(sz) \in Nat
         /\ \A a \in Nat : a * PGSIZE < sz <=> a < PGROUNDUP(sz)
<1> DEFINE x == sz + PGSIZE - 1
           q == x \div PGSIZE
           r == x % PGSIZE
<1>1. x \in Nat /\ PGSIZE \in Nat \ {0}
  BY Constants
<1>2. q \in Nat /\ r \in 0..(PGSIZE - 1) /\ x = q * PGSIZE + r
  BY <1>1, Division
<1>3. PGROUNDUP(sz) = q
  BY DEF PGROUNDUP
<1> HIDE DEF q, r
<1>4. ASSUME NEW a \in Nat, a < q PROVE a * PGSIZE < sz
  <2>1. (a + 1) * PGSIZE <= q * PGSIZE
    BY <1>1, <1>2, <1>4, Monotone
  <2>2. (a + 1) * PGSIZE = a * PGSIZE + PGSIZE /\ a * PGSIZE \in Nat /\ q * PGSIZE \in Nat
    BY <1>1, <1>2
  <2> QED  BY <1>1, <1>2, <2>1, <2>2
<1>5. ASSUME NEW a \in Nat, q <= a PROVE sz <= a * PGSIZE
  <2>1. q * PGSIZE <= a * PGSIZE
    BY <1>1, <1>2, <1>5, Monotone
  <2>2. a * PGSIZE \in Nat /\ q * PGSIZE \in Nat
    BY <1>1, <1>2
  <2> QED  BY <1>1, <1>2, <2>1, <2>2
<1>6. ASSUME NEW a \in Nat PROVE a * PGSIZE < sz <=> a < q
  <2>1. a * PGSIZE \in Nat
    BY <1>1
  <2> QED  BY <1>2, <1>4, <1>5, <2>1
<1> QED  BY <1>2, <1>3, <1>6

(* PGROUNDUP keeps the order. *)
LEMMA RoundUpGrows ==
  ASSUME NEW x \in Nat, NEW y \in Nat, x <= y
  PROVE  PGROUNDUP(x) <= PGROUNDUP(y)
<1>1. PGROUNDUP(x) \in Nat /\ PGROUNDUP(y) \in Nat
  BY RoundUp
<1>2. SUFFICES ASSUME PGROUNDUP(y) < PGROUNDUP(x) PROVE FALSE
  BY <1>1
<1>3. PGROUNDUP(y) * PGSIZE < x /\ ~(PGROUNDUP(y) * PGSIZE < y)
  BY <1>1, <1>2, RoundUp
<1>4. PGROUNDUP(y) * PGSIZE \in Nat
  BY <1>1, Constants
<1> QED  BY <1>3, <1>4

(* PGROUNDUP of whole pages. *)
LEMMA RoundUpPages ==
  ASSUME NEW n \in Nat
  PROVE  PGROUNDUP(n * PGSIZE) = n
<1>1. n * PGSIZE \in Nat /\ PGSIZE \in Nat \ {0}
  BY Constants
<1>2. PGROUNDUP(n * PGSIZE) \in Nat
  BY <1>1, RoundUp
<1>3. ~(n < PGROUNDUP(n * PGSIZE))
  BY <1>1, RoundUp
<1>4. ASSUME PGROUNDUP(n * PGSIZE) < n PROVE FALSE
  <2> DEFINE k == PGROUNDUP(n * PGSIZE)
  <2>1. ~(k * PGSIZE < n * PGSIZE)
    BY <1>1, <1>2, RoundUp
  <2>2. (k + 1) * PGSIZE <= n * PGSIZE
    BY <1>1, <1>2, <1>4, Monotone
  <2>3. (k + 1) * PGSIZE = k * PGSIZE + PGSIZE /\ k * PGSIZE \in Nat
    BY <1>1, <1>2
  <2> QED  BY <2>1, <2>2, <2>3, <1>1
<1> QED  BY <1>2, <1>3, <1>4

(* The pages of user memory begin below KERNBASE. *)
LEMMA Kernbase ==
  /\ KERNBASE \in Nat \ {0}
  /\ \A a \in Nat : a * PGSIZE < KERNBASE <=> a < UPAGES
  /\ PGROUNDUP(0) = 0 /\ PGROUNDUP(KERNBASE) = UPAGES
<1>1. UPAGES \in Nat \ {0} /\ PGSIZE \in Nat \ {0}
  BY Constants
<1>2. KERNBASE \in Nat \ {0}
  BY <1>1 DEF KERNBASE
<1>3. PGROUNDUP(KERNBASE) = UPAGES
  BY <1>1, RoundUpPages DEF KERNBASE
<1>4. PGROUNDUP(0 * PGSIZE) = 0 /\ 0 * PGSIZE = 0
  BY <1>1, RoundUpPages
<1> QED  BY <1>2, <1>3, <1>4, RoundUp

-----------------------------------------------------------------------------
(* kalloc.c *)
LEMMA MinIn ==
  ASSUME NEW S \in SUBSET Nat, S # {}
  PROVE  Min(S) \in S
<1>1. PICK m \in S : \A y \in S : ~(<<y, m>> \in OpToRel(<, Nat))
  BY WFMin, NatLessThanWellFounded
<1>2. ASSUME NEW y \in S PROVE m <= y
  <2>1. m \in Nat /\ y \in Nat /\ ~(<<y, m>> \in OpToRel(<, Nat))
    BY <1>1
  <2> QED  BY <2>1 DEF OpToRel
<1> QED  BY <1>2 DEF Min

(* 0 is no page: it stands for a missing one. *)
LEMMA FramesNat == Frames \in SUBSET Nat /\ 0 \notin Frames
BY DEF Frames

(* kalloc takes a free page and leaves its contents. *)
LEMMA Takes ==
  ASSUME NEW m \in Mem, m.free # {}
  PROVE  /\ Page(m) \in m.free /\ Page(m) \in Frames
         /\ kalloc(m) \in Mem
         /\ kalloc(m).free = m.free \ {Page(m)} /\ kalloc(m).data = m.data
<1>1. m.free \in SUBSET Frames /\ m.data \in [Frames -> Int] /\ m = [free |-> m.free, data |-> m.data]
  BY DEF Mem
<1>2. Page(m) \in m.free
  <2>1. m.free \in SUBSET Nat
    BY <1>1, FramesNat
  <2> QED  BY <2>1, MinIn DEF Page
<1>3. kalloc(m) = [free |-> m.free \ {Page(m)}, data |-> m.data]
  BY <1>1 DEF kalloc
<1> QED  BY <1>1, <1>2, <1>3 DEF Mem

(* memset changes one page. *)
LEMMA Sets ==
  ASSUME NEW m \in Mem, NEW f \in Frames, NEW v \in Int
  PROVE  /\ memset(m, f, v) \in Mem /\ memset(m, f, v).free = m.free
         /\ memset(m, f, v).data = [m.data EXCEPT ![f] = v]
<1>1. m.free \in SUBSET Frames /\ m.data \in [Frames -> Int] /\ m = [free |-> m.free, data |-> m.data]
  BY DEF Mem
<1>2. memset(m, f, v) = [free |-> m.free, data |-> [m.data EXCEPT ![f] = v]]
  BY <1>1 DEF memset
<1> QED  BY <1>1, <1>2 DEF Mem

(* Pages that are freed hold junk, all others what they held. *)
LEMMA Frees ==
  ASSUME NEW m \in Mem, NEW fs \in SUBSET Frames
  PROVE  /\ kfree_all(m, fs) \in Mem /\ kfree_all(m, fs).free = m.free \cup fs
         /\ \A g \in Frames \ fs : kfree_all(m, fs).data[g] = m.data[g]
<1>1. m.free \in SUBSET Frames /\ m.data \in [Frames -> Int]
  BY DEF Mem
<1> QED  BY <1>1 DEF kfree_all, Mem, Junk

(* kfree of one page. *)
LEMMA FreesOne ==
  ASSUME NEW m \in Mem, NEW f \in Frames
  PROVE  /\ kfree(m, f) \in Mem /\ kfree(m, f).free = m.free \cup {f}
         /\ \A g \in Frames \ {f} : kfree(m, f).data[g] = m.data[g]
<1>1. m.free \in SUBSET Frames /\ m.data \in [Frames -> Int]
  BY DEF Mem
<1>2. [m.data EXCEPT ![f] = Junk] \in [Frames -> Int]
  BY <1>1 DEF Junk
<1> QED  BY <1>1, <1>2 DEF kfree, Mem

(* What a directory uses, page by page. *)
LEMMA HoldsIs ==
  ASSUME NEW d
  PROVE  \A f : f \in Holds(d) <=> /\ f # 0
                                   /\ \/ f = d.dir \/ f = d.kpt
                                      \/ \E t \in Tables : f = d.pt[t]
                                      \/ \E a \in UPage : f = d.map[a]
BY DEF Holds

(* What a directory holds are pages. *)
LEMMA HoldsFrames == ASSUME NEW d \in PageDirs PROVE Holds(d) \in SUBSET Frames
<1>1. NFRAME \in Nat /\ Frames = 1..NFRAME
  BY Constants DEF Frames
<1>2. d.dir \in 0..NFRAME /\ d.kpt \in 0..NFRAME /\ d.pt \in [Tables -> 0..NFRAME]
      /\ d.map \in [UPage -> 0..NFRAME]
  BY DEF PageDirs
<1>3. \A x \in 0..NFRAME : x # 0 => x \in Frames
  BY <1>1
<1> QED  BY <1>2, <1>3, HoldsIs

(* A directory with one more table. *)
LEMMA AddTable ==
  ASSUME NEW d \in PageDirs, Once(d), NEW t \in Tables, d.pt[t] = 0, NEW f \in Frames, f \notin Holds(d)
  PROVE  LET e == [d EXCEPT !.pt[t] = f]
         IN  /\ e \in PageDirs /\ Once(e) /\ Holds(e) = Holds(d) \cup {f}
             /\ e.map = d.map /\ e.u = d.u
<1> DEFINE e == [d EXCEPT !.pt[t] = f]
<1>1. /\ d.dir \in 0..NFRAME /\ d.kpt \in 0..NFRAME /\ d.pt \in [Tables -> 0..NFRAME]
      /\ d.map \in [UPage -> 0..NFRAME] /\ d.u \in SUBSET UPage
      /\ d = [dir |-> d.dir, kpt |-> d.kpt, pt |-> d.pt, map |-> d.map, u |-> d.u]
  BY DEF PageDirs
<1>2. f # 0 /\ f \in 0..NFRAME
  BY Constants DEF Frames
<1>3. e = [dir |-> d.dir, kpt |-> d.kpt, pt |-> [d.pt EXCEPT ![t] = f], map |-> d.map, u |-> d.u]
  BY <1>1
<1> HIDE DEF e
<1>4. /\ e.dir = d.dir /\ e.kpt = d.kpt /\ e.map = d.map /\ e.u = d.u
      /\ e.pt = [d.pt EXCEPT ![t] = f] /\ e.pt[t] = f
      /\ \A s \in Tables \ {t} : e.pt[s] = d.pt[s]
  BY <1>1, <1>3
<1>5. e \in PageDirs
  BY <1>1, <1>2, <1>3 DEF PageDirs
<1>6. /\ f # d.dir /\ f # d.kpt /\ \A s \in Tables : f # d.pt[s]
      /\ \A a \in UPage : f # d.map[a]
  BY <1>2, HoldsIs
<1>7. Once(e)
  BY <1>2, <1>4, <1>6 DEF Once
<1>8. ASSUME NEW g, g \in Holds(e) PROVE g \in Holds(d) \cup {f}
  <2>1. g # 0 /\ (\/ g = d.dir \/ g = d.kpt \/ \E s \in Tables : g = e.pt[s]
                  \/ \E a \in UPage : g = d.map[a])
    <3>1. g # 0 /\ (\/ g = e.dir \/ g = e.kpt \/ \E s \in Tables : g = e.pt[s]
                    \/ \E b \in UPage : g = e.map[b])
      BY <1>8, HoldsIs
    <3> QED  BY <3>1, <1>4
  <2>2. ASSUME NEW s \in Tables PROVE e.pt[s] = f \/ e.pt[s] = d.pt[s]
    BY <1>4
  <2> QED  BY <2>1, <2>2, HoldsIs
<1>9. ASSUME NEW g, g \in Holds(d) \/ g = f PROVE g \in Holds(e)
  <2>1. g # 0 /\ (\/ g = f \/ g = d.dir \/ g = d.kpt \/ \E s \in Tables \ {t} : g = d.pt[s]
                  \/ \E a \in UPage : g = d.map[a])
    BY <1>2, <1>9, HoldsIs
  <2>2. \A s \in Tables \ {t} : d.pt[s] = e.pt[s] /\ s \in Tables
    BY <1>4
  <2>3. g = f => \E s \in Tables : g = e.pt[s]
    BY <1>4
  <2>4. (\E s \in Tables \ {t} : g = d.pt[s]) => \E s \in Tables : g = e.pt[s]
    BY <2>2
  <2> QED  BY <2>1, <2>3, <2>4, <1>4, HoldsIs
<1> QED  BY <1>4, <1>5, <1>7, <1>8, <1>9 DEF e

(* A directory with one more user page. *)
LEMMA AddPage ==
  ASSUME NEW d \in PageDirs, Once(d), NEW a \in UPage, d.map[a] = 0, NEW f \in Frames, f \notin Holds(d),
         NEW u \in SUBSET (d.u \cup {a}), NEW e,
         e = [dir |-> d.dir, kpt |-> d.kpt, pt |-> d.pt, map |-> [d.map EXCEPT ![a] = f], u |-> u]
  PROVE  /\ e \in PageDirs /\ Once(e) /\ Holds(e) = Holds(d) \cup {f}
         /\ e.map = [d.map EXCEPT ![a] = f]
<1>1. /\ d.dir \in 0..NFRAME /\ d.kpt \in 0..NFRAME /\ d.pt \in [Tables -> 0..NFRAME]
      /\ d.map \in [UPage -> 0..NFRAME] /\ d.u \in SUBSET UPage
      /\ d = [dir |-> d.dir, kpt |-> d.kpt, pt |-> d.pt, map |-> d.map, u |-> d.u]
  BY DEF PageDirs
<1>2. f # 0 /\ f \in 0..NFRAME
  BY Constants DEF Frames
<1>3. e = [dir |-> d.dir, kpt |-> d.kpt, pt |-> d.pt, map |-> [d.map EXCEPT ![a] = f], u |-> u]
  OBVIOUS
<1>4. /\ e.dir = d.dir /\ e.kpt = d.kpt /\ e.pt = d.pt
      /\ e.map = [d.map EXCEPT ![a] = f] /\ e.map[a] = f
      /\ \A b \in UPage \ {a} : e.map[b] = d.map[b]
  BY <1>1, <1>3
<1>5. e \in PageDirs
  BY <1>1, <1>2, <1>3 DEF PageDirs
<1>6. /\ f # d.dir /\ f # d.kpt /\ \A s \in Tables : f # d.pt[s]
      /\ \A b \in UPage : f # d.map[b]
  BY <1>2, HoldsIs
<1>7. Once(e)
  BY <1>2, <1>4, <1>6 DEF Once
<1>8. ASSUME NEW g, g \in Holds(e) PROVE g \in Holds(d) \cup {f}
  <2>1. g # 0 /\ (\/ g = d.dir \/ g = d.kpt \/ \E s \in Tables : g = d.pt[s]
                  \/ \E b \in UPage : g = e.map[b])
    <3>1. g # 0 /\ (\/ g = e.dir \/ g = e.kpt \/ \E s \in Tables : g = e.pt[s]
                    \/ \E b \in UPage : g = e.map[b])
      BY ONLY <1>8, HoldsIs
    <3>2. e.dir = d.dir /\ e.kpt = d.kpt /\ e.pt = d.pt
      BY <1>4
    <3> QED  BY ONLY <3>1, <3>2
  <2>2. ASSUME NEW b \in UPage PROVE e.map[b] = f \/ e.map[b] = d.map[b]
    BY <1>4
  <2> QED  BY <2>1, <2>2, HoldsIs
<1>9. ASSUME NEW g, g \in Holds(d) \/ g = f PROVE g \in Holds(e)
  <2>1. g # 0 /\ (\/ g = f \/ g = d.dir \/ g = d.kpt \/ \E s \in Tables : g = d.pt[s]
                  \/ \E b \in UPage \ {a} : g = d.map[b])
    BY <1>2, <1>9, HoldsIs
  <2>2. \A b \in UPage \ {a} : d.map[b] = e.map[b] /\ b \in UPage
    BY <1>4
  <2>3. e.dir = d.dir /\ e.kpt = d.kpt /\ e.pt = d.pt /\ e.map[a] = f
    BY <1>4
  <2>4. g # 0 /\ (\/ g = e.dir \/ g = e.kpt \/ \E s \in Tables : g = e.pt[s]
                  \/ \E b \in UPage : g = e.map[b])
    BY ONLY <2>1, <2>2, <2>3, a \in UPage
  <2> QED  BY <2>4, HoldsIs
<1> QED  BY <1>4, <1>5, <1>7, <1>8, <1>9

(* A directory without some of its user pages. *)
LEMMA DropPages ==
  ASSUME NEW d \in PageDirs, Once(d), NEW gone \in SUBSET UPage, \A a \in gone : d.map[a] # 0,
         NEW G, \A g : g \in G <=> \E a \in gone : g = d.map[a],
         NEW e \in PageDirs, e.dir = d.dir, e.kpt = d.kpt, e.pt = d.pt, e.u = d.u \ gone,
         \A a \in gone : e.map[a] = 0, \A a \in UPage \ gone : e.map[a] = d.map[a]
  PROVE  Once(e) /\ Holds(e) = Holds(d) \ G /\ G \subseteq Holds(d)
<1>1. d.map \in [UPage -> 0..NFRAME] /\ d.u \in SUBSET UPage
  BY DEF PageDirs
<1>3. e.dir = d.dir /\ e.kpt = d.kpt /\ e.pt = d.pt
  OBVIOUS
<1>a. /\ \A a \in gone : a \in UPage /\ e.map[a] = 0
      /\ \A a \in UPage \ gone : a \in UPage /\ e.map[a] = d.map[a]
  OBVIOUS
<1>b. \A a \in UPage : e.map[a] = 0 \/ (e.map[a] = d.map[a] /\ a \notin gone)
  BY <1>a
<1>5. Once(e)
  <2>1. \A a \in e.u : e.map[a] # 0
    <3>1. e.u = d.u \ gone
      OBVIOUS
    <3>2. \A a \in d.u \ gone : d.map[a] # 0 /\ a \in UPage \ gone
      BY <1>1 DEF Once
    <3> QED  BY <3>1, <3>2, <1>a
  <2> QED  BY <1>3, <1>b, <2>1 DEF Once
<1>6. ASSUME NEW g, g \in Holds(e) PROVE g \in Holds(d) /\ ~(\E a \in gone : g = d.map[a])
  <2>1. g # 0 /\ (\/ g = d.dir \/ g = d.kpt \/ \E t \in Tables : g = d.pt[t]
                  \/ \E a \in UPage : g = e.map[a])
    <3>1. g # 0 /\ (\/ g = e.dir \/ g = e.kpt \/ \E s \in Tables : g = e.pt[s]
                    \/ \E b \in UPage : g = e.map[b])
      BY ONLY <1>6, HoldsIs
    <3>2. e.dir = d.dir /\ e.kpt = d.kpt /\ e.pt = d.pt
      BY <1>3
    <3> QED  BY ONLY <3>1, <3>2
  <2>2. g # 0 /\ (\/ g = d.dir \/ g = d.kpt \/ \E t \in Tables : g = d.pt[t]
                  \/ \E a \in UPage : a \notin gone /\ g = d.map[a])
    BY <2>1, <1>b
  <2>3. g \in Holds(d)
    BY <2>2, HoldsIs
  <2>4. ASSUME NEW b \in gone, g = d.map[b] PROVE FALSE
    BY <2>2, <2>4 DEF Once
  <2> QED  BY <2>3, <2>4
<1>7. ASSUME NEW g, g \in Holds(d), ~(\E a \in gone : g = d.map[a]) PROVE g \in Holds(e)
  <2>1. g # 0 /\ (\/ g = d.dir \/ g = d.kpt \/ \E t \in Tables : g = d.pt[t]
                  \/ \E a \in UPage : a \notin gone /\ g = d.map[a])
    BY <1>7, HoldsIs
  <2>2. g # 0 /\ (\/ g = e.dir \/ g = e.kpt \/ \E t \in Tables : g = e.pt[t]
                  \/ \E a \in UPage : g = e.map[a])
    BY <2>1, <1>3, <1>a
  <2> QED  BY <2>2, HoldsIs
<1>8. \A a \in gone : d.map[a] \in Holds(d)
  BY HoldsIs
<1> QED  BY ONLY <1>5, <1>6, <1>7, <1>8, \A g : g \in G <=> \E a \in gone : g = d.map[a]

(* The empty directory. *)
LEMMA Empty == /\ NoDir \in PageDirs /\ Once(NoDir) /\ Holds(NoDir) = {}
               /\ \A a \in UPage : NoDir.map[a] = 0
<1>1. 0 \in 0..NFRAME
  BY Constants
<1>2. NoDir \in PageDirs
  BY <1>1 DEF NoDir, PageDirs
<1>3. Once(NoDir)
  BY DEF NoDir, Once
<1> QED  BY <1>2, <1>3 DEF NoDir, Holds

-----------------------------------------------------------------------------
(* vm.c *)
(* From m to n pages went between the free list and a holder that had h    *)
(* and now has k; a page that was and is in use keeps what it holds.       *)
Kept(m, n) == \A g \in Frames : g \notin m.free /\ g \notin n.free => n.data[g] = m.data[g]
Traded(m, h, n, k) ==
  /\ n \in Mem /\ n.free \cup k = m.free \cup h /\ n.free \cap k = {}
  /\ Kept(m, n)

(* Every user page has a place in a table. *)
LEMMA TableOf == ASSUME NEW a \in UPage PROVE a \div PTSPAN \in Tables
<1> DEFINE b == UPAGES - 1
<1>1. a \in Nat /\ b \in Nat /\ a <= b /\ PTSPAN \in Nat \ {0}
  BY Constants DEF UPage
<1> HIDE DEF b
<1> DEFINE q == a \div PTSPAN
           r == b \div PTSPAN
<1>2. /\ q \in Nat /\ r \in Nat
      /\ a % PTSPAN \in 0..(PTSPAN - 1) /\ a = q * PTSPAN + (a % PTSPAN)
      /\ b % PTSPAN \in 0..(PTSPAN - 1) /\ b = r * PTSPAN + (b % PTSPAN)
  BY <1>1, Division
<1>3. ASSUME r < q PROVE FALSE
  <2> HIDE DEF q, r
  <2>1. (r + 1) * PTSPAN <= q * PTSPAN
    BY <1>1, <1>2, <1>3, Monotone
  <2>2. (r + 1) * PTSPAN = r * PTSPAN + PTSPAN /\ r * PTSPAN \in Nat /\ q * PTSPAN \in Nat
    BY <1>1, <1>2
  <2> QED  BY <1>1, <1>2, <2>1, <2>2
<1>4. q \in 0..r
  <2> HIDE DEF q, r
  <2> QED  BY <1>2, <1>3
<1> QED  BY <1>4 DEF Tables, b

(* walkpgdir adds at most one table. *)
LEMMA Walks ==
  ASSUME NEW m \in Mem, NEW d \in PageDirs, Once(d), Holds(d) \cap m.free = {}, NEW a \in UPage,
         NEW w, w = walkpgdir(m, d, a)
  PROVE  /\ w = [m |-> w.m, d |-> w.d, ok |-> w.ok] /\ w.ok \in BOOLEAN
         /\ ~w.ok => w.m = m /\ w.d = d
         /\ w.m \in Mem /\ w.d \in PageDirs /\ Once(w.d) /\ w.d.map = d.map /\ w.d.u = d.u
         /\ w.m.free \subseteq m.free
         /\ Traded(m, Holds(d), w.m, Holds(w.d))
<1> DEFINE t == a \div PTSPAN
<1>1. t \in Tables
  BY TableOf
<1> HIDE DEF t
<1>2. CASE d.pt[t] # 0
  <2>1. w = [m |-> m, d |-> d, ok |-> TRUE]
    BY <1>2 DEF walkpgdir, t
  <2> QED  BY <2>1 DEF Traded, Kept
<1>3. CASE d.pt[t] = 0 /\ m.free = {}
  <2>1. w = [m |-> m, d |-> d, ok |-> FALSE]
    BY <1>3 DEF walkpgdir, t
  <2> QED  BY <2>1 DEF Traded, Kept
<1>4. CASE d.pt[t] = 0 /\ m.free # {}
  <2> DEFINE f == Page(m)
             n == memset(kalloc(m), f, Zero)
             e == [d EXCEPT !.pt[t] = f]
  <2>1. w = [m |-> n, d |-> e, ok |-> TRUE]
    BY <1>4 DEF walkpgdir, t
  <2>2. /\ f \in m.free /\ f \in Frames /\ kalloc(m) \in Mem
        /\ kalloc(m).free = m.free \ {f} /\ kalloc(m).data = m.data
    BY <1>4, Takes
  <2>3. n \in Mem /\ n.free = m.free \ {f} /\ n.data = [m.data EXCEPT ![f] = Zero]
    BY <2>2, Sets DEF Zero
  <2>4. f \notin Holds(d)
    BY <2>2
  <2>5. e \in PageDirs /\ Once(e) /\ Holds(e) = Holds(d) \cup {f} /\ e.map = d.map /\ e.u = d.u
    BY <1>1, <1>4, <2>2, <2>4, AddTable
  <2>6. w.m = n /\ w.d = e /\ w.ok = TRUE
    BY <2>1
  <2> HIDE DEF f, n, e
  <2>7. Kept(m, n)
    <3>1. m.data \in [Frames -> Int]
      BY DEF Mem
    <3> QED  BY <2>2, <2>3, <3>1 DEF Kept
  <2>8. Traded(m, Holds(d), n, Holds(e))
    BY <2>2, <2>3, <2>4, <2>5, <2>7 DEF Traded
  <2> QED  BY <2>1, <2>3, <2>5, <2>6, <2>8
<1> QED  BY <1>2, <1>3, <1>4

(* kalloc, then mappages of the new page, filled with v, at a. *)
LEMMA MapsNew ==
  ASSUME NEW m \in Mem, m.free # {}, NEW d \in PageDirs, Once(d), Holds(d) \cap m.free = {},
         NEW a \in UPage, d.map[a] = 0, NEW v \in Int, NEW u \in BOOLEAN,
         NEW w, w = mappages(memset(kalloc(m), Page(m), v), d, a, Page(m), u)
  PROVE  /\ w.ok \in BOOLEAN
         /\ ~w.ok => w.m = memset(kalloc(m), Page(m), v) /\ w.d = d
         /\ w.ok => /\ w.m \in Mem /\ w.d \in PageDirs /\ Once(w.d) /\ w.m.data[Page(m)] = v
                    /\ Page(m) # 0 /\ Page(m) \in Frames
                    /\ w.d.map = [d.map EXCEPT ![a] = Page(m)]
                    /\ Traded(m, Holds(d), w.m, Holds(w.d))
<1> DEFINE f == Page(m)
           n == memset(kalloc(m), f, v)
           x == walkpgdir(n, d, a)
<1>1. /\ f \in m.free /\ f \in Frames /\ kalloc(m) \in Mem
      /\ kalloc(m).free = m.free \ {f} /\ kalloc(m).data = m.data
  BY Takes
<1>2. n \in Mem /\ n.free = m.free \ {f} /\ n.data = [m.data EXCEPT ![f] = v]
  BY <1>1, Sets
<1>3. w = IF ~x.ok THEN x ELSE [x EXCEPT !.d.map[a] = f, !.d.u = IF u THEN @ \cup {a} ELSE @]
  BY DEF mappages
<1> HIDE DEF n, f, x
<1>4. Holds(d) \cap n.free = {}
  BY <1>2
<1>5. /\ x = [m |-> x.m, d |-> x.d, ok |-> x.ok] /\ x.ok \in BOOLEAN
      /\ ~x.ok => x.m = n /\ x.d = d
      /\ x.m \in Mem /\ x.d \in PageDirs /\ Once(x.d) /\ x.d.map = d.map /\ x.d.u = d.u
      /\ x.m.free \subseteq n.free
      /\ Traded(n, Holds(d), x.m, Holds(x.d))
  <2>1. x = walkpgdir(n, d, a)
    BY DEF x
  <2> QED  BY <1>2, <1>4, <2>1, Walks
<1>6. CASE ~x.ok
  <2>1. w = x
    BY <1>3, <1>6
  <2> QED  BY <2>1, <1>5, <1>6 DEF n, f
<1>7. CASE x.ok
  <2> DEFINE u2 == IF u THEN x.d.u \cup {a} ELSE x.d.u
             e == [dir |-> x.d.dir, kpt |-> x.d.kpt, pt |-> x.d.pt, map |-> [x.d.map EXCEPT ![a] = f], u |-> u2]
  <2>1. w = [m |-> x.m, d |-> e, ok |-> x.ok]
    <3> DEFINE y == x.d
               z == [y EXCEPT !.map[a] = f, !.u = IF u THEN @ \cup {a} ELSE @]
    <3>1. w = [x EXCEPT !.d = z]
      BY <1>3, <1>7
    <3>2. y = [dir |-> y.dir, kpt |-> y.kpt, pt |-> y.pt, map |-> y.map, u |-> y.u]
      BY <1>5 DEF PageDirs
    <3>3. e = [dir |-> y.dir, kpt |-> y.kpt, pt |-> y.pt, map |-> [y.map EXCEPT ![a] = f],
               u |-> IF u THEN y.u \cup {a} ELSE y.u]
      OBVIOUS
    <3> HIDE DEF y
    <3>4. z = [dir |-> y.dir, kpt |-> y.kpt, pt |-> y.pt, map |-> [y.map EXCEPT ![a] = f],
               u |-> IF u THEN y.u \cup {a} ELSE y.u]
      <4>1. CASE u
        <5>1. z = [y EXCEPT !.map[a] = f, !.u = y.u \cup {a}]
          BY <4>1, <3>2
        <5> HIDE DEF z
        <5> QED  BY <4>1, <3>2, <5>1
      <4>2. CASE ~u
        <5>1. z = [y EXCEPT !.map[a] = f, !.u = y.u]
          BY <4>2, <3>2
        <5> HIDE DEF z
        <5> QED  BY <4>2, <3>2, <5>1
      <4> QED  BY <4>1, <4>2
    <3> HIDE DEF z, e
    <3> QED  BY <3>1, <3>3, <3>4, <1>5
  <2>2. w.m = x.m /\ w.d = e /\ w.ok = TRUE
    BY <2>1, <1>5, <1>7
  <2>3. f \notin Holds(x.d)
    BY <1>1, <1>2, <1>5 DEF Traded
  <2>4. u2 \in SUBSET (x.d.u \cup {a})
    OBVIOUS
  <2>5. e = [dir |-> x.d.dir, kpt |-> x.d.kpt, pt |-> x.d.pt, map |-> [x.d.map EXCEPT ![a] = f], u |-> u2]
    OBVIOUS
  <2> HIDE DEF e, u2
  <2>6. x.d.map[a] = 0
    BY <1>5
  <2>7. e \in PageDirs /\ Once(e) /\ Holds(e) = Holds(x.d) \cup {f} /\ e.map = [x.d.map EXCEPT ![a] = f]
    <3>1. x.d \in PageDirs /\ Once(x.d) /\ f \in Frames
      BY <1>1, <1>5
    <3> QED  BY ONLY <3>1, <2>3, <2>4, <2>5, <2>6, a \in UPage, AddPage
  <2>8. f # 0
    BY <1>1, FramesNat
  <2>9. m.data \in [Frames -> Int] /\ x.m.data \in [Frames -> Int]
    BY <1>5 DEF Mem
  <2>10. f \notin x.m.free /\ x.m.data[f] = v
    BY <1>1, <1>2, <1>5, <2>9 DEF Traded, Kept
  <2>11. Kept(m, x.m)
    BY <1>1, <1>2, <1>5, <2>9 DEF Traded, Kept
  <2>12. Traded(m, Holds(d), x.m, Holds(e))
    BY <1>1, <1>2, <1>5, <2>7, <2>10, <2>11 DEF Traded
  <2> QED  BY <1>1, <1>5, <2>2, <2>7, <2>8, <2>10, <2>12 DEF f
<1> QED  BY <1>5, <1>6, <1>7

(* From d to e the pages from lo up to hi are gone. *)
Cut(d, e, lo, hi) ==
  \A a \in UPage : e.map[a] = IF lo < hi /\ a >= PGROUNDUP(lo) /\ a * PGSIZE < hi THEN 0 ELSE d.map[a]

(* deallocuvm takes out the pages between the sizes and frees them. *)
LEMMA Drops ==
  ASSUME NEW m \in Mem, NEW d \in PageDirs, Once(d), Holds(d) \cap m.free = {},
         NEW oldsz \in Nat, NEW newsz \in Nat, NEW r, r = deallocuvm(m, d, oldsz, newsz)
  PROVE  /\ r.m \in Mem /\ r.d \in PageDirs /\ Once(r.d) /\ m.free \subseteq r.m.free
         /\ Traded(m, Holds(d), r.m, Holds(r.d))
         /\ Cut(d, r.d, newsz, oldsz)
         /\ r.d.dir = d.dir /\ r.d.kpt = d.kpt /\ r.d.pt = d.pt
<1>1. CASE newsz >= oldsz
  <2>1. r = [m |-> m, d |-> d]
    BY <1>1 DEF deallocuvm
  <2>2. r.m = m /\ r.d = d
    BY <2>1
  <2>3. Traded(m, Holds(d), m, Holds(d))
    BY DEF Traded, Kept
  <2>4. ~(newsz < oldsz)
    BY <1>1
  <2> QED  BY <2>2, <2>3, <2>4 DEF Cut
<1>2. CASE newsz < oldsz
  <2> DEFINE gone == {a \in UPage : a >= PGROUNDUP(newsz) /\ a * PGSIZE < oldsz /\ d.map[a] # 0}
             G == {d.map[a] : a \in gone}
             n == kfree_all(m, G)
             e == [d EXCEPT !.map = [a \in UPage |-> IF a \in gone THEN 0 ELSE @[a]], !.u = @ \ gone]
  <2>1. r = [m |-> n, d |-> e]
    BY <1>2 DEF deallocuvm
  <2>2. r.m = n /\ r.d = e
    BY <2>1
  <2>3. gone \in SUBSET UPage /\ \A a \in gone : d.map[a] # 0
    OBVIOUS
  <2>4. \A a \in UPage \ gone : newsz < oldsz /\ a >= PGROUNDUP(newsz) /\ a * PGSIZE < oldsz => d.map[a] = 0
    OBVIOUS
  <2>5. \A a \in gone : a >= PGROUNDUP(newsz) /\ a * PGSIZE < oldsz
    OBVIOUS
  <2> HIDE DEF gone
  <2> DEFINE mp == [a \in UPage |-> IF a \in gone THEN 0 ELSE d.map[a]]
  <2>a. \A g : g \in G <=> \E a \in gone : g = d.map[a]
    OBVIOUS
  <2>b. e = [dir |-> d.dir, kpt |-> d.kpt, pt |-> d.pt, map |-> mp, u |-> d.u \ gone]
    <3>1. d = [dir |-> d.dir, kpt |-> d.kpt, pt |-> d.pt, map |-> d.map, u |-> d.u]
      BY DEF PageDirs
    <3>2. e = [d EXCEPT !.map = mp, !.u = d.u \ gone]
      OBVIOUS
    <3> HIDE DEF e, mp
    <3> QED  BY <3>1, <3>2
  <2>c. mp \in [UPage -> 0..NFRAME] /\ \A a \in UPage : mp[a] = IF a \in gone THEN 0 ELSE d.map[a]
    <3>1. d.map \in [UPage -> 0..NFRAME] /\ 0 \in 0..NFRAME
      BY Constants DEF PageDirs
    <3> QED  BY <3>1
  <2> HIDE DEF e, G, mp
  <2>d. e \in PageDirs
    <3>1. d.dir \in 0..NFRAME /\ d.kpt \in 0..NFRAME /\ d.pt \in [Tables -> 0..NFRAME] /\ d.u \in SUBSET UPage
      BY DEF PageDirs
    <3> QED  BY <3>1, <2>b, <2>c DEF PageDirs
  <2>e. /\ e.dir = d.dir /\ e.kpt = d.kpt /\ e.pt = d.pt /\ e.u = d.u \ gone
        /\ \A a \in UPage : e.map[a] = IF a \in gone THEN 0 ELSE d.map[a]
    BY <2>b, <2>c
  <2>f. (\A a \in gone : e.map[a] = 0) /\ \A a \in UPage \ gone : e.map[a] = d.map[a]
    BY <2>3, <2>e
  <2>6. Once(e) /\ Holds(e) = Holds(d) \ G /\ G \subseteq Holds(d)
    BY ONLY d \in PageDirs, Once(d), <2>3, <2>a, <2>d, <2>e, <2>f, DropPages
  <2>7. G \in SUBSET Frames
    BY <2>6, HoldsFrames
  <2>8. n \in Mem /\ n.free = m.free \cup G /\ \A g \in Frames \ G : n.data[g] = m.data[g]
    BY <2>7, Frees
  <2> HIDE DEF n
  <2>9. Traded(m, Holds(d), n, Holds(e))
    BY <2>6, <2>8 DEF Traded, Kept
  <2>10. ASSUME NEW a \in UPage
         PROVE  e.map[a] = IF newsz < oldsz /\ a >= PGROUNDUP(newsz) /\ a * PGSIZE < oldsz THEN 0 ELSE d.map[a]
    <3>1. e.map[a] = IF a \in gone THEN 0 ELSE d.map[a]
      BY <2>e
    <3>2. CASE a \in gone
      BY ONLY <3>1, <3>2, <2>5, <1>2
    <3>3. CASE a \notin gone
      BY ONLY <3>1, <3>3, <2>4, <1>2, a \in UPage
    <3> QED  BY <3>2, <3>3
  <2> QED  BY <2>2, <2>6, <2>8, <2>9, <2>10, <2>d, <2>e DEF Cut
<1> QED  BY <1>1, <1>2

(* freevm gives back all of a directory. *)
LEMMA FreesAll ==
  ASSUME NEW m \in Mem, NEW d \in PageDirs, Once(d), Holds(d) \cap m.free = {}
  PROVE  /\ freevm(m, d) \in Mem /\ freevm(m, d).free = m.free \cup Holds(d)
         /\ Kept(m, freevm(m, d))
<1> DEFINE r == deallocuvm(m, d, KERNBASE, 0)
           K == ({d.dir, d.kpt} \cup {d.pt[t] : t \in Tables}) \ {0}
           n == kfree_all(r.m, K)
<1>1. freevm(m, d) = n
  BY DEF freevm
<1>2. KERNBASE \in Nat /\ 0 \in Nat /\ 0 < KERNBASE
  BY Kernbase
<1>3. /\ r.m \in Mem /\ r.d \in PageDirs /\ Once(r.d) /\ m.free \subseteq r.m.free
      /\ Traded(m, Holds(d), r.m, Holds(r.d))
      /\ Cut(d, r.d, 0, KERNBASE)
      /\ r.d.dir = d.dir /\ r.d.kpt = d.kpt /\ r.d.pt = d.pt
  BY <1>2, Drops
<1> HIDE DEF r
<1>4. \A a \in UPage : r.d.map[a] = 0
  <2>1. ASSUME NEW a \in UPage PROVE 0 < KERNBASE /\ a >= PGROUNDUP(0) /\ a * PGSIZE < KERNBASE
    <3>1. a \in Nat /\ a < UPAGES /\ PGROUNDUP(0) = 0
      BY Kernbase, Constants DEF UPage
    <3> QED  BY <3>1, <1>2, Kernbase
  <2> QED  BY <1>3, <2>1 DEF Cut
<1>5. Holds(r.d) = K
  <2>1. \A g : g \in K <=> g # 0 /\ (g = d.dir \/ g = d.kpt \/ \E t \in Tables : g = d.pt[t])
    OBVIOUS
  <2> HIDE DEF K
  <2>2. ASSUME NEW g PROVE g \in Holds(r.d) <=> g \in K
    BY <1>3, <1>4, <2>1, HoldsIs
  <2> QED  BY <2>2
<1> HIDE DEF K
<1>6. K \in SUBSET Frames
  BY <1>3, <1>5, HoldsFrames
<1>7. n \in Mem /\ n.free = r.m.free \cup K /\ \A g \in Frames \ K : n.data[g] = r.m.data[g]
  BY <1>3, <1>6, Frees
<1> HIDE DEF n
<1>8. n.free = m.free \cup Holds(d) /\ Kept(m, n)
  BY <1>3, <1>5, <1>7 DEF Traded, Kept
<1> QED  BY <1>1, <1>7, <1>8

(* A new directory holds pages of its own and maps nothing. *)
LEMMA SetsUp ==
  ASSUME NEW m \in Mem, NEW k, k = setupkvm(m)
  PROVE  /\ k.ok \in BOOLEAN /\ k.m \in Mem /\ Kept(m, k.m)
         /\ ~k.ok => k.m.free = m.free
         /\ k.ok => /\ k.d \in PageDirs /\ Once(k.d) /\ (\A a \in UPage : k.d.map[a] = 0)
                    /\ Traded(m, {}, k.m, Holds(k.d))
<1> DEFINE f == Page(m)
           d == [NoDir EXCEPT !.dir = f]
           n == kalloc(m)
           g == Page(n)
           e == [d EXCEPT !.kpt = g]
<1>1. CASE m.free = {}
  <2>1. k = [m |-> m, d |-> NoDir, ok |-> FALSE]
    BY <1>1 DEF setupkvm
  <2> QED  BY <2>1 DEF Kept
<1>2. CASE m.free # {}
  <2>1. f \in m.free /\ f \in Frames /\ n \in Mem /\ n.free = m.free \ {f} /\ n.data = m.data
    BY <1>2, Takes
  <2>2. f # 0 /\ f \in 0..NFRAME /\ 0 \in 0..NFRAME
    BY <2>1, Constants DEF Frames
  <2>3. NoDir \in PageDirs /\ Once(NoDir) /\ Holds(NoDir) = {} /\ \A a \in UPage : NoDir.map[a] = 0
    BY Empty
  <2>4. /\ NoDir = [dir |-> 0, kpt |-> 0, pt |-> NoDir.pt, map |-> NoDir.map, u |-> {}]
        /\ \A t \in Tables : NoDir.pt[t] = 0
    BY DEF NoDir
  <2>5. d = [dir |-> f, kpt |-> 0, pt |-> NoDir.pt, map |-> NoDir.map, u |-> {}]
    <3> HIDE DEF f
    <3> QED  BY <2>4
  <2>6. NoDir.pt \in [Tables -> 0..NFRAME] /\ NoDir.map \in [UPage -> 0..NFRAME]
    BY <2>3 DEF PageDirs
  <2>7. CASE n.free = {}
    <3>1. k = [m |-> freevm(n, d), d |-> NoDir, ok |-> FALSE]
      BY <1>2, <2>7 DEF setupkvm
    <3> HIDE DEF f, d, n
    <3>2. d \in PageDirs /\ Once(d)
      BY <2>2, <2>3, <2>4, <2>5, <2>6 DEF PageDirs, Once
    <3>3. Holds(d) = {f}
      <4>1. \A h : h \in Holds(d) <=> h = f
        BY <2>2, <2>3, <2>4, <2>5, HoldsIs
      <4> QED  BY <4>1
    <3>4. Holds(d) \cap n.free = {}
      BY <2>7
    <3>5. /\ freevm(n, d) \in Mem /\ freevm(n, d).free = n.free \cup Holds(d)
          /\ Kept(n, freevm(n, d))
      BY <2>1, <3>2, <3>4, FreesAll
    <3>6. k.m = freevm(n, d) /\ k.ok = FALSE
      BY <3>1
    <3>7. Kept(m, k.m)
      BY <2>1, <3>3, <3>5, <3>6 DEF Kept
    <3> QED  BY <2>1, <3>3, <3>5, <3>6, <3>7
  <2>8. CASE n.free # {}
    <3>1. k = [m |-> kalloc(n), d |-> e, ok |-> TRUE]
      BY <1>2, <2>8 DEF setupkvm
    <3>2. /\ g \in n.free /\ g \in Frames /\ kalloc(n) \in Mem
          /\ kalloc(n).free = n.free \ {g} /\ kalloc(n).data = n.data
      BY <2>1, <2>8, Takes
    <3>3. g # 0 /\ g \in 0..NFRAME /\ g # f
      BY <2>1, <3>2, Constants DEF Frames
    <3>4. e = [dir |-> f, kpt |-> g, pt |-> NoDir.pt, map |-> NoDir.map, u |-> {}]
      <4> HIDE DEF f, d, g
      <4> QED  BY <2>5
    <3> HIDE DEF f, d, n, g, e
    <3>5. e \in PageDirs /\ Once(e)
      BY <2>2, <2>3, <2>4, <2>6, <3>3, <3>4 DEF PageDirs, Once
    <3>6. Holds(e) = {f, g}
      <4>1. \A h : h \in Holds(e) <=> h \in {f, g}
        BY <2>2, <2>3, <2>4, <3>3, <3>4, HoldsIs
      <4> QED  BY <4>1
    <3>7. k.m = kalloc(n) /\ k.d = e /\ k.ok = TRUE
      BY <3>1
    <3>8. Kept(m, k.m)
      BY <2>1, <3>2, <3>7 DEF Kept
    <3>9. Traded(m, {}, k.m, Holds(k.d))
      BY <2>1, <3>2, <3>6, <3>7, <3>8 DEF Traded
    <3>10. \A a \in UPage : e.map[a] = 0
      BY <2>3, <3>4
    <3> QED  BY <3>2, <3>5, <3>7, <3>8, <3>9, <3>10
  <2> QED  BY <2>7, <2>8
<1> QED  BY <1>1, <1>2

(* From d to e a page is added at a. *)
Added(d, e, a) == e.map[a] \in Frames /\ \A b \in UPage \ {a} : e.map[b] = d.map[b]

(* A turn of allocuvm adds a page of zeros, or undoes all turns. *)
LEMMA Grows ==
  ASSUME NEW m \in Mem, NEW d \in PageDirs, Once(d), Holds(d) \cap m.free = {},
         NEW a \in UPage, d.map[a] = 0, NEW oldsz \in Nat, NEW newsz \in Nat,
         NEW w, w = allocuvm(m, d, a, oldsz, newsz)
  PROVE  /\ w.ok \in BOOLEAN /\ w.m \in Mem /\ w.d \in PageDirs /\ Once(w.d)
         /\ Traded(m, Holds(d), w.m, Holds(w.d))
         /\ w.ok => Added(d, w.d, a) /\ w.m.data[w.d.map[a]] = Zero
         /\ ~w.ok => Cut(d, w.d, oldsz, newsz)
<1> DEFINE f == Page(m)
           n == memset(kalloc(m), f, Zero)
           x == mappages(n, d, a, f, TRUE)
           undo == deallocuvm(m, d, newsz, oldsz)
           undone == deallocuvm(x.m, x.d, newsz, oldsz)
<1>1. CASE m.free = {}
  <2>1. w = [m |-> undo.m, d |-> undo.d, ok |-> FALSE]
    BY <1>1 DEF allocuvm
  <2>2. w.m = undo.m /\ w.d = undo.d /\ w.ok = FALSE
    BY <2>1
  <2>3. undo = deallocuvm(m, d, newsz, oldsz)
    OBVIOUS
  <2> HIDE DEF undo
  <2>4. /\ undo.m \in Mem /\ undo.d \in PageDirs /\ Once(undo.d) /\ m.free \subseteq undo.m.free
        /\ Traded(m, Holds(d), undo.m, Holds(undo.d))
        /\ Cut(d, undo.d, oldsz, newsz)
    BY <2>3, Drops
  <2> QED  BY <2>2, <2>4
<1>2. CASE m.free # {}
  <2>1. /\ f \in m.free /\ f \in Frames /\ kalloc(m) \in Mem
        /\ kalloc(m).free = m.free \ {f} /\ kalloc(m).data = m.data
    BY <1>2, Takes
  <2>2. Zero \in Int
    BY DEF Zero
  <2>3. n \in Mem /\ n.free = m.free \ {f} /\ n.data = [m.data EXCEPT ![f] = Zero]
    BY <2>1, <2>2, Sets
  <2>4. /\ x.ok \in BOOLEAN
        /\ ~x.ok => x.m = n /\ x.d = d
        /\ x.ok => /\ x.m \in Mem /\ x.d \in PageDirs /\ Once(x.d) /\ x.m.data[f] = Zero
                   /\ x.d.map = [d.map EXCEPT ![a] = f]
                   /\ Traded(m, Holds(d), x.m, Holds(x.d))
    <3> DEFINE u == TRUE
    <3>1. x = mappages(memset(kalloc(m), Page(m), Zero), d, a, Page(m), u) /\ u \in BOOLEAN
      OBVIOUS
    <3> HIDE DEF x, u
    <3> QED  BY <1>2, <2>2, <3>1, MapsNew
  <2>5. CASE ~x.ok
    <3>1. w = [m |-> kfree(undone.m, f), d |-> undone.d, ok |-> FALSE]
      BY <1>2, <2>5 DEF allocuvm
    <3>2. undone = deallocuvm(n, d, newsz, oldsz)
      BY <2>4, <2>5
    <3> HIDE DEF undone, n, f, x
    <3>3. Holds(d) \cap n.free = {}
      BY <2>3
    <3>4. /\ undone.m \in Mem /\ undone.d \in PageDirs /\ Once(undone.d) /\ n.free \subseteq undone.m.free
          /\ Traded(n, Holds(d), undone.m, Holds(undone.d))
          /\ Cut(d, undone.d, oldsz, newsz)
      BY <2>3, <3>2, <3>3, Drops
    <3> DEFINE o == kfree(undone.m, f)
    <3>5. o \in Mem /\ o.free = undone.m.free \cup {f} /\ \A g \in Frames \ {f} : o.data[g] = undone.m.data[g]
      BY <2>1, <3>4, FreesOne
    <3>6. w.m = o /\ w.d = undone.d /\ w.ok = FALSE
      BY <3>1
    <3> HIDE DEF o
    <3>7. m.data \in [Frames -> Int]
      BY DEF Mem
    <3>8. Kept(m, o)
      BY <2>1, <2>3, <3>4, <3>5, <3>7 DEF Kept, Traded
    <3>9. Traded(m, Holds(d), o, Holds(undone.d))
      BY <2>1, <2>3, <3>4, <3>5, <3>8 DEF Traded
    <3> QED  BY <3>4, <3>5, <3>6, <3>9
  <2>6. CASE x.ok
    <3>1. w = x
      BY <1>2, <2>6 DEF allocuvm
    <3> HIDE DEF x, f, n
    <3>2. x.d.map = [d.map EXCEPT ![a] = f]
      BY <2>4, <2>6
    <3>3. Added(d, x.d, a) /\ x.d.map[a] = f
      <4>1. d.map \in [UPage -> 0..NFRAME]
        BY DEF PageDirs
      <4> QED  BY <2>1, <3>2, <4>1 DEF Added
    <3> QED  BY <2>4, <2>6, <3>1, <3>3
  <2> QED  BY <2>4, <2>5, <2>6
<1> QED  BY <1>1, <1>2

(* A turn of copyuvm adds a copy, or gives back all that the child had. *)
LEMMA Copies ==
  ASSUME NEW m \in Mem, NEW d \in PageDirs, NEW new \in PageDirs, Once(new), Holds(new) \cap m.free = {},
         NEW a \in UPage, new.map[a] = 0, d.map[a] # 0,
         NEW w, w = copyuvm(m, d, new, a)
  PROVE  /\ w.ok \in BOOLEAN /\ w.m \in Mem
         /\ w.ok => /\ w.d \in PageDirs /\ Once(w.d) /\ Traded(m, Holds(new), w.m, Holds(w.d))
                    /\ Added(new, w.d, a) /\ w.m.data[w.d.map[a]] = m.data[d.map[a]]
         /\ ~w.ok => w.m.free = m.free \cup Holds(new) /\ Kept(m, w.m)
<1> DEFINE f == Page(m)
           v == m.data[d.map[a]]
           n == memset(kalloc(m), f, v)
           x == mappages(n, new, a, f, a \in d.u)
<1>1. CASE m.free = {}
  <2>1. w = [m |-> freevm(m, new), d |-> NoDir, ok |-> FALSE]
    BY <1>1 DEF copyuvm
  <2>2. /\ freevm(m, new) \in Mem /\ freevm(m, new).free = m.free \cup Holds(new)
        /\ Kept(m, freevm(m, new))
    BY FreesAll
  <2>3. w.m = freevm(m, new) /\ w.ok = FALSE
    BY <2>1
  <2> QED  BY <2>2, <2>3
<1>2. CASE m.free # {}
  <2>1. /\ f \in m.free /\ f \in Frames /\ kalloc(m) \in Mem
        /\ kalloc(m).free = m.free \ {f} /\ kalloc(m).data = m.data
    BY <1>2, Takes
  <2>2. v \in Int
    <3>1. d.map[a] \in Frames
      BY Constants DEF PageDirs, Frames
    <3> QED  BY <3>1 DEF Mem
  <2> HIDE DEF v
  <2>3. n \in Mem /\ n.free = m.free \ {f} /\ n.data = [m.data EXCEPT ![f] = v]
    BY <2>1, <2>2, Sets
  <2> DEFINE u == a \in d.u
  <2>4. /\ x.ok \in BOOLEAN
        /\ ~x.ok => x.m = n /\ x.d = new
        /\ x.ok => /\ x.m \in Mem /\ x.d \in PageDirs /\ Once(x.d) /\ x.m.data[f] = v
                   /\ x.d.map = [new.map EXCEPT ![a] = f]
                   /\ Traded(m, Holds(new), x.m, Holds(x.d))
    <3>1. x = mappages(memset(kalloc(m), Page(m), v), new, a, Page(m), u) /\ u \in BOOLEAN
      OBVIOUS
    <3> HIDE DEF x, u
    <3> QED  BY <1>2, <2>2, <3>1, MapsNew
  <2>5. CASE ~x.ok
    <3>1. w = [m |-> freevm(kfree(x.m, f), x.d), d |-> NoDir, ok |-> FALSE]
      BY <1>2, <2>5 DEF copyuvm, v
    <3>2. x.m = n /\ x.d = new
      BY <2>4, <2>5
    <3> HIDE DEF n, f, x
    <3> DEFINE o == kfree(n, f)
    <3>3. o \in Mem /\ o.free = n.free \cup {f} /\ \A g \in Frames \ {f} : o.data[g] = n.data[g]
      BY <2>1, <2>3, FreesOne
    <3>4. w.m = freevm(o, new) /\ w.ok = FALSE
      BY <3>1, <3>2
    <3> HIDE DEF o
    <3>5. o.free = m.free
      BY <2>1, <2>3, <3>3
    <3>6. /\ freevm(o, new) \in Mem /\ freevm(o, new).free = o.free \cup Holds(new)
          /\ Kept(o, freevm(o, new))
      BY <3>3, <3>5, FreesAll
    <3>7. m.data \in [Frames -> Int]
      BY DEF Mem
    <3>8. Kept(m, freevm(o, new))
      BY <2>1, <2>3, <3>3, <3>5, <3>6, <3>7 DEF Kept
    <3> QED  BY <3>4, <3>5, <3>6, <3>8
  <2>6. CASE x.ok
    <3>1. w = x
      BY <1>2, <2>6 DEF copyuvm, v
    <3> HIDE DEF x, f, n
    <3>2. x.d.map = [new.map EXCEPT ![a] = f]
      BY <2>4, <2>6
    <3>3. Added(new, x.d, a) /\ x.d.map[a] = f
      <4>1. new.map \in [UPage -> 0..NFRAME]
        BY DEF PageDirs
      <4> QED  BY <2>1, <3>2, <4>1 DEF Added
    <3> QED  BY <2>4, <2>6, <3>1, <3>3 DEF v
  <2> QED  BY <2>4, <2>5, <2>6
<1> QED  BY <1>1, <1>2

-----------------------------------------------------------------------------
(* Every page is in one place: the free list or one of the holders D. *)
Parts(D, O, free) ==
  /\ free \cup UNION {O[x] : x \in D} = Frames
  /\ \A x, y \in D : x # y => O[x] \cap O[y] = {}
  /\ \A x \in D : O[x] \cap free = {}

(* Pages that pass between the free list and two holders stay in one place. *)
LEMMA Exchange ==
  ASSUME NEW D, NEW O, NEW Q, NEW f, NEW g, NEW x \in D, NEW y \in D, x # y, Parts(D, O, f),
         \A z \in D \ {x, y} : Q[z] = O[z],
         g \cup Q[x] \cup Q[y] = f \cup O[x] \cup O[y],
         Q[x] \cap Q[y] = {}, Q[x] \cap g = {}, Q[y] \cap g = {}
  PROVE  Parts(D, Q, g)
<1>1. g \cup UNION {Q[z] : z \in D} = Frames
  <2>1. \A h : h \in Frames <=> h \in f \/ \E z \in D : h \in O[z]
    BY DEF Parts
  <2>2. ASSUME NEW h PROVE h \in g \cup UNION {Q[z] : z \in D} <=> h \in Frames
    <3>1. h \in g \cup UNION {Q[z] : z \in D} <=> h \in g \/ \E z \in D : h \in Q[z]
      OBVIOUS
    <3>2. (\E z \in D : h \in Q[z]) <=> h \in Q[x] \/ h \in Q[y] \/ \E z \in D \ {x, y} : h \in O[z]
      OBVIOUS
    <3>3. (\E z \in D : h \in O[z]) <=> h \in O[x] \/ h \in O[y] \/ \E z \in D \ {x, y} : h \in O[z]
      OBVIOUS
    <3>4. h \in g \/ h \in Q[x] \/ h \in Q[y] <=> h \in f \/ h \in O[x] \/ h \in O[y]
      OBVIOUS
    <3> QED  BY <2>1, <3>1, <3>2, <3>3, <3>4
  <2> QED  BY <2>2
<1>2. ASSUME NEW z \in D \ {x, y} PROVE Q[z] \cap (g \cup Q[x] \cup Q[y]) = {}
  BY <1>2 DEF Parts
<1>3. \A a, b \in D : a # b => Q[a] \cap Q[b] = {}
  <2>1. ASSUME NEW a \in D, NEW b \in D, a # b PROVE Q[a] \cap Q[b] = {}
    <3>1. CASE a \notin {x, y} /\ b \notin {x, y}
      BY <2>1, <3>1 DEF Parts
    <3>2. CASE a \notin {x, y} /\ b \in {x, y}
      BY <1>2, <3>2
    <3>3. CASE a \in {x, y} /\ b \notin {x, y}
      BY <1>2, <3>3
    <3>4. CASE a \in {x, y} /\ b \in {x, y}
      BY <2>1, <3>4
    <3> QED  BY <3>1, <3>2, <3>3, <3>4
  <2> QED  BY <2>1
<1>4. \A a \in D : Q[a] \cap g = {}
  BY <1>2
<1> QED  BY <1>1, <1>3, <1>4 DEF Parts

(* The three things that hold pages, for every process. *)
Kinds == {"pgdir", "new", "kstack"}
Holders == VmProcs \X Kinds

(* Owners by kind, now and after a step. *)
LEMMA OwnersAre ==
  /\ DOMAIN Owners = Holders
  /\ \A p \in VmProcs : /\ Owners[<<p, "pgdir">>] = Holds(proc[p].pgdir)
                        /\ Owners[<<p, "new">>] = Holds(call[p].new)
                        /\ Owners[<<p, "kstack">>] = {proc[p].kstack} \ {0}
BY DEF Owners, Holders, Kinds

(* Owners by kind after a step. *)
LEMMA OwnersAreNext ==
  /\ DOMAIN Owners' = Holders
  /\ \A p \in VmProcs : /\ Owners'[<<p, "pgdir">>] = Holds(proc'[p].pgdir)
                        /\ Owners'[<<p, "new">>] = Holds(call'[p].new)
                        /\ Owners'[<<p, "kstack">>] = {proc'[p].kstack} \ {0}
BY DEF Owners, Holders, Kinds

(* A holder is of one of the three kinds. *)
LEMMA HoldersAre ==
  /\ \A z \in Holders : \E p \in VmProcs : z = <<p, "pgdir">> \/ z = <<p, "new">> \/ z = <<p, "kstack">>
  /\ \A p \in VmProcs : <<p, "pgdir">> \in Holders /\ <<p, "new">> \in Holders /\ <<p, "kstack">> \in Holders
BY DEF Holders, Kinds

(* Every page is free or with one holder. *)
Divided == Parts(Holders, Owners, mem.free)

(* With what Placed says of a directory that is NothingLost. *)
LEMMA NothingLostFrom ==
  Divided /\ Placed => NothingLost
<1> SUFFICES ASSUME Divided, Placed PROVE NothingLost
  OBVIOUS
<1>1. ASSUME NEW p \in VmProcs, NEW a \in UPage, NEW b \in UPage, a # b, proc[p].pgdir.map[a] # 0
      PROVE  proc[p].pgdir.map[a] # proc[p].pgdir.map[b]
  <2>1. Once(proc[p].pgdir)
    BY DEF Placed, HasPages
  <2> QED  BY <1>1, <2>1 DEF Once
<1> QED  BY <1>1, OwnersAre DEF NothingLost, Divided, Parts

(* Who keeps directory and stack keeps its pages. *)
LEMMA Untouched ==
  ASSUME NEW S, \A q \in VmProcs : /\ <<q, "pgdir">> \notin S => proc'[q].pgdir = proc[q].pgdir
                                   /\ <<q, "new">> \notin S => call'[q].new = call[q].new
                                   /\ <<q, "kstack">> \notin S => proc'[q].kstack = proc[q].kstack
  PROVE  \A z \in Holders \ S : Owners'[z] = Owners[z]
<1> SUFFICES ASSUME NEW z \in Holders \ S PROVE Owners'[z] = Owners[z]
  OBVIOUS
<1>1. PICK p \in VmProcs : z = <<p, "pgdir">> \/ z = <<p, "new">> \/ z = <<p, "kstack">>
  BY HoldersAre
<1>2. CASE z = <<p, "pgdir">>
  BY ZenonT(40), <1>2, OwnersAre, OwnersAreNext
<1>3. CASE z = <<p, "new">>
  BY ZenonT(40), <1>3, OwnersAre, OwnersAreNext
<1>4. CASE z = <<p, "kstack">>
  BY ZenonT(40), <1>4, OwnersAre, OwnersAreNext
<1> QED  BY <1>1, <1>2, <1>3, <1>4

(* Pages go between the free list and two holders. *)
LEMMA Trade2 ==
  ASSUME Divided, NEW x \in Holders, NEW y \in Holders, x # y,
         \A z \in Holders \ {x, y} : Owners'[z] = Owners[z],
         mem'.free \cup Owners'[x] \cup Owners'[y] = mem.free \cup Owners[x] \cup Owners[y],
         Owners'[x] \cap Owners'[y] = {}, Owners'[x] \cap mem'.free = {}, Owners'[y] \cap mem'.free = {}
  PROVE  Divided'
<1>1. Parts(Holders, Owners, mem.free)
  BY DEF Divided
<1>2. Parts(Holders, Owners', mem'.free)
  BY <1>1, Exchange
<1>3. Holders' = Holders
  BY DEF Holders, VmProcs, Kinds
<1>4. Parts(Holders, Owners, mem.free)' = Parts(Holders', Owners', mem'.free)
  BY DEF Parts, Frames
<1> QED  BY <1>2, <1>3, <1>4 DEF Divided

(* Pages go between the free list and one holder. *)
LEMMA Trade1 ==
  ASSUME Divided, NEW x \in Holders,
         \A z \in Holders \ {x} : Owners'[z] = Owners[z],
         mem'.free \cup Owners'[x] = mem.free \cup Owners[x], Owners'[x] \cap mem'.free = {}
  PROVE  Divided'
<1>1. PICK y \in Holders : y # x
  <2>1. 1 \in VmProcs
    BY Constants DEF VmProcs
  <2>2. <<1, "pgdir">> \in Holders /\ <<1, "new">> \in Holders /\ <<1, "pgdir">> # <<1, "new">>
    BY <2>1, HoldersAre
  <2> QED  BY <2>2
<1>2. Owners'[y] = Owners[y] /\ Owners[x] \cap Owners[y] = {} /\ Owners[y] \cap mem.free = {}
  BY <1>1 DEF Divided, Parts
<1> QED  BY <1>1, <1>2, Trade2

(* No page moves. *)
LEMMA Trade0 ==
  ASSUME Divided, \A z \in Holders : Owners'[z] = Owners[z], mem'.free = mem.free
  PROVE  Divided'
<1>1. 1 \in VmProcs
  BY Constants DEF VmProcs
<1>2. <<1, "pgdir">> \in Holders
  BY <1>1, HoldersAre
<1>3. Owners[<<1, "pgdir">>] \cap mem.free = {}
  BY <1>2 DEF Divided, Parts
<1> QED  BY <1>2, <1>3, Trade1

-----------------------------------------------------------------------------
(* What the steps keep. *)
Core == VmTypeOK /\ Divided /\ Placed /\ Extents /\ Contents

(* The fields of a slot. *)
LEMMA SlotIs ==
  ASSUME NEW x \in Slot
  PROVE  /\ x.st \in {"UNUSED", "EMBRYO", "RUNNABLE", "ZOMBIE"} /\ x.up \in 0..NSLOT
         /\ x.kstack \in 0..NFRAME /\ x.pgdir \in PageDirs /\ x.sz \in 0..(KERNBASE - 1) /\ x.sz \in Nat
         /\ x = [st |-> x.st, up |-> x.up, kstack |-> x.kstack, pgdir |-> x.pgdir, sz |-> x.sz]
<1>1. KERNBASE \in Nat
  BY Kernbase
<1> QED  BY <1>1 DEF Slot

(* The fields of a call. *)
LEMMA InCallIs ==
  ASSUME NEW c \in CallStates
  PROVE  /\ c.pc \in {"user", "grow", "forkvm", "copy", "load"} /\ c.new \in PageDirs
         /\ c.a \in 0..UPAGES /\ c.a \in Nat /\ c.lim \in 0..(KERNBASE - 1) /\ c.lim \in Nat
         /\ c.seg \in Nat /\ c.child \in 0..NSLOT /\ c.prog \in Seq(Segs)
         /\ c = [pc |-> c.pc, new |-> c.new, a |-> c.a, lim |-> c.lim, seg |-> c.seg,
                 child |-> c.child, prog |-> c.prog]
<1>1. KERNBASE \in Nat /\ UPAGES \in Nat
  BY Kernbase, Constants
<1> QED  BY <1>1 DEF CallStates

(* The parts of the state that belong to one process. *)
LEMMA Typed ==
  ASSUME VmTypeOK, NEW p \in VmProcs
  PROVE  mem \in Mem /\ proc[p] \in Slot /\ call[p] \in CallStates /\ view[p] \in [UPage -> Int]
BY DEF VmTypeOK

(* Pages of different holders, and of the free list, are different. *)
LEMMA Apart ==
  ASSUME Divided, NEW p \in VmProcs
  PROVE  /\ Holds(proc[p].pgdir) \cap mem.free = {} /\ Holds(call[p].new) \cap mem.free = {}
         /\ ({proc[p].kstack} \ {0}) \cap mem.free = {}
         /\ Holds(proc[p].pgdir) \cap Holds(call[p].new) = {}
         /\ Holds(proc[p].pgdir) \cap ({proc[p].kstack} \ {0}) = {}
         /\ \A q \in VmProcs : /\ ({proc[q].kstack} \ {0}) \cap Holds(call[p].new) = {}
                               /\ q # p => /\ Holds(proc[p].pgdir) \cap Holds(proc[q].pgdir) = {}
                                           /\ Holds(proc[p].pgdir) \cap Holds(call[q].new) = {}
                                           /\ Holds(call[p].new) \cap Holds(call[q].new) = {}
<1>1. ASSUME NEW x \in Holders PROVE Owners[x] \cap mem.free = {}
  BY DEF Divided, Parts
<1>2. ASSUME NEW x \in Holders, NEW y \in Holders, x # y PROVE Owners[x] \cap Owners[y] = {}
  BY <1>2 DEF Divided, Parts
<1>3. \A q \in VmProcs : <<q, "pgdir">> \in Holders /\ <<q, "new">> \in Holders /\ <<q, "kstack">> \in Holders
  BY HoldersAre
<1>4. \A q \in VmProcs : <<p, "pgdir">> # <<q, "new">> /\ <<p, "pgdir">> # <<q, "kstack">> /\ <<q, "kstack">> # <<p, "new">>
  OBVIOUS
<1>5. \A q \in VmProcs : q # p => <<p, "pgdir">> # <<q, "pgdir">> /\ <<p, "new">> # <<q, "new">>
  OBVIOUS
<1>6. \A q \in VmProcs : /\ Owners[<<q, "pgdir">>] = Holds(proc[q].pgdir)
                         /\ Owners[<<q, "new">>] = Holds(call[q].new)
                         /\ Owners[<<q, "kstack">>] = {proc[q].kstack} \ {0}
  BY OwnersAre
<1>7. Holds(proc[p].pgdir) \cap mem.free = {} /\ Holds(call[p].new) \cap mem.free = {}
      /\ ({proc[p].kstack} \ {0}) \cap mem.free = {}
  BY <1>1, <1>3, <1>6
<1>8. Holds(proc[p].pgdir) \cap Holds(call[p].new) = {}
      /\ Holds(proc[p].pgdir) \cap ({proc[p].kstack} \ {0}) = {}
  <2>1. <<p, "pgdir">> \in Holders /\ <<p, "new">> \in Holders /\ <<p, "kstack">> \in Holders
    BY <1>3
  <2>2. <<p, "pgdir">> # <<p, "new">> /\ <<p, "pgdir">> # <<p, "kstack">>
    BY <1>4
  <2>3. /\ Owners[<<p, "pgdir">>] \cap Owners[<<p, "new">>] = {}
        /\ Owners[<<p, "pgdir">>] \cap Owners[<<p, "kstack">>] = {}
    BY <1>2, <2>1, <2>2
  <2> QED  BY <1>6, <2>3
<1>9. ASSUME NEW q \in VmProcs PROVE ({proc[q].kstack} \ {0}) \cap Holds(call[p].new) = {}
  <2>1. <<q, "kstack">> \in Holders /\ <<p, "new">> \in Holders /\ <<q, "kstack">> # <<p, "new">>
    BY <1>3, <1>4
  <2>2. Owners[<<q, "kstack">>] \cap Owners[<<p, "new">>] = {}
    BY <1>2, <2>1
  <2> QED  BY <1>6, <2>2
<1>10. ASSUME NEW q \in VmProcs, q # p
       PROVE  /\ Holds(proc[p].pgdir) \cap Holds(proc[q].pgdir) = {}
              /\ Holds(proc[p].pgdir) \cap Holds(call[q].new) = {}
              /\ Holds(call[p].new) \cap Holds(call[q].new) = {}
  <2>1. Holds(proc[p].pgdir) \cap Holds(proc[q].pgdir) = {}
    <3>1. <<p, "pgdir">> \in Holders /\ <<q, "pgdir">> \in Holders /\ <<p, "pgdir">> # <<q, "pgdir">>
      BY <1>3, <1>5, <1>10
    <3>2. Owners[<<p, "pgdir">>] \cap Owners[<<q, "pgdir">>] = {}
      BY <1>2, <3>1
    <3> QED  BY <1>6, <3>2
  <2>2. Holds(proc[p].pgdir) \cap Holds(call[q].new) = {}
    <3>1. <<p, "pgdir">> \in Holders /\ <<q, "new">> \in Holders /\ <<p, "pgdir">> # <<q, "new">>
      BY <1>3, <1>4
    <3>2. Owners[<<p, "pgdir">>] \cap Owners[<<q, "new">>] = {}
      BY <1>2, <3>1
    <3> QED  BY <1>6, <3>2
  <2>3. Holds(call[p].new) \cap Holds(call[q].new) = {}
    <3>1. <<p, "new">> \in Holders /\ <<q, "new">> \in Holders /\ <<p, "new">> # <<q, "new">>
      BY <1>3, <1>5, <1>10
    <3>2. Owners[<<p, "new">>] \cap Owners[<<q, "new">>] = {}
      BY <1>2, <3>1
    <3> QED  BY <1>6, <3>2
  <2> QED  BY <2>1, <2>2, <2>3
<1> QED  BY <1>7, <1>8, <1>9, <1>10

(* A mapped page is held. *)
LEMMA InHolds ==
  ASSUME NEW d, NEW a \in UPage, d.map[a] # 0 PROVE d.map[a] \in Holds(d)
BY HoldsIs

(* Pages that stay in use and are not written hold what they held. *)
LEMMA HoldingKept ==
  ASSUME NEW m \in Mem, NEW n \in Mem, NEW d \in PageDirs, NEW v, NEW T, Holding(m, d, v),
         Holds(d) \cap m.free = {}, Holds(d) \cap n.free = {}, Holds(d) \cap T = {},
         \A g \in Frames : g \notin m.free /\ g \notin n.free /\ g \notin T => n.data[g] = m.data[g]
  PROVE  Holding(n, d, v)
<1> SUFFICES ASSUME NEW a \in UPage, d.map[a] # 0 PROVE n.data[d.map[a]] = v[a]
  BY DEF Holding
<1>1. d.map[a] \in Holds(d) /\ d.map[a] \in Frames
  BY InHolds, HoldsFrames
<1>2. n.data[d.map[a]] = m.data[d.map[a]]
  BY <1>1
<1> QED  BY <1>2 DEF Holding

(* A process that no one but its pages' holders can reach. *)
LEMMA Others ==
  ASSUME VmTypeOK, mem' \in Mem, Divided, Divided', Extents, Contents, NEW r \in VmProcs, NEW T,
         proc'[r].st = proc[r].st, proc'[r].pgdir = proc[r].pgdir, proc'[r].sz = proc[r].sz,
         call'[r] = call[r], view'[r] = view[r],
         Holds(proc[r].pgdir) \cap T = {}, Holds(call[r].new) \cap T = {},
         \A g \in Frames : g \notin mem.free /\ g \notin mem'.free /\ g \notin T => mem'.data[g] = mem.data[g],
         proc'[r].st = "RUNNABLE"
  PROVE  Extent(proc'[r], call'[r]) /\ Content(mem', proc'[r], call'[r], view'[r])
<1>1. Extent(proc[r], call[r]) /\ Content(mem, proc[r], call[r], view[r])
  BY DEF Extents, Contents
<1>2. mem \in Mem /\ proc[r].pgdir \in PageDirs /\ call[r].new \in PageDirs
  BY Typed, SlotIs, InCallIs
<1>3. Holds(proc[r].pgdir) \cap mem.free = {} /\ Holds(call[r].new) \cap mem.free = {}
  BY Apart
<1>4. Holds(proc[r].pgdir) \cap mem'.free = {} /\ Holds(call[r].new) \cap mem'.free = {}
  <2>1. \A x \in Holders : Owners'[x] \cap mem'.free = {}
    <3>1. Holders' = Holders
      BY DEF Holders, VmProcs, Kinds
    <3> QED  BY <3>1 DEF Divided, Parts
  <2>2. <<r, "pgdir">> \in Holders /\ <<r, "new">> \in Holders
    BY HoldersAre
  <2>3. Owners'[<<r, "pgdir">>] = Holds(proc'[r].pgdir) /\ Owners'[<<r, "new">>] = Holds(call'[r].new)
    BY OwnersAreNext
  <2> QED  BY <2>1, <2>2, <2>3
<1>5. Extent(proc'[r], call'[r])
  BY <1>1 DEF Extent
<1>6. \A v : Holding(mem, proc[r].pgdir, v) => Holding(mem', proc[r].pgdir, v)
  BY <1>2, <1>3, <1>4, HoldingKept
<1>7. \A v : Holding(mem, call[r].new, v) => Holding(mem', call[r].new, v)
  BY <1>2, <1>3, <1>4, HoldingKept
<1>8. Content(mem', proc'[r], call'[r], view'[r])
  BY <1>1, <1>6, <1>7 DEF Content
<1> QED  BY <1>5, <1>8

(* Filling goes on in the slots that stay embryos. *)
LEMMA FillingKept ==
  ASSUME Filling, \A r \in VmProcs : InFork(call'[r]) =>
           InFork(call[r]) /\ call'[r].child = call[r].child /\ proc'[call[r].child].st = "EMBRYO"
  PROVE  Filling'
<1>1. VmProcs' = VmProcs
  BY DEF VmProcs
<1> QED  BY <1>1 DEF Filling, InFork

(* A step of process p alone, that trades the pages of its directories and *)
(* writes at most to the pages T among them, keeps Core when what it makes *)
(* of its own slot, call and expectations is right.                        *)
LEMMA StepOne ==
  ASSUME Core, NEW p \in VmProcs, NEW x \in Slot, NEW c \in CallStates, NEW v \in [UPage -> Int], NEW T,
         mem' \in Mem, proc' = [proc EXCEPT ![p] = x], call' = [call EXCEPT ![p] = c],
         view' = [view EXCEPT ![p] = v],
         x.st = proc[p].st, x.kstack = proc[p].kstack,
         mem'.free \cup Holds(x.pgdir) \cup Holds(c.new)
           = mem.free \cup Holds(proc[p].pgdir) \cup Holds(call[p].new),
         Holds(x.pgdir) \cap Holds(c.new) = {}, Holds(x.pgdir) \cap mem'.free = {},
         Holds(c.new) \cap mem'.free = {},
         T \subseteq Holds(proc[p].pgdir) \cup Holds(call[p].new),
         \A g \in Frames : g \notin mem.free /\ g \notin mem'.free /\ g \notin T => mem'.data[g] = mem.data[g],
         HasPages(x, c), InFork(c) => InFork(call[p]) /\ c.child = call[p].child,
         x.st = "RUNNABLE" => Extent(x, c) /\ Content(mem', x, c, v)
  PROVE  Core'
<1>1. /\ proc \in [VmProcs -> Slot] /\ call \in [VmProcs -> CallStates] /\ view \in [VmProcs -> [UPage -> Int]]
      /\ Divided /\ Filling /\ Extents /\ Contents /\ VmTypeOK
      /\ \A r \in VmProcs : HasPages(proc[r], call[r])
  BY DEF Core, VmTypeOK, Placed
<1>2. /\ proc'[p] = x /\ call'[p] = c /\ view'[p] = v
      /\ \A r \in VmProcs \ {p} : proc'[r] = proc[r] /\ call'[r] = call[r] /\ view'[r] = view[r]
  BY <1>1
<1>3. VmTypeOK'
  <2>1. proc' \in [VmProcs -> Slot]
    BY <1>1
  <2>2. call' \in [VmProcs -> CallStates]
    BY <1>1
  <2>3. view' \in [VmProcs -> [UPage -> Int]]
    BY <1>1
  <2>4. /\ VmProcs' = VmProcs /\ Slot' = Slot /\ CallStates' = CallStates /\ UPage' = UPage /\ Mem' = Mem
    BY DEF VmProcs, Slot, CallStates, UPage, Mem
  <2> QED  BY <2>1, <2>2, <2>3, <2>4 DEF VmTypeOK
<1>4. Divided'
  <2> DEFINE d == <<p, "pgdir">>
             e == <<p, "new">>
  <2>1. d \in Holders /\ e \in Holders /\ d # e
    BY HoldersAre
  <2>2. \A z \in Holders \ {d, e} : Owners'[z] = Owners[z]
    <3>1. ASSUME NEW q \in VmProcs
          PROVE  /\ <<q, "pgdir">> \notin {d, e} => proc'[q].pgdir = proc[q].pgdir
                 /\ <<q, "new">> \notin {d, e} => call'[q].new = call[q].new
                 /\ <<q, "kstack">> \notin {d, e} => proc'[q].kstack = proc[q].kstack
      BY <1>2
    <3> HIDE DEF d, e
    <3> QED  BY <3>1, Untouched
  <2>3. /\ Owners[d] = Holds(proc[p].pgdir) /\ Owners[e] = Holds(call[p].new)
        /\ Owners'[d] = Holds(x.pgdir) /\ Owners'[e] = Holds(c.new)
    BY ZenonT(40), <1>2, OwnersAre, OwnersAreNext
  <2> HIDE DEF d, e
  <2> QED  BY <1>1, <2>1, <2>2, <2>3, Trade2
<1>5. Placed'
  <2>1. Filling'
    <3>1. \A r \in VmProcs : proc'[r].st = proc[r].st
      BY <1>2
    <3>2. ASSUME NEW r \in VmProcs, InFork(call'[r])
          PROVE  InFork(call[r]) /\ call'[r].child = call[r].child /\ proc'[call[r].child].st = "EMBRYO"
      <4>1. InFork(call[r]) /\ call'[r].child = call[r].child
        BY <1>2, <3>2
      <4>2. call[r].child \in VmProcs /\ proc[call[r].child].st = "EMBRYO"
        BY <1>1, <4>1 DEF Filling
      <4> QED  BY <3>1, <4>1, <4>2
    <3> QED  BY <1>1, <3>2, FillingKept
  <2>2. \A r \in VmProcs : HasPages(proc'[r], call'[r])
    BY <1>1, <1>2
  <2>3. VmProcs' = VmProcs
    BY DEF VmProcs
  <2> QED  BY <2>1, <2>2, <2>3 DEF Placed
<1>6. ASSUME NEW r \in VmProcs, proc'[r].st = "RUNNABLE"
      PROVE  Extent(proc'[r], call'[r]) /\ Content(mem', proc'[r], call'[r], view'[r])
  <2>1. CASE r = p
    BY <1>2, <1>6, <2>1
  <2>2. CASE r # p
    <3>1. /\ Holds(proc[p].pgdir) \cap Holds(proc[r].pgdir) = {}
          /\ Holds(proc[p].pgdir) \cap Holds(call[r].new) = {}
          /\ Holds(call[p].new) \cap Holds(call[r].new) = {}
          /\ Holds(proc[r].pgdir) \cap Holds(call[p].new) = {}
      BY <1>1, <2>2, Apart
    <3>2. Holds(proc[r].pgdir) \cap T = {} /\ Holds(call[r].new) \cap T = {}
      BY <3>1
    <3>3. proc'[r] = proc[r] /\ call'[r] = call[r] /\ view'[r] = view[r]
      BY <1>2, <2>2
    <3>4. /\ proc'[r].st = proc[r].st /\ proc'[r].pgdir = proc[r].pgdir /\ proc'[r].sz = proc[r].sz
      BY <3>3
    <3> QED  BY ONLY r \in VmProcs, <1>1, <1>4, <1>6, <3>2, <3>3, <3>4, mem' \in Mem, Others,
                \A g \in Frames : g \notin mem.free /\ g \notin mem'.free /\ g \notin T => mem'.data[g] = mem.data[g]
  <2> QED  BY <2>1, <2>2
<1>7. Extents' /\ Contents'
  <2>1. VmProcs' = VmProcs
    BY DEF VmProcs
  <2>2. Extents' = \A r \in VmProcs : proc'[r].st = "RUNNABLE" => Extent(proc'[r], call'[r])
    BY <2>1 DEF Extents
  <2>3. Contents' = \A r \in VmProcs : proc'[r].st = "RUNNABLE" => Content(mem', proc'[r], call'[r], view'[r])
    BY <2>1 DEF Contents
  <2> QED  BY <1>6, <2>2, <2>3
<1> QED  BY <1>3, <1>4, <1>5, <1>7 DEF Core

(* A step of p that changes the slot of another process q and p's call. *)
LEMMA StepTwo ==
  ASSUME Core, NEW p \in VmProcs, NEW q \in VmProcs, q # p, NEW y \in Slot, NEW c \in CallStates, NEW v \in [UPage -> Int],
         mem' \in Mem, proc' = [proc EXCEPT ![q] = y], call' = [call EXCEPT ![p] = c],
         view' = [view EXCEPT ![q] = v], Divided', Kept(mem, mem'), Filling',
         HasPages(y, call[q]), HasPages(proc[p], c),
         Extent(proc[p], c), Content(mem', proc[p], c, view[p]),
         y.st = "RUNNABLE" => Extent(y, call[q]) /\ Content(mem', y, call[q], v)
  PROVE  Core'
<1>1. /\ proc \in [VmProcs -> Slot] /\ call \in [VmProcs -> CallStates] /\ view \in [VmProcs -> [UPage -> Int]]
      /\ Divided /\ Filling /\ Extents /\ Contents /\ VmTypeOK
      /\ \A r \in VmProcs : HasPages(proc[r], call[r])
  BY DEF Core, VmTypeOK, Placed
<1>2. /\ proc'[q] = y /\ call'[p] = c /\ view'[q] = v
      /\ proc'[p] = proc[p] /\ call'[q] = call[q] /\ view'[p] = view[p]
      /\ \A r \in VmProcs \ {p, q} : proc'[r] = proc[r] /\ call'[r] = call[r] /\ view'[r] = view[r]
  BY <1>1
<1>3. VmTypeOK'
  <2>1. proc' \in [VmProcs -> Slot]
    BY <1>1
  <2>2. call' \in [VmProcs -> CallStates]
    BY <1>1
  <2>3. view' \in [VmProcs -> [UPage -> Int]]
    BY <1>1
  <2>4. /\ VmProcs' = VmProcs /\ Slot' = Slot /\ CallStates' = CallStates /\ UPage' = UPage /\ Mem' = Mem
    BY DEF VmProcs, Slot, CallStates, UPage, Mem
  <2> QED  BY <2>1, <2>2, <2>3, <2>4 DEF VmTypeOK
<1>5. Placed'
  <2>2. \A r \in VmProcs : HasPages(proc'[r], call'[r])
    BY <1>1, <1>2
  <2>3. VmProcs' = VmProcs
    BY DEF VmProcs
  <2> QED  BY <2>2, <2>3 DEF Placed
<1>6. ASSUME NEW r \in VmProcs, proc'[r].st = "RUNNABLE"
      PROVE  Extent(proc'[r], call'[r]) /\ Content(mem', proc'[r], call'[r], view'[r])
  <2>1. CASE r = p
    BY <1>2, <2>1
  <2>2. CASE r = q
    BY <1>2, <1>6, <2>2
  <2>3. CASE r # p /\ r # q
    <3> DEFINE T == {}
    <3>1. Holds(proc[r].pgdir) \cap T = {} /\ Holds(call[r].new) \cap T = {}
      OBVIOUS
    <3>2. \A g \in Frames : g \notin mem.free /\ g \notin mem'.free /\ g \notin T => mem'.data[g] = mem.data[g]
      BY DEF Kept
    <3>3. proc'[r] = proc[r] /\ call'[r] = call[r] /\ view'[r] = view[r]
      BY <1>2, <2>3
    <3>4. proc'[r].st = proc[r].st /\ proc'[r].pgdir = proc[r].pgdir /\ proc'[r].sz = proc[r].sz
      BY <3>3
    <3> HIDE DEF T
    <3> QED  BY ONLY r \in VmProcs, <1>1, Divided', <1>6, <3>1, <3>2, <3>3, <3>4, mem' \in Mem, Others
  <2> QED  BY <2>1, <2>2, <2>3
<1>7. Extents' /\ Contents'
  <2>1. VmProcs' = VmProcs
    BY DEF VmProcs
  <2>2. Extents' = \A r \in VmProcs : proc'[r].st = "RUNNABLE" => Extent(proc'[r], call'[r])
    BY <2>1 DEF Extents
  <2>3. Contents' = \A r \in VmProcs : proc'[r].st = "RUNNABLE" => Content(mem', proc'[r], call'[r], view'[r])
    BY <2>1 DEF Contents
  <2> QED  BY <1>6, <2>2, <2>3
<1> QED  BY <1>3, <1>5, <1>7 DEF Core

-----------------------------------------------------------------------------
(* One lemma for each action. *)
LEMMA CoreIs ==
  ASSUME Core, NEW p \in VmProcs
  PROVE  /\ mem \in Mem /\ proc[p] \in Slot /\ call[p] \in CallStates /\ view[p] \in [UPage -> Int]
         /\ proc \in [VmProcs -> Slot] /\ call \in [VmProcs -> CallStates] /\ view \in [VmProcs -> [UPage -> Int]]
         /\ Divided /\ Filling /\ HasPages(proc[p], call[p])
         /\ proc[p].st = "RUNNABLE" => Extent(proc[p], call[p]) /\ Content(mem, proc[p], call[p], view[p])
         /\ Holds(proc[p].pgdir) \cap mem.free = {} /\ Holds(call[p].new) \cap mem.free = {}
         /\ Holds(proc[p].pgdir) \cap Holds(call[p].new) = {}
         /\ Once(proc[p].pgdir) /\ Once(call[p].new)
         /\ proc = [proc EXCEPT ![p] = proc[p]] /\ call = [call EXCEPT ![p] = call[p]]
         /\ view = [view EXCEPT ![p] = view[p]]
<1>1. VmTypeOK /\ Divided /\ Placed /\ Extents /\ Contents
  BY DEF Core
<1>2. HasPages(proc[p], call[p]) /\ Filling
  BY <1>1 DEF Placed
<1>3. proc \in [VmProcs -> Slot] /\ call \in [VmProcs -> CallStates] /\ view \in [VmProcs -> [UPage -> Int]]
  BY <1>1 DEF VmTypeOK
<1>4. mem \in Mem /\ proc[p] \in Slot /\ call[p] \in CallStates /\ view[p] \in [UPage -> Int]
  BY <1>1, Typed
<1>5. proc[p].st = "RUNNABLE" => Extent(proc[p], call[p]) /\ Content(mem, proc[p], call[p], view[p])
  BY <1>1 DEF Extents, Contents
<1>6. /\ Holds(proc[p].pgdir) \cap mem.free = {} /\ Holds(call[p].new) \cap mem.free = {}
      /\ Holds(proc[p].pgdir) \cap Holds(call[p].new) = {}
  BY <1>1, Apart
<1>7. Once(proc[p].pgdir) /\ Once(call[p].new)
  BY <1>2 DEF HasPages
<1>8. proc = [proc EXCEPT ![p] = proc[p]] /\ call = [call EXCEPT ![p] = call[p]]
      /\ view = [view EXCEPT ![p] = view[p]]
  BY <1>3
<1> QED  BY <1>1, <1>2, <1>3, <1>4, <1>5, <1>6, <1>7, <1>8

(* A process in user mode builds no memory. *)
LEMMA UserIs ==
  /\ UserMode \in CallStates /\ UserMode.pc = "user" /\ UserMode.new = NoDir /\ UserMode.a = 0 /\ ~InFork(UserMode)
  /\ Holds(UserMode.new) = {} /\ Once(UserMode.new)
<1>1. NoDir \in PageDirs /\ Once(NoDir) /\ Holds(NoDir) = {}
  BY Empty
<1>2. 0 \in 0..UPAGES /\ 0 \in 0..(KERNBASE - 1) /\ 0 \in 0..NSLOT
  BY Constants, Kernbase
<1>3. <<>> \in Seq(Segs)
  OBVIOUS
<1>4. UserMode.pc = "user" /\ UserMode.new = NoDir /\ UserMode.a = 0
  BY DEF UserMode
<1>5. UserMode \in CallStates
  BY <1>1, <1>2, <1>3 DEF UserMode, CallStates
<1> QED  BY <1>1, <1>4, <1>5 DEF InFork

(* In a process that runs, the pages below the size are there. *)
LEMMA Runs ==
  ASSUME Core, NEW p \in VmProcs, CanRun(p)
  PROVE  /\ proc[p].st = "RUNNABLE" /\ call[p] = UserMode /\ Mapped(proc[p].pgdir, PGROUNDUP(proc[p].sz))
         /\ Holding(mem, proc[p].pgdir, view[p])
<1>1. proc[p].st = "RUNNABLE" /\ call[p].pc = "user" /\ proc[p].pgdir.map[0] # 0
  BY DEF CanRun, InUser
<1>2. HasPages(proc[p], call[p]) /\ Extent(proc[p], call[p]) /\ Content(mem, proc[p], call[p], view[p])
  BY <1>1, CoreIs
<1>3. call[p] = UserMode
  BY <1>1, <1>2 DEF HasPages
<1>4. ~Mapped(proc[p].pgdir, 0)
  <2>1. 0 \in UPage
    BY Constants DEF UPage
  <2> QED  BY <1>1, <2>1 DEF Mapped
<1> QED  BY <1>1, <1>2, <1>3, <1>4 DEF Extent, Content

(* A store to memory that p may write reaches no other process. *)
LEMMA StoreKeeps ==
  ASSUME Core, NEW p \in VmProcs, NEW a \in Stores, Store(p, a) PROVE Core'
<1> DEFINE d == proc[p].pgdir
           f == d.map[a]
           v == [view[p] EXCEPT ![a] = p]
           T == {f}
<1>1. /\ CanRun(p) /\ a \in d.u /\ mem' = memset(mem, f, p)
      /\ view' = [view EXCEPT ![p][a] = p] /\ proc' = proc /\ call' = call
  BY DEF Store
<1>2. /\ mem \in Mem /\ proc[p] \in Slot /\ call[p] \in CallStates /\ view[p] \in [UPage -> Int]
      /\ view \in [VmProcs -> [UPage -> Int]]
      /\ HasPages(proc[p], call[p])
      /\ Holds(d) \cap mem.free = {} /\ Holds(call[p].new) \cap mem.free = {}
      /\ Holds(d) \cap Holds(call[p].new) = {} /\ Once(d)
      /\ proc = [proc EXCEPT ![p] = proc[p]] /\ call = [call EXCEPT ![p] = call[p]]
      /\ Extent(proc[p], call[p])
  BY <1>1, CoreIs, Runs
<1>3. call[p] = UserMode /\ Holding(mem, d, view[p])
  BY <1>1, Runs
<1>4. d \in PageDirs /\ d.u \in SUBSET UPage /\ a \in UPage /\ f # 0
  <2>1. d \in PageDirs
    BY <1>2, SlotIs
  <2> QED  BY <1>1, <1>2, <2>1 DEF PageDirs, Once
<1>5. f \in Holds(d) /\ f \in Frames
  BY <1>4, InHolds, HoldsFrames
<1>6. p \in Int
  BY Constants DEF VmProcs
<1>7. mem' \in Mem /\ mem'.free = mem.free /\ mem'.data = [mem.data EXCEPT ![f] = p]
  BY <1>1, <1>2, <1>5, <1>6, Sets
<1>8. v \in [UPage -> Int] /\ view' = [view EXCEPT ![p] = v]
  BY <1>1, <1>2, <1>4, <1>6
<1>9. \A g \in Frames : g \notin mem.free /\ g \notin mem'.free /\ g \notin T => mem'.data[g] = mem.data[g]
  <2>1. mem.data \in [Frames -> Int]
    BY <1>2 DEF Mem
  <2> QED  BY <1>7, <2>1
<1>10. Holding(mem', d, v)
  <2> SUFFICES ASSUME NEW b \in UPage, d.map[b] # 0 PROVE mem'.data[d.map[b]] = v[b]
    BY DEF Holding
  <2>1. mem.data \in [Frames -> Int] /\ d.map[b] \in Frames
    <3>1. d.map[b] \in Holds(d)
      BY InHolds
    <3> QED  BY <1>2, <1>4, <3>1, HoldsFrames DEF Mem
  <2>2. CASE b = a
    BY <1>2, <1>5, <1>7, <2>1, <2>2
  <2>3. CASE b # a
    <3>1. d.map[b] # f
      BY <1>2, <1>4, <2>3 DEF Once
    <3>2. mem'.data[d.map[b]] = mem.data[d.map[b]]
      BY <1>7, <2>1, <3>1
    <3>3. mem.data[d.map[b]] = view[p][b] /\ v[b] = view[p][b]
      BY <1>2, <1>3, <2>3 DEF Holding
    <3> QED  BY <3>2, <3>3
  <2> QED  BY <2>2, <2>3
<1> HIDE DEF v, T
<1>11. Content(mem', proc[p], call[p], v)
  BY <1>3, <1>10, UserIs DEF Content
<1>12. T \subseteq Holds(d) \cup Holds(call[p].new)
  BY <1>5 DEF T
<1> DEFINE x == proc[p]
           c == call[p]
<1>13. /\ x \in Slot /\ c \in CallStates /\ v \in [UPage -> Int] /\ mem' \in Mem
       /\ proc' = [proc EXCEPT ![p] = x] /\ call' = [call EXCEPT ![p] = c] /\ view' = [view EXCEPT ![p] = v]
       /\ x.st = proc[p].st /\ x.kstack = proc[p].kstack
  BY <1>1, <1>2, <1>7, <1>8
<1>14. /\ mem'.free \cup Holds(x.pgdir) \cup Holds(c.new)
            = mem.free \cup Holds(proc[p].pgdir) \cup Holds(call[p].new)
       /\ Holds(x.pgdir) \cap Holds(c.new) = {} /\ Holds(x.pgdir) \cap mem'.free = {}
       /\ Holds(c.new) \cap mem'.free = {}
       /\ T \subseteq Holds(proc[p].pgdir) \cup Holds(call[p].new)
  BY <1>2, <1>7, <1>12
<1>15. /\ HasPages(x, c) /\ (InFork(c) => InFork(call[p]) /\ c.child = call[p].child)
       /\ x.st = "RUNNABLE" => Extent(x, c) /\ Content(mem', x, c, v)
  BY <1>2, <1>11
<1> HIDE DEF x, c
<1> QED  BY ONLY Core, p \in VmProcs, <1>9, <1>13, <1>14, <1>15, StepOne

(* What allocuvm and deallocuvm do to the pages that are mapped. *)
LEMMA Trims ==
  ASSUME NEW d \in PageDirs, NEW e \in PageDirs, NEW lo \in Nat, NEW hi \in Nat, NEW k \in Nat, Mapped(d, k),
         PGROUNDUP(lo) <= k, k <= PGROUNDUP(hi), Cut(d, e, lo, hi)
  PROVE  Mapped(e, PGROUNDUP(lo)) /\ \A b \in UPage : e.map[b] # 0 => e.map[b] = d.map[b]
<1>1. PGROUNDUP(lo) \in Nat /\ PGROUNDUP(hi) \in Nat
  BY RoundUp
<1>0. \A b \in UPage : e.map[b] =
        IF lo < hi /\ b >= PGROUNDUP(lo) /\ b * PGSIZE < hi THEN 0 ELSE d.map[b]
  BY DEF Cut
<1>2. ASSUME NEW b \in UPage PROVE e.map[b] # 0 <=> b < PGROUNDUP(lo)
  <2>1. b \in Nat
    BY Constants DEF UPage
  <2>2. /\ b * PGSIZE < hi <=> b < PGROUNDUP(hi)
    BY <2>1, RoundUp
  <2>3. d.map[b] # 0 <=> b < k
    BY DEF Mapped
  <2>4. CASE lo < hi
    <3>1. CASE b >= PGROUNDUP(lo) /\ b * PGSIZE < hi
      BY <1>0, <1>1, <2>1, <2>4, <3>1
    <3>2. CASE ~(b >= PGROUNDUP(lo) /\ b * PGSIZE < hi)
      <4>1. e.map[b] = d.map[b]
        BY <1>0, <3>2
      <4> QED  BY <1>1, <2>1, <2>2, <2>3, <3>2, <4>1
    <3> QED  BY <3>1, <3>2
  <2>5. CASE ~(lo < hi)
    <3>1. e.map[b] = d.map[b]
      BY <1>0, <2>5
    <3>2. PGROUNDUP(hi) <= PGROUNDUP(lo)
      BY <2>5, RoundUpGrows
    <3>3. k = PGROUNDUP(lo)
      BY <1>1, <3>2
    <3> QED  BY <2>3, <3>1, <3>3
  <2> QED  BY <2>4, <2>5
<1>3. ASSUME NEW b \in UPage, e.map[b] # 0 PROVE e.map[b] = d.map[b]
  BY <1>0, <1>3
<1> QED  BY <1>2, <1>3 DEF Mapped

(* One more page is mapped. *)
LEMMA Adds ==
  ASSUME NEW d \in PageDirs, NEW e, NEW a \in UPage, Mapped(d, a), Added(d, e, a)
  PROVE  Mapped(e, a + 1)
<1>1. e.map[a] # 0
  BY FramesNat DEF Added
<1>2. \A b \in UPage \ {a} : e.map[b] = d.map[b]
  BY DEF Added
<1>3. ASSUME NEW b \in UPage PROVE e.map[b] # 0 <=> b < a + 1
  <2>1. a \in Nat /\ b \in Nat
    BY Constants DEF UPage
  <2>2. CASE b = a
    BY <1>1, <1>2, <2>1, <2>2
  <2>3. CASE b # a
    <3>1. e.map[b] # 0 <=> b < a
      BY <1>2, <2>3 DEF Mapped
    <3> QED  BY <2>1, <2>3, <3>1
  <2> QED  BY <2>2, <2>3
<1> QED  BY <1>2, <1>3 DEF Mapped

(* Fewer pages still hold what they held. *)
LEMMA HoldingLess ==
  ASSUME NEW m \in Mem, NEW n \in Mem, NEW d \in PageDirs, NEW e \in PageDirs, NEW v, NEW w,
         Traded(m, Holds(d), n, Holds(e)), Holds(d) \cap m.free = {}, Holding(m, d, v),
         \A b \in UPage : e.map[b] # 0 => e.map[b] = d.map[b] /\ w[b] = v[b]
  PROVE  Holding(n, e, w)
<1> SUFFICES ASSUME NEW b \in UPage, e.map[b] # 0 PROVE n.data[e.map[b]] = w[b]
  BY DEF Holding
<1>1. e.map[b] = d.map[b] /\ w[b] = v[b]
  OBVIOUS
<1>2. e.map[b] \in Holds(e) /\ d.map[b] \in Holds(d) /\ e.map[b] \in Frames
  BY <1>1, InHolds, HoldsFrames
<1>3. n.data[e.map[b]] = m.data[d.map[b]]
  BY <1>1, <1>2 DEF Traded, Kept
<1> QED  BY <1>1, <1>3 DEF Holding

(* One page more, with its new contents. *)
LEMMA HoldingMore ==
  ASSUME NEW m \in Mem, NEW n \in Mem, NEW d \in PageDirs, NEW e \in PageDirs, NEW v, NEW w,
         NEW a \in UPage,
         Traded(m, Holds(d), n, Holds(e)), Holds(d) \cap m.free = {}, Holding(m, d, v),
         n.data[e.map[a]] = w[a], Added(d, e, a),
         \A b \in UPage \ {a} : w[b] = v[b]
  PROVE  Holding(n, e, w)
<1> SUFFICES ASSUME NEW b \in UPage, e.map[b] # 0 PROVE n.data[e.map[b]] = w[b]
  BY DEF Holding
<1>0. CASE b = a
  BY <1>0
<1>4. CASE b # a
  <2>1. e.map[b] = d.map[b] /\ w[b] = v[b]
    BY <1>4 DEF Added
  <2>2. e.map[b] \in Holds(e) /\ d.map[b] \in Holds(d) /\ e.map[b] \in Frames
    BY <2>1, InHolds, HoldsFrames
  <2>3. n.data[e.map[b]] = m.data[d.map[b]]
    BY <2>1, <2>2 DEF Traded, Kept
  <2> QED  BY <2>1, <2>3 DEF Holding
<1> QED  BY <1>0, <1>4

(* Sizes are unsigned and wrap, but not when a process grows. *)
LEMMA Wraps ==
  ASSUME NEW sz \in 0..(KERNBASE - 1), NEW n \in Brks
  PROVE  Wrap(sz + n) \in Nat /\ (n > 0 => Wrap(sz + n) >= sz)
<1>1. KERNBASE \in Nat \ {0} /\ n \in -KERNBASE..(KERNBASE - 1)
  BY VmAssumption, Kernbase DEF KERNBASE
<1> DEFINE m == 2 * KERNBASE
           y == sz + n
<1>2. m \in Nat \ {0} /\ y \in Int /\ (n > 0 => y \in Nat /\ y < m /\ y >= sz)
  BY <1>1
<1>3. Wrap(sz + n) = y % m
  BY DEF Wrap
<1> HIDE DEF m, y
<1>4. y % m \in Nat
  BY <1>2
<1>5. ASSUME y \in Nat, y < m PROVE y % m = y
  <2> DEFINE q == y \div m
  <2>1. q \in Nat /\ y % m \in 0..(m - 1) /\ y = q * m + (y % m)
    BY <1>2, <1>5, Division
  <2> HIDE DEF q
  <2>2. ASSUME q >= 1 PROVE FALSE
    <3>1. 1 * m <= q * m
      BY <1>2, <2>1, <2>2, Monotone
    <3>2. 1 * m = m /\ q * m \in Nat
      BY <1>2, <2>1
    <3> QED  BY <1>2, <1>5, <2>1, <3>1, <3>2
  <2>3. q = 0
    BY <2>1, <2>2
  <2>4. q * m = 0
    BY <2>3, <1>2
  <2> QED  BY <2>1, <2>4, <1>2, <1>5
<1> QED  BY <1>2, <1>3, <1>4, <1>5

(* A call from its parts, and a slot with another memory. *)
CallOf(k, d, a, l, s, q, r) ==
  [pc |-> k, new |-> d, a |-> a, lim |-> l, seg |-> s, child |-> q, prog |-> r]

(* What CallOf makes. *)
LEMMA CallOfIs ==
  ASSUME NEW k, NEW d, NEW a, NEW l, NEW s, NEW q, NEW r, NEW c, c = CallOf(k, d, a, l, s, q, r),
         k \in {"user", "grow", "forkvm", "copy", "load"}, d \in PageDirs, a \in 0..UPAGES,
         l \in 0..(KERNBASE - 1), s \in Nat, q \in 0..NSLOT, r \in Seq(Segs)
  PROVE  /\ c \in CallStates /\ c.pc = k /\ c.new = d /\ c.a = a /\ c.lim = l /\ c.seg = s
         /\ c.child = q /\ c.prog = r
BY DEF CallOf, CallStates

(* A call is made of its parts. *)
Fields(c) ==
  /\ c.pc \in {"user", "grow", "forkvm", "copy", "load"} /\ c.new \in PageDirs /\ c.a \in 0..UPAGES
  /\ c.lim \in 0..(KERNBASE - 1) /\ c.seg \in Nat /\ c.child \in 0..NSLOT /\ c.prog \in Seq(Segs)

(* A call record is made of its fields. *)
LEMMA CallParts ==
  ASSUME NEW c \in CallStates
  PROVE  Fields(c) /\ c = CallOf(c.pc, c.new, c.a, c.lim, c.seg, c.child, c.prog)
BY InCallIs DEF CallOf, Fields

(* A slot with another memory. *)
SlotWith(x, d, z) == [x EXCEPT !.pgdir = d, !.sz = z]

(* What SlotWith makes. *)
LEMMA SlotWithIs ==
  ASSUME NEW x \in Slot, NEW d \in PageDirs, NEW z \in 0..(KERNBASE - 1)
  PROVE  /\ SlotWith(x, d, z) \in Slot /\ SlotWith(x, d, z).st = x.st /\ SlotWith(x, d, z).up = x.up
         /\ SlotWith(x, d, z).kstack = x.kstack /\ SlotWith(x, d, z).pgdir = d /\ SlotWith(x, d, z).sz = z
<1> SUFFICES ASSUME NEW y, y = [x EXCEPT !.pgdir = d, !.sz = z]
             PROVE  y \in Slot /\ y.st = x.st /\ y.up = x.up /\ y.kstack = x.kstack /\ y.pgdir = d /\ y.sz = z
  BY DEF SlotWith
<1>1. /\ x.st \in {"UNUSED", "EMBRYO", "RUNNABLE", "ZOMBIE"} /\ x.up \in 0..NSLOT
      /\ x.kstack \in 0..NFRAME
      /\ x = [st |-> x.st, up |-> x.up, kstack |-> x.kstack, pgdir |-> x.pgdir, sz |-> x.sz]
  BY SlotIs
<1>2. y = [st |-> x.st, up |-> x.up, kstack |-> x.kstack, pgdir |-> d, sz |-> z]
  BY ZenonT(40), <1>1
<1> QED  BY <1>1, <1>2 DEF Slot

(* growproc starts to grow, or shrinks at once. *)
LEMMA GrowprocKeeps ==
  ASSUME Core, NEW p \in VmProcs, NEW n \in Brks, growproc(p, n) PROVE Core'
<1> DEFINE d == proc[p].pgdir
           sz == proc[p].sz
           newsz == Wrap(sz + n)
           r == deallocuvm(mem, d, sz, newsz)
           T == {}
<1>1. /\ CanRun(p)
      /\ \/ /\ n > 0 /\ newsz < KERNBASE
            /\ call' = [call EXCEPT ![p] = [UserMode EXCEPT !.pc = "grow", !.a = PGROUNDUP(sz), !.lim = newsz]]
            /\ mem' = mem /\ proc' = proc /\ view' = view
         \/ /\ n < 0 /\ newsz < sz
            /\ mem' = r.m
            /\ proc' = [proc EXCEPT ![p].pgdir = r.d, ![p].sz = IF newsz = 0 THEN sz ELSE newsz]
            /\ view' = [view EXCEPT ![p] = [a \in UPage |-> IF r.d.map[a] = 0 THEN Zero ELSE @[a]]]
            /\ call' = call
  BY DEF growproc
<1>2. /\ mem \in Mem /\ proc[p] \in Slot /\ call[p] \in CallStates /\ view[p] \in [UPage -> Int]
      /\ proc \in [VmProcs -> Slot] /\ call \in [VmProcs -> CallStates] /\ view \in [VmProcs -> [UPage -> Int]]
      /\ HasPages(proc[p], call[p])
      /\ Holds(d) \cap mem.free = {} /\ Holds(call[p].new) \cap mem.free = {}
      /\ Holds(d) \cap Holds(call[p].new) = {} /\ Once(d)
      /\ proc = [proc EXCEPT ![p] = proc[p]] /\ call = [call EXCEPT ![p] = call[p]]
      /\ view = [view EXCEPT ![p] = view[p]]
  BY CoreIs
<1>3. /\ proc[p].st = "RUNNABLE" /\ call[p] = UserMode /\ Mapped(d, PGROUNDUP(sz)) /\ Holding(mem, d, view[p])
  BY <1>1, Runs
<1>4. /\ d \in PageDirs /\ sz \in 0..(KERNBASE - 1) /\ sz \in Nat
      /\ proc[p] = [st |-> proc[p].st, up |-> proc[p].up, kstack |-> proc[p].kstack, pgdir |-> d, sz |-> sz]
  BY <1>2, SlotIs
<1>5. newsz \in Nat /\ (n > 0 => newsz >= sz)
  BY <1>4, Wraps
<1>6. PGROUNDUP(sz) \in Nat /\ PGROUNDUP(newsz) \in Nat
  BY <1>4, <1>5, RoundUp
<1>7. KERNBASE \in Nat
  BY Kernbase
<1> HIDE DEF newsz, sz, d, T
<1>8. CASE /\ n > 0 /\ newsz < KERNBASE
           /\ call' = [call EXCEPT ![p] = [UserMode EXCEPT !.pc = "grow", !.a = PGROUNDUP(sz), !.lim = newsz]]
           /\ mem' = mem /\ proc' = proc /\ view' = view
  <2> DEFINE x == proc[p]
             c == [UserMode EXCEPT !.pc = "grow", !.a = PGROUNDUP(sz), !.lim = newsz]
             v == view[p]
  <2>2. PGROUNDUP(sz) \in 0..UPAGES /\ newsz \in 0..(KERNBASE - 1)
    <3>1. PGROUNDUP(sz) <= PGROUNDUP(KERNBASE) /\ PGROUNDUP(KERNBASE) = UPAGES
      BY <1>4, <1>7, RoundUpGrows, Kernbase
    <3> QED  BY <1>5, <1>6, <1>7, <1>8, <3>1, Constants
  <2>1. c \in CallStates /\ c.pc = "grow" /\ c.a = PGROUNDUP(sz) /\ c.lim = newsz /\ c.new = NoDir
    <3> DEFINE k == "grow"
    <3>1. k \in {"user", "grow", "forkvm", "copy", "load"} /\ UserMode \in CallStates
      BY UserIs
    <3>2. c = CallOf(k, UserMode.new, PGROUNDUP(sz), newsz, UserMode.seg, UserMode.child, UserMode.prog)
      <4>1. UserMode = CallOf(UserMode.pc, UserMode.new, UserMode.a, UserMode.lim, UserMode.seg, UserMode.child, UserMode.prog)
        BY <3>1, CallParts
      <4>2. ASSUME NEW e, e = c PROVE e = CallOf(k, UserMode.new, PGROUNDUP(sz), newsz, UserMode.seg, UserMode.child, UserMode.prog)
        BY <4>1, <4>2 DEF CallOf
      <4> QED  BY <4>2
    <3> HIDE DEF c, k
    <3>4. Fields(UserMode)
      BY <3>1, CallParts
    <3>3. c \in CallStates /\ c.pc = k /\ c.a = PGROUNDUP(sz) /\ c.lim = newsz /\ c.new = UserMode.new
      BY ONLY <2>2, <3>1, <3>2, <3>4, CallOfIs DEF Fields
    <3> QED  BY <3>3, UserIs DEF k
  <2> HIDE DEF c
  <2>4. Holds(c.new) = {} /\ Once(c.new) /\ Holds(call[p].new) = {} /\ ~InFork(c)
    BY <1>3, <2>1, Empty, UserIs DEF InFork
  <2>5. HasPages(x, c)
    BY <1>2, <1>3, <2>1, <2>4 DEF HasPages, d
  <2>6. Extent(x, c)
    <3>1. PGROUNDUP(sz) <= PGROUNDUP(newsz)
      BY <1>4, <1>5, <1>8, RoundUpGrows
    <3> QED  BY <1>3, <1>6, <2>1, <3>1 DEF Extent, d, sz
  <2>7. Content(mem', x, c, v)
    BY <1>3, <1>8, <2>1 DEF Content, d
  <2>8. /\ x \in Slot /\ c \in CallStates /\ v \in [UPage -> Int] /\ mem' \in Mem
        /\ proc' = [proc EXCEPT ![p] = x] /\ call' = [call EXCEPT ![p] = c] /\ view' = [view EXCEPT ![p] = v]
        /\ x.st = proc[p].st /\ x.kstack = proc[p].kstack
    BY <1>2, <1>8, <2>1 DEF c
  <2>9. /\ mem'.free \cup Holds(x.pgdir) \cup Holds(c.new)
             = mem.free \cup Holds(proc[p].pgdir) \cup Holds(call[p].new)
        /\ Holds(x.pgdir) \cap Holds(c.new) = {} /\ Holds(x.pgdir) \cap mem'.free = {}
        /\ Holds(c.new) \cap mem'.free = {}
        /\ T \subseteq Holds(proc[p].pgdir) \cup Holds(call[p].new)
    BY <1>2, <1>8, <2>4 DEF T, d
  <2>10. \A g \in Frames : g \notin mem.free /\ g \notin mem'.free /\ g \notin T => mem'.data[g] = mem.data[g]
    BY <1>8
  <2> HIDE DEF x, v
  <2> QED  BY ONLY Core, p \in VmProcs, <2>4, <2>5, <2>6, <2>7, <2>8, <2>9, <2>10, StepOne
<1>9. CASE /\ n < 0 /\ newsz < sz
           /\ mem' = r.m
           /\ proc' = [proc EXCEPT ![p].pgdir = r.d, ![p].sz = IF newsz = 0 THEN sz ELSE newsz]
           /\ view' = [view EXCEPT ![p] = [a \in UPage |-> IF r.d.map[a] = 0 THEN Zero ELSE @[a]]]
           /\ call' = call
  <2>1. r = deallocuvm(mem, d, sz, newsz)
    OBVIOUS
  <2> HIDE DEF r
  <2>2. /\ r.m \in Mem /\ r.d \in PageDirs /\ Once(r.d) /\ mem.free \subseteq r.m.free
        /\ Traded(mem, Holds(d), r.m, Holds(r.d))
        /\ Cut(d, r.d, newsz, sz)
    BY <1>2, <1>4, <1>5, <2>1, Drops
  <2> DEFINE z == IF newsz = 0 THEN sz ELSE newsz
             x == [proc[p] EXCEPT !.pgdir = r.d, !.sz = z]
             c == call[p]
             v == [a \in UPage |-> IF r.d.map[a] = 0 THEN Zero ELSE view[p][a]]
  <2>3. z \in 0..(KERNBASE - 1)
    BY <1>4, <1>5, <1>7, <1>9
  <2>4. x \in Slot /\ x.st = proc[p].st /\ x.up = proc[p].up /\ x.kstack = proc[p].kstack /\ x.pgdir = r.d /\ x.sz = z
    <3>1. x = SlotWith(proc[p], r.d, z)
      BY DEF SlotWith
    <3> HIDE DEF x, z
    <3>2. proc[p] \in Slot /\ r.d \in PageDirs
      BY <1>2, <2>2
    <3> QED  BY ONLY <2>3, <3>1, <3>2, SlotWithIs
  <2>6. proc' = [proc EXCEPT ![p] = x]
    BY <1>2, <1>9
  <2>7. v \in [UPage -> Int] /\ view' = [view EXCEPT ![p] = v]
    BY <1>2, <1>9 DEF Zero
  <2>8. \A b \in UPage : r.d.map[b] # 0 => v[b] = view[p][b]
    OBVIOUS
  <2>9. PGROUNDUP(newsz) <= PGROUNDUP(sz)
    BY <1>4, <1>5, <1>9, RoundUpGrows
  <2>10. Mapped(r.d, PGROUNDUP(newsz)) /\ \A b \in UPage : r.d.map[b] # 0 => r.d.map[b] = d.map[b]
    <3>1. PGROUNDUP(sz) <= PGROUNDUP(sz)
      BY <1>6
    <3> QED  BY <1>3, <1>4, <1>5, <1>6, <2>2, <2>9, <3>1, Trims
  <2>11. Mapped(r.d, PGROUNDUP(z)) \/ Mapped(r.d, 0)
    <3>1. CASE newsz = 0
      BY <2>10, <3>1, Kernbase
    <3>2. CASE newsz # 0
      BY <2>10, <3>2
    <3> QED  BY <3>1, <3>2
  <2> HIDE DEF x, v, z
  <2>12. Holding(r.m, r.d, v)
    <3>1. \A b \in UPage : r.d.map[b] # 0 => r.d.map[b] = d.map[b] /\ v[b] = view[p][b]
      BY <2>8, <2>10
    <3>2. r.m \in Mem /\ r.d \in PageDirs /\ Traded(mem, Holds(d), r.m, Holds(r.d))
      BY <2>2
    <3>3. mem \in Mem /\ d \in PageDirs /\ Holds(d) \cap mem.free = {} /\ Holding(mem, d, view[p])
      BY <1>2, <1>3, <1>4
    <3> QED  BY ONLY SMTT(30), <3>1, <3>2, <3>3, HoldingLess
  <2>13. c.pc = "user" /\ Once(c.new) /\ Holds(c.new) = {} /\ ~InFork(c) /\ c = UserMode /\ c.new = NoDir
    BY <1>3, UserIs
  <2>14. Extent(x, c) /\ Content(mem', x, c, v)
    BY <1>9, <2>4, <2>11, <2>12, <2>13 DEF Extent, Content
  <2>15. HasPages(x, c)
    BY <1>2, <1>3, <2>2, <2>4, <2>13 DEF HasPages
  <2>16. /\ mem'.free \cup Holds(x.pgdir) \cup Holds(c.new)
              = mem.free \cup Holds(proc[p].pgdir) \cup Holds(call[p].new)
         /\ Holds(x.pgdir) \cap Holds(c.new) = {} /\ Holds(x.pgdir) \cap mem'.free = {}
         /\ Holds(c.new) \cap mem'.free = {}
         /\ T \subseteq Holds(proc[p].pgdir) \cup Holds(call[p].new)
    BY <1>9, <2>2, <2>4, <2>13 DEF Traded, T, d
  <2>17. \A g \in Frames : g \notin mem.free /\ g \notin mem'.free /\ g \notin T => mem'.data[g] = mem.data[g]
    BY <1>9, <2>2 DEF Traded, Kept
  <2>18. c \in CallStates /\ call' = [call EXCEPT ![p] = c] /\ mem' \in Mem
    BY <1>2, <1>9, <2>2
  <2> HIDE DEF c
  <2> QED  BY ONLY Core, p \in VmProcs, <2>4, <2>6, <2>7, <2>13, <2>14, <2>15, <2>16, <2>17, <2>18, StepOne
<1> QED  BY <1>1, <1>8, <1>9 DEF newsz, sz, d

(* A turn of allocuvm for sbrk, its failure and its end. *)
LEMMA GrowPageKeeps ==
  ASSUME Core, NEW p \in VmProcs, GrowPage(p) PROVE Core'
<1> DEFINE b == call[p]
           d == proc[p].pgdir
           sz == proc[p].sz
           w == allocuvm(mem, d, b.a, sz, b.lim)
           T == {}
<1>1. /\ proc[p].st = "RUNNABLE" /\ b.pc = "grow"
      /\ IF b.a * PGSIZE >= b.lim
           THEN /\ proc' = [proc EXCEPT ![p].sz = b.lim]
                /\ call' = [call EXCEPT ![p] = UserMode]
                /\ mem' = mem /\ view' = view
           ELSE /\ mem' = w.m
                /\ proc' = [proc EXCEPT ![p].pgdir = w.d]
                /\ view' = IF w.ok THEN [view EXCEPT ![p][b.a] = Zero] ELSE view
                /\ IF w.ok THEN call' = [call EXCEPT ![p].a = @ + 1] ELSE call' = [call EXCEPT ![p] = UserMode]
  BY DEF GrowPage, Inside, BackToUser
<1>2. /\ mem \in Mem /\ proc[p] \in Slot /\ b \in CallStates /\ view[p] \in [UPage -> Int]
      /\ proc \in [VmProcs -> Slot] /\ call \in [VmProcs -> CallStates] /\ view \in [VmProcs -> [UPage -> Int]]
      /\ HasPages(proc[p], b) /\ Extent(proc[p], b) /\ Content(mem, proc[p], b, view[p])
      /\ Holds(d) \cap mem.free = {} /\ Once(d)
      /\ view = [view EXCEPT ![p] = view[p]]
  BY <1>1, CoreIs
<1>3. d \in PageDirs /\ sz \in 0..(KERNBASE - 1) /\ sz \in Nat
  BY <1>2, SlotIs
<1>4. b.a \in 0..UPAGES /\ b.a \in Nat /\ b.lim \in 0..(KERNBASE - 1) /\ b.lim \in Nat
  BY <1>2, InCallIs
<1>5. /\ b.new = NoDir /\ Mapped(d, b.a) /\ PGROUNDUP(sz) <= b.a /\ b.a <= PGROUNDUP(b.lim)
      /\ Holding(mem, d, view[p])
  BY <1>1, <1>2 DEF HasPages, Extent, Content
<1>6. Holds(b.new) = {}
  BY <1>5, Empty
<1>7. /\ PGROUNDUP(b.lim) \in Nat /\ PGROUNDUP(sz) \in Nat
      /\ (b.a * PGSIZE < b.lim <=> b.a < PGROUNDUP(b.lim))
  BY <1>3, <1>4, RoundUp
<1>8. b.a * PGSIZE \in Nat /\ KERNBASE \in Nat
  BY <1>4, Constants, Kernbase
<1>9. proc[p].kstack # 0
  BY <1>1, <1>2 DEF HasPages
<1>10. T = {}
  OBVIOUS
<1> HIDE DEF b, d, sz, T
<1>11. CASE b.a * PGSIZE >= b.lim
  <2> DEFINE x == [proc[p] EXCEPT !.pgdir = d, !.sz = b.lim]
             c == UserMode
             v == view[p]
  <2>1. proc' = [proc EXCEPT ![p] = x] /\ call' = [call EXCEPT ![p] = c] /\ mem' = mem
        /\ view' = [view EXCEPT ![p] = v]
    <3>1. proc' = [proc EXCEPT ![p].sz = b.lim] /\ call' = [call EXCEPT ![p] = UserMode] /\ mem' = mem /\ view' = view
      BY <1>1, <1>11
    <3>2. [proc[p] EXCEPT !.sz = b.lim] = x
      BY <1>2, SlotIs DEF d
    <3>3. proc' = [proc EXCEPT ![p] = [proc[p] EXCEPT !.sz = b.lim]]
      BY <1>2, <3>1
    <3> HIDE DEF x
    <3> QED  BY <1>2, <3>1, <3>2, <3>3
  <2>2. x \in Slot /\ x.st = proc[p].st /\ x.up = proc[p].up /\ x.kstack = proc[p].kstack /\ x.pgdir = d /\ x.sz = b.lim
    <3>1. x = SlotWith(proc[p], d, b.lim)
      BY DEF SlotWith
    <3> HIDE DEF x
    <3> QED  BY ONLY <1>2, <1>3, <1>4, <3>1, SlotWithIs
  <2> HIDE DEF x
  <2>3. c \in CallStates /\ c.pc = "user" /\ ~InFork(c) /\ Holds(c.new) = {} /\ Once(c.new) /\ c.new = NoDir /\ c = UserMode
    BY UserIs
  <2> HIDE DEF c
  <2>4. b.a = PGROUNDUP(b.lim)
    <3>1. ~(b.a * PGSIZE < b.lim)
      BY <1>4, <1>8, <1>11
    <3> QED  BY <1>4, <1>5, <1>7, <3>1
  <2>5. HasPages(x, c) /\ Extent(x, c) /\ Content(mem', x, c, v)
    <3>1. HasPages(x, c)
      BY <1>1, <1>2, <1>9, <2>2, <2>3 DEF HasPages
    <3>2. Extent(x, c)
      BY <1>5, <2>2, <2>3, <2>4 DEF Extent
    <3>3. Content(mem', x, c, v)
      BY <1>5, <2>1, <2>2, <2>3 DEF Content
    <3> QED  BY <3>1, <3>2, <3>3
  <2>6. /\ mem'.free \cup Holds(x.pgdir) \cup Holds(c.new)
             = mem.free \cup Holds(proc[p].pgdir) \cup Holds(call[p].new)
        /\ Holds(x.pgdir) \cap Holds(c.new) = {} /\ Holds(x.pgdir) \cap mem'.free = {}
        /\ Holds(c.new) \cap mem'.free = {}
        /\ T \subseteq Holds(proc[p].pgdir) \cup Holds(call[p].new)
    BY <1>2, <1>6, <1>10, <2>1, <2>2, <2>3 DEF d, b
  <2>7. \A g \in Frames : g \notin mem.free /\ g \notin mem'.free /\ g \notin T => mem'.data[g] = mem.data[g]
    BY <2>1
  <2>8. v \in [UPage -> Int] /\ mem' \in Mem
    BY <1>2, <2>1
  <2> HIDE DEF v
  <2> QED  BY ONLY Core, p \in VmProcs, <2>1, <2>2, <2>3, <2>5, <2>6, <2>7, <2>8, StepOne
<1>12. CASE ~(b.a * PGSIZE >= b.lim)
  <2>1. b.a * PGSIZE < b.lim
    BY <1>4, <1>8, <1>12
  <2>2. b.a \in UPage
    <3>1. b.a * PGSIZE < KERNBASE
      BY <1>4, <1>8, <2>1
    <3>2. b.a < UPAGES
      BY <1>4, <3>1, Kernbase
    <3> QED  BY <1>4, <3>2, Constants DEF UPage
  <2>3. d.map[b.a] = 0
    BY <1>4, <1>5, <2>2 DEF Mapped
  <2>4. w = allocuvm(mem, d, b.a, sz, b.lim)
    OBVIOUS
  <2> HIDE DEF w
  <2>5. /\ w.ok \in BOOLEAN /\ w.m \in Mem /\ w.d \in PageDirs /\ Once(w.d)
        /\ Traded(mem, Holds(d), w.m, Holds(w.d))
        /\ w.ok => Added(d, w.d, b.a) /\ w.m.data[w.d.map[b.a]] = Zero
        /\ ~w.ok => Cut(d, w.d, sz, b.lim)
    <3> DEFINE a == b.a
               lim == b.lim
    <3>1. /\ mem \in Mem /\ d \in PageDirs /\ Once(d) /\ Holds(d) \cap mem.free = {} /\ a \in UPage /\ d.map[a] = 0
          /\ sz \in Nat /\ lim \in Nat /\ w = allocuvm(mem, d, a, sz, lim)
      BY <1>2, <1>3, <1>4, <2>2, <2>3, <2>4
    <3> HIDE DEF a, lim
    <3>2. /\ w.ok \in BOOLEAN /\ w.m \in Mem /\ w.d \in PageDirs /\ Once(w.d)
          /\ Traded(mem, Holds(d), w.m, Holds(w.d))
          /\ w.ok => Added(d, w.d, a) /\ w.m.data[w.d.map[a]] = Zero
          /\ ~w.ok => Cut(d, w.d, sz, lim)
      BY ONLY <3>1, Grows
    <3> QED  BY <3>2 DEF a, lim
  <2> DEFINE x == [proc[p] EXCEPT !.pgdir = w.d, !.sz = sz]
  <2>6. mem' = w.m /\ mem' \in Mem /\ proc' = [proc EXCEPT ![p] = x]
    <3>1. mem' = w.m /\ proc' = [proc EXCEPT ![p].pgdir = w.d]
      BY <1>1, <1>12
    <3>2. [proc[p] EXCEPT !.pgdir = w.d] = x
      BY <1>2, SlotIs DEF sz
    <3>3. proc' = [proc EXCEPT ![p] = [proc[p] EXCEPT !.pgdir = w.d]]
      BY <1>2, <3>1
    <3> HIDE DEF x
    <3> QED  BY <2>5, <3>1, <3>2, <3>3
  <2>7. x \in Slot /\ x.st = proc[p].st /\ x.up = proc[p].up /\ x.kstack = proc[p].kstack /\ x.pgdir = w.d /\ x.sz = sz
    <3>1. x = SlotWith(proc[p], w.d, sz)
      BY DEF SlotWith
    <3>2. proc[p] \in Slot /\ w.d \in PageDirs /\ sz \in 0..(KERNBASE - 1)
      BY <1>2, <1>3, <2>5
    <3> HIDE DEF x
    <3> QED  BY ONLY <3>1, <3>2, SlotWithIs
  <2> HIDE DEF x
  <2>8. \A g \in Frames : g \notin mem.free /\ g \notin mem'.free /\ g \notin T => mem'.data[g] = mem.data[g]
    BY <2>5, <2>6 DEF Traded, Kept
  <2>9. ASSUME NEW c, Holds(c.new) = {}
        PROVE  /\ mem'.free \cup Holds(x.pgdir) \cup Holds(c.new)
                    = mem.free \cup Holds(proc[p].pgdir) \cup Holds(call[p].new)
               /\ Holds(x.pgdir) \cap Holds(c.new) = {} /\ Holds(x.pgdir) \cap mem'.free = {}
               /\ Holds(c.new) \cap mem'.free = {}
               /\ T \subseteq Holds(proc[p].pgdir) \cup Holds(call[p].new)
    BY <1>6, <1>10, <2>5, <2>6, <2>7, <2>9 DEF Traded, d, b
  <2>10. CASE w.ok
    <3> DEFINE c == [b EXCEPT !.a = b.a + 1]
               v == [view[p] EXCEPT ![b.a] = Zero]
    <3>1. b.a + 1 \in 0..UPAGES /\ b.a + 1 <= PGROUNDUP(b.lim) /\ b.a + 1 \in Nat
      BY <1>4, <1>7, <2>1, <2>2, Constants DEF UPage
    <3>2. c \in CallStates /\ c.pc = b.pc /\ c.new = b.new /\ c.a = b.a + 1 /\ c.lim = b.lim
      <4>1. c = CallOf(b.pc, b.new, b.a + 1, b.lim, b.seg, b.child, b.prog)
        <5>1. b = CallOf(b.pc, b.new, b.a, b.lim, b.seg, b.child, b.prog)
          BY <1>2, CallParts
        <5> QED  BY <5>1 DEF CallOf
      <4> HIDE DEF c
      <4>2. Fields(b)
        BY <1>2, CallParts
      <4> QED  BY ONLY <3>1, <4>1, <4>2, CallOfIs DEF Fields
    <3>3. call' = [call EXCEPT ![p] = c]
      <4>1. call' = [call EXCEPT ![p].a = @ + 1]
        BY <1>1, <1>12, <2>10
      <4> QED  BY <1>2, <4>1 DEF b
    <3>4. v \in [UPage -> Int] /\ view' = [view EXCEPT ![p] = v] /\ v[b.a] = Zero
          /\ \A g \in UPage \ {b.a} : v[g] = view[p][g]
      <4>1. view' = [view EXCEPT ![p][b.a] = Zero]
        BY <1>1, <1>12, <2>10
      <4> QED  BY <1>2, <2>2, <4>1 DEF Zero
    <3> HIDE DEF c, v
    <3>5. Added(d, w.d, b.a) /\ w.m.data[w.d.map[b.a]] = Zero
      BY <2>5, <2>10
    <3>6. Mapped(w.d, b.a + 1)
      BY ONLY <1>3, <1>5, <2>2, <3>5, Adds
    <3>7. Holding(w.m, w.d, v)
      <4>1. mem \in Mem /\ w.m \in Mem /\ d \in PageDirs /\ w.d \in PageDirs
        BY <1>2, <1>3, <2>5
      <4>2. Traded(mem, Holds(d), w.m, Holds(w.d)) /\ Holds(d) \cap mem.free = {} /\ Holding(mem, d, view[p])
        BY <1>2, <1>5, <2>5
      <4>3. w.m.data[w.d.map[b.a]] = v[b.a]
        BY <3>4, <3>5
      <4>4. Added(d, w.d, b.a) /\ \A g \in UPage \ {b.a} : v[g] = view[p][g]
        BY <3>4, <3>5
      <4> DEFINE a == b.a
                 n == w.m
                 f == w.d
                 u == view[p]
      <4>5. /\ mem \in Mem /\ n \in Mem /\ d \in PageDirs /\ f \in PageDirs /\ a \in UPage
            /\ Traded(mem, Holds(d), n, Holds(f)) /\ Holds(d) \cap mem.free = {} /\ Holding(mem, d, u)
            /\ n.data[f.map[a]] = v[a] /\ Added(d, f, a) /\ \A g \in UPage \ {a} : v[g] = u[g]
        BY <2>2, <4>1, <4>2, <4>3, <4>4
      <4> HIDE DEF a, n, f, u
      <4>6. Holding(n, f, v)
        BY ONLY <4>5, HoldingMore
      <4> QED  BY <4>6 DEF n, f
    <3>8. c.pc = "grow" /\ ~InFork(c) /\ Holds(c.new) = {} /\ Once(c.new) /\ c.new = NoDir
      BY <1>1, <1>5, <1>6, <3>2, Empty DEF InFork
    <3>9. HasPages(x, c) /\ Extent(x, c) /\ Content(mem', x, c, v)
      <4>1. HasPages(x, c)
        BY <1>1, <1>9, <2>5, <2>7, <3>8 DEF HasPages
      <4>2. Extent(x, c)
        <5>1. PGROUNDUP(sz) <= b.a + 1
          BY <1>4, <1>5, <1>7
        <5> QED  BY <2>7, <3>1, <3>2, <3>6, <3>8, <5>1 DEF Extent
      <4>3. Content(mem', x, c, v)
        BY <2>6, <2>7, <3>7, <3>8 DEF Content
      <4> QED  BY <4>1, <4>2, <4>3
    <3>10. /\ mem'.free \cup Holds(x.pgdir) \cup Holds(c.new)
                    = mem.free \cup Holds(proc[p].pgdir) \cup Holds(call[p].new)
               /\ Holds(x.pgdir) \cap Holds(c.new) = {} /\ Holds(x.pgdir) \cap mem'.free = {}
               /\ Holds(c.new) \cap mem'.free = {}
               /\ T \subseteq Holds(proc[p].pgdir) \cup Holds(call[p].new)
      BY <2>9, <3>8
    <3> QED  BY ONLY Core, p \in VmProcs, <2>6, <2>7, <2>8, <3>2, <3>3, <3>4, <3>8, <3>9, <3>10, StepOne
  <2>11. CASE ~w.ok
    <3> DEFINE c == UserMode
               v == view[p]
    <3>1. call' = [call EXCEPT ![p] = c] /\ view' = [view EXCEPT ![p] = v] /\ v \in [UPage -> Int]
      BY <1>1, <1>2, <1>12, <2>11
    <3>2. c \in CallStates /\ c.pc = "user" /\ ~InFork(c) /\ Holds(c.new) = {} /\ Once(c.new) /\ c.new = NoDir /\ c = UserMode
      BY UserIs
    <3> HIDE DEF c
    <3>3. Mapped(w.d, PGROUNDUP(sz)) /\ \A g \in UPage : w.d.map[g] # 0 => w.d.map[g] = d.map[g]
      <4>1. Cut(d, w.d, sz, b.lim)
        BY <2>5, <2>11
      <4>2. w.d \in PageDirs
        BY <2>5
      <4> QED  BY <1>3, <1>4, <1>5, <4>1, <4>2, Trims
    <3>4. Holding(w.m, w.d, v)
      <4>1. mem \in Mem /\ w.m \in Mem /\ d \in PageDirs /\ w.d \in PageDirs
        BY <1>2, <1>3, <2>5
      <4>2. Traded(mem, Holds(d), w.m, Holds(w.d)) /\ Holds(d) \cap mem.free = {} /\ Holding(mem, d, view[p])
        BY <1>2, <1>5, <2>5
      <4>3. \A g \in UPage : w.d.map[g] # 0 => w.d.map[g] = d.map[g] /\ v[g] = view[p][g]
        BY <3>3
      <4> HIDE DEF v
      <4> QED  BY ONLY <4>1, <4>2, <4>3, HoldingLess
    <3>5. HasPages(x, c) /\ Extent(x, c) /\ Content(mem', x, c, v)
      <4>1. HasPages(x, c)
        BY <1>1, <1>9, <2>5, <2>7, <3>2 DEF HasPages
      <4>2. Extent(x, c)
        BY <2>7, <3>2, <3>3 DEF Extent
      <4>3. Content(mem', x, c, v)
        BY <2>6, <2>7, <3>2, <3>4 DEF Content
      <4> QED  BY <4>1, <4>2, <4>3
    <3>6. /\ mem'.free \cup Holds(x.pgdir) \cup Holds(c.new)
                    = mem.free \cup Holds(proc[p].pgdir) \cup Holds(call[p].new)
               /\ Holds(x.pgdir) \cap Holds(c.new) = {} /\ Holds(x.pgdir) \cap mem'.free = {}
               /\ Holds(c.new) \cap mem'.free = {}
               /\ T \subseteq Holds(proc[p].pgdir) \cup Holds(call[p].new)
      BY <2>9, <3>2
    <3> HIDE DEF v
    <3> QED  BY ONLY Core, p \in VmProcs, <2>6, <2>7, <2>8, <3>1, <3>2, <3>5, <3>6, StepOne
  <2> QED  BY <2>5, <2>10, <2>11
<1> QED  BY <1>11, <1>12

(* The fields of a slot that is not used. *)
LEMMA UnusedIs ==
  /\ NoProc \in Slot /\ NoProc.st = "UNUSED" /\ NoProc.up = 0 /\ NoProc.kstack = 0
  /\ NoProc.pgdir = NoDir /\ NoProc.sz = 0
<1>1. NoProc = [st |-> "UNUSED", up |-> 0, kstack |-> 0, pgdir |-> NoDir, sz |-> 0]
  BY DEF NoProc
<1>2. 0 \in 0..NSLOT /\ 0 \in 0..NFRAME /\ 0 \in 0..(KERNBASE - 1) /\ NoDir \in PageDirs
  BY Constants, Kernbase, Empty
<1> QED  BY <1>1, <1>2 DEF Slot

(* A slot that allocproc has given a stack. *)
StackSlot(f) == [NoProc EXCEPT !.st = "EMBRYO", !.kstack = f]

(* What StackSlot makes. *)
LEMMA StackSlotIs ==
  ASSUME NEW f \in 0..NFRAME
  PROVE  /\ StackSlot(f) \in Slot /\ StackSlot(f).st = "EMBRYO" /\ StackSlot(f).up = 0
         /\ StackSlot(f).kstack = f /\ StackSlot(f).pgdir = NoDir /\ StackSlot(f).sz = 0
<1> SUFFICES ASSUME NEW y, y = [NoProc EXCEPT !.st = "EMBRYO", !.kstack = f]
             PROVE  /\ y \in Slot /\ y.st = "EMBRYO" /\ y.up = 0 /\ y.kstack = f /\ y.pgdir = NoDir /\ y.sz = 0
  BY DEF StackSlot
<1>1. NoProc = [st |-> "UNUSED", up |-> 0, kstack |-> 0, pgdir |-> NoDir, sz |-> 0]
  BY DEF NoProc
<1>2. y = [st |-> "EMBRYO", up |-> 0, kstack |-> f, pgdir |-> NoDir, sz |-> 0]
  BY <1>1
<1>3. 0 \in 0..NSLOT /\ 0 \in 0..(KERNBASE - 1) /\ NoDir \in PageDirs
  BY Constants, Kernbase, Empty
<1>4. y.st = "EMBRYO" /\ y.up = 0 /\ y.kstack = f /\ y.pgdir = NoDir /\ y.sz = 0
  BY ONLY <1>2
<1>5. y \in Slot
  BY ONLY <1>2, <1>3, f \in 0..NFRAME DEF Slot
<1> QED  BY ONLY <1>4, <1>5

(* A slot that fork has filled. *)
FullSlot(x, p, d, z) == [x EXCEPT !.st = "RUNNABLE", !.up = p, !.pgdir = d, !.sz = z]

(* What FullSlot makes. *)
LEMMA FullSlotIs ==
  ASSUME NEW x \in Slot, NEW p \in 0..NSLOT, NEW d \in PageDirs, NEW z \in 0..(KERNBASE - 1)
  PROVE  /\ FullSlot(x, p, d, z) \in Slot /\ FullSlot(x, p, d, z).st = "RUNNABLE"
         /\ FullSlot(x, p, d, z).kstack = x.kstack /\ FullSlot(x, p, d, z).pgdir = d
         /\ FullSlot(x, p, d, z).sz = z
<1> SUFFICES ASSUME NEW y, y = [x EXCEPT !.st = "RUNNABLE", !.up = p, !.pgdir = d, !.sz = z]
             PROVE  /\ y \in Slot /\ y.st = "RUNNABLE" /\ y.kstack = x.kstack /\ y.pgdir = d /\ y.sz = z
  BY DEF FullSlot
<1>1. /\ x.kstack \in 0..NFRAME
      /\ x = [st |-> x.st, up |-> x.up, kstack |-> x.kstack, pgdir |-> x.pgdir, sz |-> x.sz]
  BY SlotIs
<1>2. y = [st |-> "RUNNABLE", up |-> p, kstack |-> x.kstack, pgdir |-> d, sz |-> z]
  BY <1>1
<1> QED  BY <1>1, <1>2 DEF Slot

(* After a step too a directory holds no free page. *)
LEMMA ApartNext ==
  ASSUME Divided', NEW p \in VmProcs
  PROVE  Holds(proc'[p].pgdir) \cap mem'.free = {} /\ Holds(call'[p].new) \cap mem'.free = {}
<1>1. \A x \in Holders : Owners'[x] \cap mem'.free = {}
  <2>1. Holders' = Holders
    BY DEF Holders, VmProcs, Kinds
  <2> QED  BY <2>1 DEF Divided, Parts
<1>2. <<p, "pgdir">> \in Holders /\ <<p, "new">> \in Holders
  BY HoldersAre
<1>3. Owners'[<<p, "pgdir">>] = Holds(proc'[p].pgdir) /\ Owners'[<<p, "new">>] = Holds(call'[p].new)
  BY OwnersAreNext
<1> QED  BY <1>1, <1>2, <1>3

(* Memory that p keeps holds what it held. *)
LEMMA StillHolding ==
  ASSUME Core, Divided', mem' \in Mem, Kept(mem, mem'), NEW p \in VmProcs, NEW v,
         proc'[p].pgdir = proc[p].pgdir, Holding(mem, proc[p].pgdir, v)
  PROVE  Holding(mem', proc[p].pgdir, v)
<1> DEFINE d == proc[p].pgdir
           T == {}
<1>1. mem \in Mem /\ proc[p] \in Slot /\ Holds(d) \cap mem.free = {}
  BY CoreIs
<1>2. d \in PageDirs
  BY <1>1, SlotIs
<1>3. Holds(d) \cap mem'.free = {}
  BY ApartNext
<1>4. Holds(d) \cap T = {}
  OBVIOUS
<1>5. \A g \in Frames : g \notin mem.free /\ g \notin mem'.free /\ g \notin T => mem'.data[g] = mem.data[g]
  BY DEF Kept
<1>6. Holding(mem, d, v)
  OBVIOUS
<1> HIDE DEF d, T
<1>7. Holding(mem', d, v)
  BY ONLY <1>1, <1>2, <1>3, <1>4, <1>5, <1>6, mem' \in Mem, HoldingKept
<1> QED  BY <1>7 DEF d

(* fork takes a slot and a stack. *)
LEMMA ForkKeeps ==
  ASSUME Core, NEW p \in VmProcs, NEW q \in VmProcs, fork(p, q) PROVE Core'
<1> DEFINE f == Page(mem)
           d == proc[p].pgdir
           y == [NoProc EXCEPT !.st = "EMBRYO", !.kstack = f]
           c == [UserMode EXCEPT !.pc = "forkvm", !.child = q]
           v == view[q]
<1>1. /\ CanRun(p) /\ proc[q].st = "UNUSED" /\ mem.free # {} /\ mem' = kalloc(mem)
      /\ proc' = [proc EXCEPT ![q] = y] /\ call' = [call EXCEPT ![p] = c] /\ view' = view
  BY DEF fork
<1>2. /\ mem \in Mem /\ Divided /\ Filling
      /\ proc \in [VmProcs -> Slot] /\ call \in [VmProcs -> CallStates] /\ view \in [VmProcs -> [UPage -> Int]]
      /\ HasPages(proc[p], call[p]) /\ HasPages(proc[q], call[q])
      /\ view = [view EXCEPT ![q] = view[q]] /\ view[q] \in [UPage -> Int]
  BY CoreIs
<1>3. /\ proc[p].st = "RUNNABLE" /\ call[p] = UserMode /\ Mapped(d, PGROUNDUP(proc[p].sz))
      /\ Holding(mem, d, view[p])
  BY <1>1, Runs
<1>4. q # p /\ proc[q] = NoProc /\ call[q] = UserMode
  BY <1>1, <1>2, <1>3 DEF HasPages
<1>5. /\ f \in mem.free /\ f \in Frames /\ mem' \in Mem /\ mem'.free = mem.free \ {f} /\ mem'.data = mem.data
  BY <1>1, <1>2, Takes
<1>6. f \in 0..NFRAME /\ f # 0
  BY <1>5, Constants DEF Frames
<1> HIDE DEF f
<1>7. y \in Slot /\ y.st = "EMBRYO" /\ y.up = 0 /\ y.kstack = f /\ y.pgdir = NoDir /\ y.sz = 0
      /\ y = [NoProc EXCEPT !.st = "EMBRYO", !.kstack = f]
  <2>1. y = StackSlot(f)
    BY DEF StackSlot
  <2>2. y = [NoProc EXCEPT !.st = "EMBRYO", !.kstack = f]
    OBVIOUS
  <2> HIDE DEF y
  <2> QED  BY ONLY <1>6, <2>1, <2>2, StackSlotIs
<1>8. c \in CallStates /\ c.pc = "forkvm" /\ c.new = NoDir /\ c.a = 0 /\ c.child = q
  <2> DEFINE k == "forkvm"
  <2>1. c = CallOf(k, UserMode.new, UserMode.a, UserMode.lim, UserMode.seg, q, UserMode.prog)
    <3>1. UserMode = CallOf(UserMode.pc, UserMode.new, UserMode.a, UserMode.lim, UserMode.seg, UserMode.child, UserMode.prog)
      BY UserIs, CallParts
    <3>2. ASSUME NEW e, e = c PROVE e = CallOf(k, UserMode.new, UserMode.a, UserMode.lim, UserMode.seg, q, UserMode.prog)
      BY <3>1, <3>2 DEF CallOf
    <3> QED  BY <3>2
  <2>2. k \in {"user", "grow", "forkvm", "copy", "load"} /\ UserMode \in CallStates
    BY UserIs
  <2>3. q \in 0..NSLOT
    BY Constants DEF VmProcs
  <2> HIDE DEF c, k
  <2>5. Fields(UserMode)
    BY <2>2, CallParts
  <2>4. c \in CallStates /\ c.pc = k /\ c.new = UserMode.new /\ c.a = UserMode.a /\ c.child = q
    BY ONLY <2>1, <2>2, <2>3, <2>5, CallOfIs DEF Fields
  <2> QED  BY <2>4, UserIs DEF k
<1> HIDE DEF y, c
<1>9. /\ proc'[q] = y /\ call'[p] = c /\ proc'[p] = proc[p] /\ call'[q] = UserMode
      /\ \A r \in VmProcs \ {q} : proc'[r] = proc[r]
      /\ \A r \in VmProcs \ {p} : call'[r] = call[r]
  BY <1>1, <1>2, <1>4
<1>10. Divided'
  <2> DEFINE h == <<q, "kstack">>
             S == {h}
  <2>1. ASSUME NEW r \in VmProcs
        PROVE  /\ <<r, "pgdir">> \notin S => proc'[r].pgdir = proc[r].pgdir
               /\ <<r, "new">> \notin S => call'[r].new = call[r].new
               /\ <<r, "kstack">> \notin S => proc'[r].kstack = proc[r].kstack
    <3>1. proc'[r].pgdir = proc[r].pgdir
      BY <1>4, <1>7, <1>9, UnusedIs
    <3>2. call'[r].new = call[r].new
      BY <1>3, <1>8, <1>9, UserIs
    <3>3. r # q => proc'[r].kstack = proc[r].kstack
      BY <1>9
    <3> QED  BY <3>1, <3>2, <3>3
  <2>2. \A z \in Holders \ S : Owners'[z] = Owners[z]
    <3> HIDE DEF S, h
    <3> QED  BY <2>1, Untouched
  <2>3. h \in Holders /\ Owners[h] = {proc[q].kstack} \ {0} /\ Owners'[h] = {proc'[q].kstack} \ {0}
    BY HoldersAre, OwnersAre, OwnersAreNext
  <2>4. Owners[h] = {} /\ Owners'[h] = {f}
    BY <1>4, <1>6, <1>7, <1>9, <2>3, UnusedIs
  <2>5. mem'.free \cup Owners'[h] = mem.free \cup Owners[h] /\ Owners'[h] \cap mem'.free = {}
    BY <1>5, <2>4
  <2>6. S = {h}
    OBVIOUS
  <2> HIDE DEF h, S
  <2> QED  BY <1>2, <2>2, <2>3, <2>5, <2>6, Trade1
<1>11. Kept(mem, mem')
  BY <1>5 DEF Kept
<1>12. Filling'
  <2>1. VmProcs' = VmProcs
    BY DEF VmProcs
  <2>2. ASSUME NEW r \in VmProcs \ {p}, InFork(call'[r])
        PROVE  /\ call'[r].child \in VmProcs /\ proc'[call'[r].child].st = "EMBRYO" /\ call'[r].child # q
               /\ call'[r] = call[r] /\ InFork(call[r])
    <3>1. call'[r] = call[r] /\ InFork(call[r])
      BY <1>9, <2>2
    <3>2. call[r].child \in VmProcs /\ proc[call[r].child].st = "EMBRYO"
      BY <1>2, <3>1 DEF Filling
    <3> QED  BY <1>1, <1>9, <3>1, <3>2
  <2>3. \A r, s \in VmProcs \ {p} : r # s /\ InFork(call'[r]) /\ InFork(call'[s]) => call'[r].child # call'[s].child
    BY <1>2, <2>2 DEF Filling
  <2>4. call'[p].child = q /\ proc'[q].st = "EMBRYO"
    BY <1>7, <1>8, <1>9
  <2> QED  BY <2>1, <2>2, <2>3, <2>4 DEF Filling
<1>13. HasPages(y, call[q])
  BY <1>4, <1>6, <1>7, Empty, UserIs DEF HasPages
<1>14. HasPages(proc[p], c)
  BY <1>2, <1>3, <1>8, Empty DEF HasPages
<1>15. Extent(proc[p], c)
  BY <1>3, <1>8 DEF Extent
<1>16. Content(mem', proc[p], c, view[p])
  <2>1. Holding(mem', d, view[p])
    BY <1>3, <1>5, <1>9, <1>10, <1>11, StillHolding
  <2> QED  BY <1>8, <2>1 DEF Content
<1>17. y.st # "RUNNABLE"
  BY <1>7
<1>18. v \in [UPage -> Int] /\ view' = [view EXCEPT ![q] = v]
  BY <1>1, <1>2
<1>19. mem' \in Mem /\ proc' = [proc EXCEPT ![q] = y] /\ call' = [call EXCEPT ![p] = c]
  BY <1>1, <1>5
<1> HIDE DEF v
<1> QED  BY ONLY Core, p \in VmProcs, q \in VmProcs, <1>4, <1>7, <1>8, <1>10, <1>11, <1>12, <1>13, <1>14,
            <1>15, <1>16, <1>17, <1>18, <1>19, StepTwo

(* The slot that p fills: no one else fills it, and it has its stack only. *)
LEMMA Child ==
  ASSUME Core, NEW p \in VmProcs, proc[p].st = "RUNNABLE", InFork(call[p])
  PROVE  LET q == call[p].child
         IN  /\ q \in VmProcs /\ q # p /\ proc[q].st = "EMBRYO" /\ call[q] = UserMode
             /\ proc[q].kstack # 0 /\ proc[q].kstack \in Frames /\ proc[q].pgdir = NoDir
             /\ Holds(proc[q].pgdir) = {}
             /\ proc[q].kstack \notin mem.free
             /\ proc[q].kstack \notin Holds(call[p].new) /\ proc[q].kstack \notin Holds(proc[p].pgdir)
<1> DEFINE q == call[p].child
<1>1. q \in VmProcs /\ proc[q].st = "EMBRYO"
  BY CoreIs DEF Filling
<1> HIDE DEF q
<1>2. HasPages(proc[q], call[q]) /\ proc[q] \in Slot /\ Divided
  BY <1>1, CoreIs
<1>3. proc[q].kstack # 0 /\ call[q] = UserMode /\ q # p
  BY <1>1, <1>2 DEF HasPages
<1>4. proc[q].kstack \in 0..NFRAME
  BY <1>2, SlotIs
<1>5. proc[q].kstack \in Frames
  BY <1>3, <1>4, Constants DEF Frames
<1>6. proc[q].pgdir = NoDir
  <2>1. proc[q] = StackSlot(proc[q].kstack)
    BY <1>1, <1>2 DEF HasPages, StackSlot
  <2>2. StackSlot(proc[q].kstack).pgdir = NoDir
    BY <1>4, StackSlotIs
  <2> QED  BY <2>1, <2>2
<1>7. Holds(proc[q].pgdir) = {}
  BY <1>6, Empty
<1>8. /\ ({proc[q].kstack} \ {0}) \cap mem.free = {}
      /\ ({proc[q].kstack} \ {0}) \cap Holds(call[p].new) = {}
  BY <1>1, <1>2, Apart
<1>9. ({proc[q].kstack} \ {0}) \cap Holds(proc[p].pgdir) = {}
  <2>1. /\ Owners[<<p, "pgdir">>] = Holds(proc[p].pgdir) /\ Owners[<<q, "kstack">>] = {proc[q].kstack} \ {0}
        /\ <<p, "pgdir">> \in Holders /\ <<q, "kstack">> \in Holders
    BY <1>1, OwnersAre, HoldersAre
  <2>2. <<p, "pgdir">> # <<q, "kstack">>
    OBVIOUS
  <2> QED  BY <1>2, <2>1, <2>2 DEF Divided, Parts
<1> QED  BY <1>1, <1>3, <1>5, <1>6, <1>7, <1>8, <1>9 DEF q

(* When p stops filling its slot the others go on with theirs. *)
LEMMA StopsFilling ==
  ASSUME Core, NEW p \in VmProcs, InFork(call[p]), ~InFork(call'[p]),
         \A r \in VmProcs \ {p} : call'[r] = call[r],
         \A r \in VmProcs \ {call[p].child} : proc'[r] = proc[r]
  PROVE  Filling'
<1>1. Filling
  BY CoreIs
<1>2. ASSUME NEW r \in VmProcs, InFork(call'[r])
      PROVE  InFork(call[r]) /\ call'[r].child = call[r].child /\ proc'[call[r].child].st = "EMBRYO"
  <2>1. r # p /\ call'[r] = call[r] /\ InFork(call[r])
    BY <1>2
  <2>2. call[r].child \in VmProcs /\ proc[call[r].child].st = "EMBRYO" /\ call[r].child # call[p].child
    BY <1>1, <2>1 DEF Filling
  <2> QED  BY <2>1, <2>2
<1> QED  BY <1>1, <1>2, FillingKept

(* fork gives the slot and the stack back, with the pages S of the copy. *)
LEMMA NoChildKeeps ==
  ASSUME Core, NEW p \in VmProcs, proc[p].st = "RUNNABLE", InFork(call[p]),
         NEW m \in Mem, m.free = mem.free \cup Holds(call[p].new), Kept(mem, m),
         NoChild(m, call[p].child), BackToUser(p), view' = view
  PROVE  Core'
<1> DEFINE q == call[p].child
           y == NoProc
           c == UserMode
           v == view[q]
           f == proc[q].kstack
<1>1. /\ q \in VmProcs /\ q # p /\ proc[q].st = "EMBRYO" /\ call[q] = UserMode
      /\ f # 0 /\ f \in Frames /\ proc[q].pgdir = NoDir /\ Holds(proc[q].pgdir) = {}
      /\ f \notin mem.free /\ f \notin Holds(call[p].new) /\ f \notin Holds(proc[p].pgdir)
  BY Child
<1>2. mem' = kfree(m, f) /\ proc' = [proc EXCEPT ![q] = y] /\ call' = [call EXCEPT ![p] = c]
  BY DEF NoChild, BackToUser
<1>3. /\ mem \in Mem /\ Divided /\ HasPages(proc[p], call[p])
      /\ proc \in [VmProcs -> Slot] /\ call \in [VmProcs -> CallStates] /\ view \in [VmProcs -> [UPage -> Int]]
      /\ Extent(proc[p], call[p]) /\ Content(mem, proc[p], call[p], view[p])
      /\ Holds(call[p].new) \cap mem.free = {}
  BY CoreIs
<1>4. v \in [UPage -> Int] /\ view' = [view EXCEPT ![q] = v]
  BY <1>1, <1>3
<1>5. mem' \in Mem /\ mem'.free = m.free \cup {f} /\ \A g \in Frames \ {f} : mem'.data[g] = m.data[g]
  BY <1>1, <1>2, FreesOne
<1>6. y \in Slot /\ y.st = "UNUSED" /\ y.kstack = 0 /\ y.pgdir = NoDir /\ y = NoProc
  BY UnusedIs
<1>7. c \in CallStates /\ c.pc = "user" /\ c.new = NoDir /\ Holds(c.new) = {} /\ ~InFork(c) /\ Once(c.new) /\ c = UserMode
  BY UserIs
<1>8. q = call[p].child
  OBVIOUS
<1> HIDE DEF y, c, v, q, f
<1>9. /\ proc'[q] = y /\ call'[p] = c /\ proc'[p] = proc[p] /\ call'[q] = UserMode
      /\ \A r \in VmProcs \ {q} : proc'[r] = proc[r]
      /\ \A r \in VmProcs \ {p} : call'[r] = call[r]
  BY <1>1, <1>2, <1>3
<1>10. Divided'
  <2> DEFINE h == <<q, "kstack">>
             e == <<p, "new">>
             S == {h, e}
  <2>1. ASSUME NEW r \in VmProcs
        PROVE  /\ <<r, "pgdir">> \notin S => proc'[r].pgdir = proc[r].pgdir
               /\ <<r, "new">> \notin S => call'[r].new = call[r].new
               /\ <<r, "kstack">> \notin S => proc'[r].kstack = proc[r].kstack
    <3>1. proc'[r].pgdir = proc[r].pgdir
      BY <1>1, <1>6, <1>9
    <3>2. r # p => call'[r].new = call[r].new
      BY <1>9
    <3>3. r # q => proc'[r].kstack = proc[r].kstack
      BY <1>9
    <3> QED  BY <3>1, <3>2, <3>3
  <2>2. \A z \in Holders \ S : Owners'[z] = Owners[z]
    <3> HIDE DEF S, h, e
    <3> QED  BY <2>1, Untouched
  <2>3. /\ h \in Holders /\ Owners[h] = {proc[q].kstack} \ {0} /\ Owners'[h] = {proc'[q].kstack} \ {0}
        /\ e \in Holders /\ Owners[e] = Holds(call[p].new) /\ Owners'[e] = Holds(call'[p].new) /\ h # e
    BY <1>1, HoldersAre, OwnersAre, OwnersAreNext
  <2>4. Owners[h] = {f} /\ Owners'[h] = {} /\ Owners'[e] = {}
    BY <1>1, <1>6, <1>7, <1>9, <2>3 DEF f
  <2>5. /\ mem'.free \cup Owners'[h] \cup Owners'[e] = mem.free \cup Owners[h] \cup Owners[e]
        /\ Owners'[h] \cap mem'.free = {} /\ Owners'[e] \cap mem'.free = {} /\ Owners'[h] \cap Owners'[e] = {}
    BY <1>5, <2>3, <2>4
  <2>6. S = {h, e}
    OBVIOUS
  <2> HIDE DEF h, e, S
  <2> QED  BY <1>3, <2>2, <2>3, <2>5, <2>6, Trade2
<1>11. Kept(mem, mem')
  BY <1>5 DEF Kept
<1>12. Filling'
  BY <1>7, <1>8, <1>9, StopsFilling
<1>13. HasPages(y, call[q])
  BY <1>1, <1>6, Empty, UserIs DEF HasPages
<1>14. HasPages(proc[p], c)
  BY <1>3, <1>7, Empty DEF HasPages
<1>15. Extent(proc[p], c)
  BY <1>3, <1>7 DEF Extent, InFork
<1>16. Content(mem', proc[p], c, view[p])
  <2>1. Holding(mem, proc[p].pgdir, view[p])
    BY <1>3 DEF Content
  <2>2. Holding(mem', proc[p].pgdir, view[p])
    BY <1>5, <1>9, <1>10, <1>11, <2>1, StillHolding
  <2> QED  BY <1>7, <2>2 DEF Content
<1>17. y.st # "RUNNABLE"
  BY <1>6
<1> QED  BY ONLY Core, p \in VmProcs, <1>1, <1>2, <1>4, <1>5, <1>6, <1>7, <1>10, <1>11, <1>12, <1>13, <1>14,
            <1>15, <1>16, <1>17, StepTwo

(* fork makes the directory of the child, or gives its slot back. *)
LEMMA ForkVmKeeps ==
  ASSUME Core, NEW p \in VmProcs, ForkVm(p) PROVE Core'
<1> DEFINE b == call[p]
           d == proc[p].pgdir
           k == setupkvm(mem)
           T == {}
<1>1. /\ proc[p].st = "RUNNABLE" /\ b.pc = "forkvm" /\ view' = view
      /\ IF k.ok THEN /\ mem' = k.m
                      /\ call' = [call EXCEPT ![p].pc = "copy", ![p].new = k.d]
                      /\ proc' = proc
                 ELSE NoChild(k.m, b.child) /\ BackToUser(p)
  BY DEF ForkVm, Inside
<1>2. /\ mem \in Mem /\ proc[p] \in Slot /\ b \in CallStates /\ view[p] \in [UPage -> Int]
      /\ proc \in [VmProcs -> Slot] /\ call \in [VmProcs -> CallStates] /\ view \in [VmProcs -> [UPage -> Int]]
      /\ HasPages(proc[p], b) /\ Extent(proc[p], b) /\ Content(mem, proc[p], b, view[p])
      /\ Holds(d) \cap mem.free = {} /\ Once(d)
      /\ proc = [proc EXCEPT ![p] = proc[p]] /\ view = [view EXCEPT ![p] = view[p]]
  BY <1>1, CoreIs
<1>3. k = setupkvm(mem)
  OBVIOUS
<1> HIDE DEF k
<1>4. /\ k.ok \in BOOLEAN /\ k.m \in Mem /\ Kept(mem, k.m)
      /\ ~k.ok => k.m.free = mem.free
      /\ k.ok => /\ k.d \in PageDirs /\ Once(k.d) /\ (\A a \in UPage : k.d.map[a] = 0)
                 /\ Traded(mem, {}, k.m, Holds(k.d))
  BY <1>2, <1>3, SetsUp
<1>5. b.new = NoDir /\ Holds(b.new) = {} /\ InFork(b)
  BY <1>1, <1>2, Empty DEF HasPages, InFork
<1>6. CASE ~k.ok
  <2>1. k.m.free = mem.free \cup Holds(call[p].new)
    BY <1>4, <1>5, <1>6
  <2>2. NoChild(k.m, call[p].child) /\ BackToUser(p) /\ view' = view /\ proc[p].st = "RUNNABLE" /\ InFork(call[p])
    BY <1>1, <1>5, <1>6
  <2>3. k.m \in Mem /\ Kept(mem, k.m)
    BY <1>4
  <2> QED  BY ONLY Core, p \in VmProcs, <2>1, <2>2, <2>3, NoChildKeeps
<1>7. CASE k.ok
  <2> DEFINE x == proc[p]
             kk == "copy"
             c == [b EXCEPT !.pc = kk, !.new = k.d]
             v == view[p]
  <2>1. /\ mem' = k.m /\ mem' \in Mem /\ proc' = [proc EXCEPT ![p] = x] /\ call' = [call EXCEPT ![p] = c]
        /\ view' = [view EXCEPT ![p] = v] /\ v \in [UPage -> Int]
    BY <1>1, <1>2, <1>4, <1>7
  <2>2. /\ c \in CallStates /\ c.pc = kk /\ c.new = k.d /\ c.a = b.a /\ c.child = b.child
    <3>1. c = CallOf(kk, k.d, b.a, b.lim, b.seg, b.child, b.prog)
      <4>1. b = CallOf(b.pc, b.new, b.a, b.lim, b.seg, b.child, b.prog)
        BY <1>2, CallParts
      <4>2. ASSUME NEW e, e = c PROVE e = CallOf(kk, k.d, b.a, b.lim, b.seg, b.child, b.prog)
        BY <4>1, <4>2 DEF CallOf
      <4> QED  BY <4>2
    <3>2. kk \in {"user", "grow", "forkvm", "copy", "load"} /\ b \in CallStates /\ k.d \in PageDirs
      BY <1>2, <1>4, <1>7
    <3> HIDE DEF c, kk, b
    <3>3. Fields(b)
      BY <3>2, CallParts
    <3> QED  BY ONLY <3>1, <3>2, <3>3, CallOfIs DEF Fields
  <2>3. c.pc = "copy" /\ InFork(c)
    BY <2>2 DEF InFork
  <2> HIDE DEF c
  <2>4. x.st = proc[p].st /\ x.kstack = proc[p].kstack /\ x \in Slot /\ x.st = "RUNNABLE" /\ x.pgdir = d /\ x.kstack # 0
    BY <1>1, <1>2 DEF HasPages
  <2>5. /\ mem'.free \cup Holds(x.pgdir) \cup Holds(c.new)
             = mem.free \cup Holds(proc[p].pgdir) \cup Holds(call[p].new)
        /\ Holds(x.pgdir) \cap Holds(c.new) = {} /\ Holds(x.pgdir) \cap mem'.free = {}
        /\ Holds(c.new) \cap mem'.free = {}
        /\ T \subseteq Holds(proc[p].pgdir) \cup Holds(call[p].new)
    BY <1>2, <1>4, <1>5, <1>7, <2>1, <2>2 DEF Traded
  <2>6. \A g \in Frames : g \notin mem.free /\ g \notin mem'.free /\ g \notin T => mem'.data[g] = mem.data[g]
    BY <1>4, <2>1 DEF Kept
  <2>7. Mapped(d, PGROUNDUP(x.sz)) /\ b.a = 0 /\ Holding(mem, d, view[p])
    BY <1>1, <1>2 DEF Extent, Content
  <2>8. Mapped(k.d, 0)
    <3>1. \A a \in UPage : ~(a < 0)
      BY Constants DEF UPage
    <3> QED  BY <1>4, <1>7, <3>1 DEF Mapped
  <2>9. Holding(mem', d, v)
    <3>1. d \in PageDirs
      BY <1>2, SlotIs
    <3>2. mem \in Mem /\ mem' \in Mem /\ Holds(d) \cap mem.free = {} /\ Holds(d) \cap mem'.free = {}
          /\ Holds(d) \cap T = {} /\ Holding(mem, d, v)
      BY <1>2, <2>1, <2>4, <2>5, <2>7
    <3> HIDE DEF d, v, T
    <3> QED  BY ONLY <3>1, <3>2, <2>6, HoldingKept
  <2>10. Holding(mem', c.new, v)
    BY <1>4, <1>7, <2>2 DEF Holding
  <2>11. HasPages(x, c) /\ Extent(x, c) /\ Content(mem', x, c, v)
    <3>1. HasPages(x, c)
      BY <1>2, <1>4, <1>7, <2>2, <2>3, <2>4 DEF HasPages
    <3>2. Extent(x, c)
      <4>1. PGROUNDUP(x.sz) \in Nat
        BY <1>2, SlotIs, RoundUp
      <4>2. 0 <= PGROUNDUP(x.sz)
        BY <4>1
      <4> QED  BY <2>2, <2>3, <2>4, <2>7, <2>8, <4>2 DEF Extent
    <3>3. Content(mem', x, c, v)
      BY <2>3, <2>4, <2>9, <2>10 DEF Content
    <3> QED  BY <3>1, <3>2, <3>3
  <2>12. InFork(c) => InFork(call[p]) /\ c.child = call[p].child
    BY <1>5, <2>2
  <2> HIDE DEF x, v, T
  <2> QED  BY ONLY Core, p \in VmProcs, <2>1, <2>2, <2>4, <2>5, <2>6, <2>11, <2>12, StepOne
<1> QED  BY <1>4, <1>6, <1>7

(* A turn of copyuvm, its failure and its end. *)
LEMMA CopyPageKeeps ==
  ASSUME Core, NEW p \in VmProcs, CopyPage(p) PROVE Core'
<1> DEFINE b == call[p]
           d == proc[p].pgdir
           sz == proc[p].sz
           w == copyuvm(mem, d, b.new, b.a)
           q == b.child
           T == {}
<1>1. /\ proc[p].st = "RUNNABLE" /\ b.pc = "copy"
      /\ IF b.a * PGSIZE >= sz
           THEN /\ proc' = [proc EXCEPT ![q].st = "RUNNABLE", ![q].up = p, ![q].pgdir = b.new, ![q].sz = sz]
                /\ view' = [view EXCEPT ![q] = view[p]]
                /\ BackToUser(p) /\ mem' = mem
           ELSE IF w.ok
             THEN /\ mem' = w.m
                  /\ call' = [call EXCEPT ![p].a = @ + 1, ![p].new = w.d]
                  /\ proc' = proc /\ view' = view
             ELSE NoChild(w.m, q) /\ BackToUser(p) /\ view' = view
  BY DEF CopyPage, Inside
<1>2. /\ mem \in Mem /\ proc[p] \in Slot /\ b \in CallStates /\ view[p] \in [UPage -> Int] /\ Divided
      /\ proc \in [VmProcs -> Slot] /\ call \in [VmProcs -> CallStates] /\ view \in [VmProcs -> [UPage -> Int]]
      /\ HasPages(proc[p], b) /\ Extent(proc[p], b) /\ Content(mem, proc[p], b, view[p])
      /\ Holds(d) \cap mem.free = {} /\ Once(d) /\ Holds(b.new) \cap mem.free = {} /\ Once(b.new)
      /\ Holds(d) \cap Holds(b.new) = {}
      /\ proc = [proc EXCEPT ![p] = proc[p]] /\ view = [view EXCEPT ![p] = view[p]]
  BY <1>1, CoreIs
<1>3. d \in PageDirs /\ sz \in 0..(KERNBASE - 1) /\ sz \in Nat /\ proc[p].kstack # 0
  BY <1>1, <1>2, SlotIs DEF HasPages
<1>4. b.a \in 0..UPAGES /\ b.a \in Nat /\ b.new \in PageDirs
  BY <1>2, InCallIs
<1>5. /\ Mapped(d, PGROUNDUP(sz)) /\ Mapped(b.new, b.a) /\ b.a <= PGROUNDUP(sz)
      /\ Holding(mem, d, view[p]) /\ Holding(mem, b.new, view[p]) /\ InFork(b)
  BY SMTT(30), <1>1, <1>2 DEF Extent, Content, InFork
<1>6. PGROUNDUP(sz) \in Nat /\ (b.a * PGSIZE < sz <=> b.a < PGROUNDUP(sz))
      /\ b.a * PGSIZE \in Nat /\ KERNBASE \in Nat
  BY SMTT(30), <1>3, <1>4, RoundUp, Constants, Kernbase
<1>7. /\ q \in VmProcs /\ q # p /\ proc[q].st = "EMBRYO" /\ call[q] = UserMode
      /\ proc[q].kstack # 0 /\ proc[q].pgdir = NoDir /\ Holds(proc[q].pgdir) = {}
  BY <1>1, <1>5, Child
<1>8. b = call[p] /\ d = proc[p].pgdir /\ q = call[p].child /\ sz = proc[p].sz /\ T = {}
  OBVIOUS
<1> HIDE DEF b, d, sz, q, T
<1>9. CASE b.a * PGSIZE >= sz
  <2> DEFINE y == [proc[q] EXCEPT !.st = "RUNNABLE", !.up = p, !.pgdir = b.new, !.sz = sz]
             c == UserMode
             v == view[p]
  <2>1. /\ proc' = [proc EXCEPT ![q] = y] /\ view' = [view EXCEPT ![q] = v] /\ v \in [UPage -> Int]
        /\ call' = [call EXCEPT ![p] = c] /\ mem' = mem /\ mem' \in Mem
    BY ZenonT(40), <1>1, <1>2, <1>7, <1>9 DEF BackToUser
  <2>2. y \in Slot /\ y.st = "RUNNABLE" /\ y.kstack = proc[q].kstack /\ y.pgdir = b.new /\ y.sz = sz
    <3>1. y = FullSlot(proc[q], p, b.new, sz)
      BY DEF FullSlot
    <3>2. proc[q] \in Slot /\ p \in 0..NSLOT
      BY <1>2, <1>7, Constants DEF VmProcs
    <3> HIDE DEF y
    <3> QED  BY <1>3, <1>4, <3>1, <3>2, FullSlotIs
  <2>3. c \in CallStates /\ c.pc = "user" /\ c.new = NoDir /\ Holds(c.new) = {} /\ ~InFork(c) /\ Once(c.new) /\ c = UserMode
    BY UserIs
  <2> HIDE DEF y, c, v
  <2>4. /\ proc'[q] = y /\ call'[p] = c /\ proc'[p] = proc[p] /\ call'[q] = UserMode
        /\ \A r \in VmProcs \ {q} : proc'[r] = proc[r]
        /\ \A r \in VmProcs \ {p} : call'[r] = call[r]
    BY <1>2, <1>7, <2>1
  <2>5. Divided'
    <3> DEFINE h == <<q, "pgdir">>
               e == <<p, "new">>
               S == {h, e}
    <3>1. ASSUME NEW r \in VmProcs
          PROVE  /\ <<r, "pgdir">> \notin S => proc'[r].pgdir = proc[r].pgdir
                 /\ <<r, "new">> \notin S => call'[r].new = call[r].new
                 /\ <<r, "kstack">> \notin S => proc'[r].kstack = proc[r].kstack
      <4>1. r # q => proc'[r].pgdir = proc[r].pgdir
        BY <2>4
      <4>2. r # p => call'[r].new = call[r].new
        BY <2>4
      <4>3. proc'[r].kstack = proc[r].kstack
        BY <2>2, <2>4
      <4> QED  BY <4>1, <4>2, <4>3
    <3>2. \A z \in Holders \ S : Owners'[z] = Owners[z]
      <4> HIDE DEF S, h, e
      <4> QED  BY <3>1, Untouched
    <3>3. /\ h \in Holders /\ Owners[h] = Holds(proc[q].pgdir) /\ Owners'[h] = Holds(proc'[q].pgdir)
          /\ e \in Holders /\ Owners[e] = Holds(call[p].new) /\ Owners'[e] = Holds(call'[p].new) /\ h # e
      BY <1>7, HoldersAre, OwnersAre, OwnersAreNext
    <3>4. Owners[h] = {} /\ Owners[e] = Holds(b.new) /\ Owners'[h] = Holds(b.new) /\ Owners'[e] = {}
      BY <1>7, <1>8, <2>2, <2>3, <2>4, <3>3
    <3>5. /\ mem'.free \cup Owners'[h] \cup Owners'[e] = mem.free \cup Owners[h] \cup Owners[e]
          /\ Owners'[h] \cap mem'.free = {} /\ Owners'[e] \cap mem'.free = {} /\ Owners'[h] \cap Owners'[e] = {}
      BY <1>2, <2>1, <3>4
    <3>6. S = {h, e}
      OBVIOUS
    <3> HIDE DEF h, e, S
    <3> QED  BY <1>2, <3>2, <3>3, <3>5, <3>6, Trade2
  <2>6. Kept(mem, mem')
    BY <2>1 DEF Kept
  <2>7. Filling'
    BY <1>5, <1>8, <2>3, <2>4, StopsFilling
  <2>8. HasPages(y, call[q])
    BY <1>2, <1>7, <2>2, Empty, UserIs DEF HasPages
  <2>9. HasPages(proc[p], c)
    BY <1>2, <2>3, Empty DEF HasPages
  <2>10. Extent(proc[p], c)
    BY <1>5, <1>8, <2>3 DEF Extent
  <2>11. Content(mem', proc[p], c, view[p])
    BY <1>5, <1>8, <2>1, <2>3 DEF Content
  <2>12. b.a = PGROUNDUP(sz)
    BY <1>3, <1>4, <1>5, <1>6, <1>9
  <2>13. Extent(y, call[q])
    BY <1>5, <1>7, <2>2, <2>12, UserIs DEF Extent
  <2>14. Content(mem', y, call[q], v)
    BY <1>5, <1>7, <2>1, <2>2, UserIs DEF Content, v
  <2> QED  BY ONLY Core, p \in VmProcs, <1>7, <2>1, <2>2, <2>3, <2>5, <2>6, <2>7, <2>8, <2>9, <2>10,
              <2>11, <2>13, <2>14, StepTwo
<1>10. CASE ~(b.a * PGSIZE >= sz)
  <2>1. b.a * PGSIZE < sz
    BY <1>3, <1>6, <1>10
  <2>2. b.a \in UPage /\ b.a < PGROUNDUP(sz)
    <3>1. b.a * PGSIZE < KERNBASE
      BY <1>3, <1>6, <2>1
    <3>2. b.a < UPAGES
      BY <1>4, <3>1, Kernbase
    <3> QED  BY <1>4, <1>6, <2>1, <3>2, Constants DEF UPage
  <2>3. b.new.map[b.a] = 0 /\ d.map[b.a] # 0
    BY <1>4, <1>5, <2>2 DEF Mapped
  <2>4. w = copyuvm(mem, d, b.new, b.a)
    OBVIOUS
  <2> HIDE DEF w
  <2>5. /\ w.ok \in BOOLEAN /\ w.m \in Mem
        /\ w.ok => /\ w.d \in PageDirs /\ Once(w.d) /\ Traded(mem, Holds(b.new), w.m, Holds(w.d))
                   /\ Added(b.new, w.d, b.a) /\ w.m.data[w.d.map[b.a]] = mem.data[d.map[b.a]]
        /\ ~w.ok => w.m.free = mem.free \cup Holds(b.new) /\ Kept(mem, w.m)
    <3> DEFINE n == b.new
               a == b.a
    <3>1. /\ mem \in Mem /\ d \in PageDirs /\ n \in PageDirs /\ Once(n) /\ Holds(n) \cap mem.free = {}
          /\ a \in UPage /\ n.map[a] = 0 /\ d.map[a] # 0 /\ w = copyuvm(mem, d, n, a)
      BY <1>2, <1>3, <1>4, <2>2, <2>3, <2>4
    <3> HIDE DEF d, n, a
    <3>2. /\ w.ok \in BOOLEAN /\ w.m \in Mem
          /\ w.ok => /\ w.d \in PageDirs /\ Once(w.d) /\ Traded(mem, Holds(n), w.m, Holds(w.d))
                     /\ Added(n, w.d, a) /\ w.m.data[w.d.map[a]] = mem.data[d.map[a]]
          /\ ~w.ok => w.m.free = mem.free \cup Holds(n) /\ Kept(mem, w.m)
      BY ONLY <3>1, Copies
    <3> QED  BY <3>2 DEF n, a
  <2>6. CASE ~w.ok
    <3>1. w.m \in Mem /\ w.m.free = mem.free \cup Holds(call[p].new) /\ Kept(mem, w.m)
      BY <1>8, <2>5, <2>6
    <3>2. NoChild(w.m, call[p].child) /\ BackToUser(p) /\ view' = view /\ proc[p].st = "RUNNABLE" /\ InFork(call[p])
      BY <1>1, <1>5, <1>8, <1>10, <2>6
    <3> QED  BY ONLY Core, p \in VmProcs, <3>1, <3>2, NoChildKeeps
  <2>7. CASE w.ok
    <3> DEFINE x == proc[p]
               c == [b EXCEPT !.new = w.d, !.a = b.a + 1]
               v == view[p]
    <3>1. b.a + 1 \in 0..UPAGES /\ b.a + 1 <= PGROUNDUP(sz) /\ b.a + 1 \in Nat
      BY <1>4, <1>6, <2>2, Constants DEF UPage
    <3>2. c \in CallStates /\ c.pc = b.pc /\ c.new = w.d /\ c.a = b.a + 1 /\ c.child = b.child
      <4>1. c = CallOf(b.pc, w.d, b.a + 1, b.lim, b.seg, b.child, b.prog)
        <5>1. b = CallOf(b.pc, b.new, b.a, b.lim, b.seg, b.child, b.prog)
          BY <1>2, CallParts
        <5>2. ASSUME NEW e, e = c PROVE e = CallOf(b.pc, w.d, b.a + 1, b.lim, b.seg, b.child, b.prog)
          BY <5>1, <5>2 DEF CallOf
        <5> QED  BY <5>2
      <4>2. b \in CallStates /\ w.d \in PageDirs
        BY <1>2, <2>5, <2>7
      <4> HIDE DEF c
      <4>3. Fields(b)
        BY <4>2, CallParts
      <4> QED  BY ONLY <3>1, <4>1, <4>2, <4>3, CallOfIs DEF Fields
    <3>3. /\ call' = [call EXCEPT ![p] = c] /\ mem' = w.m /\ mem' \in Mem
          /\ proc' = [proc EXCEPT ![p] = x] /\ view' = [view EXCEPT ![p] = v] /\ v \in [UPage -> Int]
      <4>1. call' = [call EXCEPT ![p].a = @ + 1, ![p].new = w.d] /\ mem' = w.m /\ proc' = proc /\ view' = view
        BY <1>1, <1>10, <2>7
      <4>2. call' = [call EXCEPT ![p] = [b EXCEPT !.a = b.a + 1, !.new = w.d]]
        BY <1>2, <1>8, <4>1
      <4>3. [b EXCEPT !.a = b.a + 1, !.new = w.d] = c
        BY <1>2, InCallIs
      <4> HIDE DEF c
      <4> QED  BY <1>2, <2>5, <4>1, <4>2, <4>3
    <3> HIDE DEF c
    <3>4. c.pc = "copy" /\ InFork(c) /\ (InFork(c) => InFork(call[p]) /\ c.child = call[p].child)
      BY <1>1, <1>5, <1>8, <3>2 DEF InFork
    <3>5. x \in Slot /\ x.st = proc[p].st /\ x.kstack = proc[p].kstack /\ x.st = "RUNNABLE" /\ x.pgdir = d /\ x.sz = sz
      BY <1>1, <1>2, <1>8
    <3>6. Mapped(w.d, b.a + 1)
      <4>1. Added(b.new, w.d, b.a)
        BY <2>5, <2>7
      <4> QED  BY ONLY <1>4, <1>5, <2>2, <4>1, Adds
    <3>7. Traded(mem, Holds(b.new), w.m, Holds(w.d))
      BY <2>5, <2>7
    <3>8. /\ mem'.free \cup Holds(x.pgdir) \cup Holds(c.new)
               = mem.free \cup Holds(proc[p].pgdir) \cup Holds(call[p].new)
          /\ Holds(x.pgdir) \cap Holds(c.new) = {} /\ Holds(x.pgdir) \cap mem'.free = {}
          /\ Holds(c.new) \cap mem'.free = {}
          /\ T \subseteq Holds(proc[p].pgdir) \cup Holds(call[p].new)
      BY <1>2, <1>8, <3>2, <3>3, <3>5, <3>7 DEF Traded
    <3>9. \A g \in Frames : g \notin mem.free /\ g \notin mem'.free /\ g \notin T => mem'.data[g] = mem.data[g]
      BY <3>3, <3>7 DEF Traded, Kept
    <3>10. Holding(mem', d, v)
      <4>1. mem \in Mem /\ mem' \in Mem /\ d \in PageDirs /\ Holds(d) \cap mem.free = {} /\ Holds(d) \cap mem'.free = {}
            /\ Holds(d) \cap T = {} /\ Holding(mem, d, v)
        BY <1>2, <1>3, <1>5, <1>8, <3>3, <3>5, <3>8
      <4> HIDE DEF v
      <4> QED  BY ONLY <4>1, <3>9, HoldingKept
    <3>11. Holding(w.m, w.d, v)
      <4>1. mem \in Mem /\ w.m \in Mem /\ b.new \in PageDirs /\ w.d \in PageDirs
        BY <1>2, <1>4, <2>5, <2>7
      <4>2. Holds(b.new) \cap mem.free = {} /\ Holding(mem, b.new, v)
        BY <1>2, <1>5
      <4>3. w.m.data[w.d.map[b.a]] = v[b.a]
        BY <1>5, <2>2, <2>3, <2>5, <2>7 DEF Holding
      <4>4. Added(b.new, w.d, b.a) /\ \A g \in UPage \ {b.a} : v[g] = v[g]
        BY <2>5, <2>7
      <4> HIDE DEF v
      <4> QED  BY ONLY <4>1, <4>2, <4>3, <4>4, <2>2, <3>7, HoldingMore
    <3>12. HasPages(x, c) /\ Extent(x, c) /\ Content(mem', x, c, v)
      <4>1. Once(w.d) /\ Once(x.pgdir)
        BY <1>2, <2>5, <2>7, <3>5
      <4>2. HasPages(x, c)
        BY <1>3, <3>2, <3>4, <3>5, <4>1 DEF HasPages
      <4>3. Extent(x, c)
        BY <1>5, <3>1, <3>2, <3>4, <3>5, <3>6 DEF Extent
      <4>4. Content(mem', x, c, v)
        BY <3>2, <3>3, <3>4, <3>5, <3>10, <3>11 DEF Content
      <4> QED  BY <4>2, <4>3, <4>4
    <3> HIDE DEF x, v
    <3> QED  BY ONLY Core, p \in VmProcs, <3>2, <3>3, <3>4, <3>5, <3>8, <3>9, <3>12, StepOne
  <2> QED  BY <2>5, <2>6, <2>7
<1> QED  BY <1>9, <1>10

(* wait frees a zombie's stack and memory. *)
LEMMA WaitKeeps ==
  ASSUME Core, NEW p \in VmProcs, NEW q \in VmProcs, wait(p, q) PROVE Core'
<1> DEFINE y == NoProc
           c == call[p]
           v == [a \in UPage |-> Zero]
           f == proc[q].kstack
           d == proc[q].pgdir
           m == kfree(mem, f)
<1>1. /\ CanRun(p) /\ proc[q].st = "ZOMBIE"
      /\ mem' = freevm(m, d) /\ proc' = [proc EXCEPT ![q] = y]
      /\ view' = [view EXCEPT ![q] = v] /\ call' = call
  BY DEF wait
<1>2. /\ proc[p].st = "RUNNABLE" /\ c = UserMode /\ Mapped(proc[p].pgdir, PGROUNDUP(proc[p].sz))
      /\ Holding(mem, proc[p].pgdir, view[p]) /\ q # p
  BY <1>1, Runs
<1>3. /\ mem \in Mem /\ Divided /\ Filling /\ HasPages(proc[p], c)
      /\ proc \in [VmProcs -> Slot] /\ call \in [VmProcs -> CallStates] /\ view \in [VmProcs -> [UPage -> Int]]
      /\ call = [call EXCEPT ![p] = c] /\ proc[q] \in Slot /\ HasPages(proc[q], call[q])
      /\ Holds(d) \cap mem.free = {} /\ Once(d) /\ Extent(proc[p], c)
  BY <1>1, <1>2, CoreIs
<1>4. f # 0 /\ call[q] = UserMode
  BY <1>1, <1>3 DEF HasPages
<1>5. d \in PageDirs /\ f \in Frames
  BY <1>3, <1>4, SlotIs, Constants DEF Frames
<1>6. f \notin Holds(d) /\ f \notin mem.free
  <2>1. Holds(d) \cap ({f} \ {0}) = {} /\ ({f} \ {0}) \cap mem.free = {}
    BY <1>3, Apart
  <2> QED  BY <1>4, <2>1
<1>7. m \in Mem /\ m.free = mem.free \cup {f} /\ \A g \in Frames \ {f} : m.data[g] = mem.data[g]
  BY <1>3, <1>5, FreesOne
<1> HIDE DEF m
<1>8. freevm(m, d) \in Mem /\ freevm(m, d).free = m.free \cup Holds(d) /\ Kept(m, freevm(m, d))
  <2>1. Holds(d) \cap m.free = {}
    BY <1>3, <1>6, <1>7
  <2> HIDE DEF d
  <2> QED  BY <1>3, <1>5, <1>7, <2>1, FreesAll
<1>9. y \in Slot /\ y.st = "UNUSED" /\ y.kstack = 0 /\ y.pgdir = NoDir /\ y = NoProc
  BY UnusedIs
<1>10. c \in CallStates /\ c.pc = "user" /\ c.new = NoDir /\ Holds(c.new) = {} /\ ~InFork(c) /\ Once(c.new)
  BY <1>2, UserIs
<1>11. v \in [UPage -> Int]
  BY DEF Zero
<1> HIDE DEF y, c, v
<1>12. /\ proc'[q] = y /\ \A r \in VmProcs \ {q} : proc'[r] = proc[r]
  BY <1>1, <1>3
<1>13. Divided'
  <2> DEFINE h == <<q, "kstack">>
             e == <<q, "pgdir">>
             S == {h, e}
  <2>1. ASSUME NEW r \in VmProcs
        PROVE  /\ <<r, "pgdir">> \notin S => proc'[r].pgdir = proc[r].pgdir
               /\ <<r, "new">> \notin S => call'[r].new = call[r].new
               /\ <<r, "kstack">> \notin S => proc'[r].kstack = proc[r].kstack
    <3>1. call'[r].new = call[r].new
      BY <1>1
    <3>2. r # q => proc'[r].pgdir = proc[r].pgdir /\ proc'[r].kstack = proc[r].kstack
      BY <1>12
    <3> QED  BY <3>1, <3>2
  <2>2. \A z \in Holders \ S : Owners'[z] = Owners[z]
    <3> HIDE DEF S, h, e
    <3> QED  BY <2>1, Untouched
  <2>3. /\ h \in Holders /\ Owners[h] = {proc[q].kstack} \ {0} /\ Owners'[h] = {proc'[q].kstack} \ {0}
        /\ e \in Holders /\ Owners[e] = Holds(proc[q].pgdir) /\ Owners'[e] = Holds(proc'[q].pgdir) /\ h # e
    BY HoldersAre, OwnersAre, OwnersAreNext
  <2>4. Owners[h] = {f} /\ Owners[e] = Holds(d) /\ Owners'[h] = {} /\ Owners'[e] = {}
    BY <1>4, <1>9, <1>12, <2>3, Empty
  <2>5. /\ mem'.free \cup Owners'[h] \cup Owners'[e] = mem.free \cup Owners[h] \cup Owners[e]
        /\ Owners'[h] \cap mem'.free = {} /\ Owners'[e] \cap mem'.free = {} /\ Owners'[h] \cap Owners'[e] = {}
    BY <1>1, <1>7, <1>8, <2>4
  <2>6. S = {h, e}
    OBVIOUS
  <2> HIDE DEF h, e, S
  <2> QED  BY <1>3, <2>2, <2>3, <2>5, <2>6, Trade2
<1>14. Kept(mem, mem')
  BY <1>1, <1>7, <1>8 DEF Kept
<1>15. Filling'
  <2>1. ASSUME NEW r \in VmProcs, InFork(call'[r])
        PROVE  InFork(call[r]) /\ call'[r].child = call[r].child /\ proc'[call[r].child].st = "EMBRYO"
    <3>1. InFork(call[r]) /\ call'[r].child = call[r].child
      BY <1>1, <2>1
    <3>2. call[r].child \in VmProcs /\ proc[call[r].child].st = "EMBRYO"
      BY <1>3, <3>1 DEF Filling
    <3> QED  BY <1>1, <1>12, <3>1, <3>2
  <2> QED  BY <1>3, <2>1, FillingKept
<1>16. HasPages(y, call[q])
  BY <1>4, <1>9, Empty, UserIs DEF HasPages
<1>17. Content(mem', proc[p], c, view[p])
  <2>1. Holding(mem', proc[p].pgdir, view[p])
    BY <1>1, <1>2, <1>8, <1>12, <1>13, <1>14, StillHolding
  <2> QED  BY <1>10, <2>1 DEF Content
<1>18. y.st # "RUNNABLE" /\ mem' \in Mem /\ call' = [call EXCEPT ![p] = c]
  BY <1>1, <1>3, <1>8, <1>9
<1>19. q # p /\ proc' = [proc EXCEPT ![q] = y] /\ view' = [view EXCEPT ![q] = v] /\ HasPages(proc[p], c) /\ Extent(proc[p], c)
  BY <1>1, <1>2, <1>3
<1> QED  BY ONLY Core, p \in VmProcs, q \in VmProcs, <1>9, <1>10, <1>11, <1>13, <1>14, <1>15, <1>16, <1>17, <1>18,
            <1>19, StepTwo

(* exit leaves its pages and passes its children on. *)
LEMMA ExitKeeps ==
  ASSUME Core, NEW p \in VmProcs, exit(p) PROVE Core'
<1> DEFINE T == {}
<1>1. /\ proc[p].st = "RUNNABLE" /\ call[p].pc = "user"
      /\ mem' = mem /\ call' = call /\ view' = view
      /\ proc' = [q \in VmProcs |-> IF q = p THEN [proc[p] EXCEPT !.st = "ZOMBIE"]
                                  ELSE IF proc[q].up = p THEN [proc[q] EXCEPT !.up = 1] ELSE proc[q]]
  BY DEF exit, InUser
<1>2. VmTypeOK /\ Divided /\ Filling /\ Extents /\ Contents
  BY DEF Core, Placed
<1>3. ASSUME NEW r \in VmProcs
      PROVE  /\ proc'[r] \in Slot /\ proc'[r].pgdir = proc[r].pgdir /\ proc'[r].kstack = proc[r].kstack
             /\ proc'[r].sz = proc[r].sz /\ (r # p => proc'[r].st = proc[r].st)
             /\ (r = p => proc'[r].st = "ZOMBIE")
             /\ (r # p /\ proc[r].up # p => proc'[r] = proc[r])
  <2>1. /\ proc[r].st \in {"UNUSED", "EMBRYO", "RUNNABLE", "ZOMBIE"} /\ proc[r].up \in 0..NSLOT
        /\ proc[r].kstack \in 0..NFRAME /\ proc[r].pgdir \in PageDirs /\ proc[r].sz \in 0..(KERNBASE - 1)
        /\ proc[r] = [st |-> proc[r].st, up |-> proc[r].up, kstack |-> proc[r].kstack,
                      pgdir |-> proc[r].pgdir, sz |-> proc[r].sz]
    BY <1>2, Typed, SlotIs
  <2>2. CASE r = p
    <3>1. proc'[r] = [proc[r] EXCEPT !.st = "ZOMBIE"]
      BY <1>1, <2>2
    <3>2. proc'[r] = [st |-> "ZOMBIE", up |-> proc[r].up, kstack |-> proc[r].kstack,
                      pgdir |-> proc[r].pgdir, sz |-> proc[r].sz]
      BY ONLY <2>1, <3>1
    <3> QED  BY ONLY <2>1, <2>2, <3>2 DEF Slot
  <2>3. CASE r # p /\ proc[r].up = p
    <3>1. proc'[r] = [proc[r] EXCEPT !.up = 1]
      BY <1>1, <2>3
    <3>2. proc'[r] = [st |-> proc[r].st, up |-> 1, kstack |-> proc[r].kstack,
                      pgdir |-> proc[r].pgdir, sz |-> proc[r].sz]
      BY ONLY <2>1, <3>1
    <3>3. 1 \in 0..NSLOT
      BY Constants
    <3> QED  BY ONLY <2>1, <2>3, <3>2, <3>3 DEF Slot
  <2>4. CASE r # p /\ proc[r].up # p
    <3>1. proc'[r] = proc[r]
      BY <1>1, <2>4
    <3> QED  BY <1>2, <2>4, <3>1, Typed
  <2> QED  BY <2>2, <2>3, <2>4
<1>4. VmTypeOK'
  <2>1. proc' \in [VmProcs -> Slot]
    <3>1. \A r \in VmProcs : proc'[r] \in Slot
      BY <1>3
    <3>2. proc' = [r \in VmProcs |-> proc'[r]]
      BY <1>1
    <3> QED  BY ONLY <3>1, <3>2
  <2>2. VmProcs' = VmProcs /\ Slot' = Slot /\ CallStates' = CallStates /\ Mem' = Mem /\ UPage' = UPage
    BY DEF VmProcs, Slot, CallStates, Mem, UPage, PageDirs, Segs, KERNBASE, Frames, Tables
  <2> QED  BY <1>1, <1>2, <2>1, <2>2 DEF VmTypeOK
<1>5. Divided'
  <2> DEFINE S == {}
  <2>1. ASSUME NEW r \in VmProcs
        PROVE  /\ <<r, "pgdir">> \notin S => proc'[r].pgdir = proc[r].pgdir
               /\ <<r, "new">> \notin S => call'[r].new = call[r].new
               /\ <<r, "kstack">> \notin S => proc'[r].kstack = proc[r].kstack
    BY <1>1, <1>3
  <2>2. \A z \in Holders \ S : Owners'[z] = Owners[z]
    <3> HIDE DEF S
    <3> QED  BY <2>1, Untouched
  <2>3. \A z \in Holders : Owners'[z] = Owners[z]
    BY <2>2
  <2> QED  BY <1>1, <1>2, <2>3, Trade0
<1>6. ASSUME NEW r \in VmProcs PROVE HasPages(proc'[r], call'[r])
  <2>1. HasPages(proc[r], call[r]) /\ call'[r] = call[r] /\ proc[r] \in Slot
    BY <1>1, CoreIs
  <2>2. proc[r].st = "UNUSED" \/ proc[r].st = "EMBRYO" => proc[r].up = 0
    <3>1. proc[r].st = "UNUSED" => proc[r].up = 0
      BY <2>1, UnusedIs DEF HasPages
    <3>2. ASSUME proc[r].st = "EMBRYO" PROVE proc[r].up = 0
      <4>1. proc[r] = StackSlot(proc[r].kstack)
        BY <2>1, <3>2 DEF HasPages, StackSlot
      <4>2. StackSlot(proc[r].kstack).up = 0
        BY <2>1, SlotIs, StackSlotIs
      <4> QED  BY <4>1, <4>2
    <3> QED  BY <3>1, <3>2
  <2>3. p # 0
    BY DEF VmProcs
  <2>4. CASE r = p
    <3>1. proc[r].kstack # 0 /\ call[r] = UserMode /\ Once(proc[r].pgdir) /\ Once(call[r].new)
      BY <1>1, <2>1, <2>4 DEF HasPages
    <3>2. proc'[r].st = "ZOMBIE" /\ proc'[r].kstack # 0 /\ Once(proc'[r].pgdir)
      BY <1>3, <2>4, <3>1
    <3>3. ~(call[r].pc \in {"grow", "forkvm"})
      BY <3>1, UserIs
    <3> QED  BY <2>1, <3>1, <3>2, <3>3 DEF HasPages
  <2>5. CASE r # p /\ proc[r].up # p
    BY <1>3, <2>1, <2>5
  <2>6. CASE r # p /\ proc[r].up = p
    <3>1. proc[r].st # "UNUSED" /\ proc[r].st # "EMBRYO"
      BY <2>2, <2>3, <2>6
    <3>2. proc'[r].st = proc[r].st /\ proc'[r].kstack = proc[r].kstack /\ proc'[r].pgdir = proc[r].pgdir
      BY <1>3, <2>6
    <3> QED  BY <2>1, <3>1, <3>2 DEF HasPages
  <2> QED  BY <2>4, <2>5, <2>6
<1>7. Filling'
  <2>1. ASSUME NEW r \in VmProcs, InFork(call'[r])
        PROVE  InFork(call[r]) /\ call'[r].child = call[r].child /\ proc'[call[r].child].st = "EMBRYO"
    <3>1. InFork(call[r]) /\ call'[r].child = call[r].child
      BY <1>1, <2>1
    <3>2. call[r].child \in VmProcs /\ proc[call[r].child].st = "EMBRYO"
      BY <1>2, <3>1 DEF Filling
    <3>3. call[r].child # p
      BY <1>1, <3>2
    <3> QED  BY <1>3, <3>1, <3>2, <3>3
  <2> QED  BY <1>2, <2>1, FillingKept
<1>8. ASSUME NEW r \in VmProcs, proc'[r].st = "RUNNABLE"
      PROVE  Extent(proc'[r], call'[r]) /\ Content(mem', proc'[r], call'[r], view'[r])
  <2>1. r # p /\ proc'[r].st = proc[r].st /\ proc'[r].pgdir = proc[r].pgdir /\ proc'[r].sz = proc[r].sz
    BY <1>3, <1>8
  <2>2. call'[r] = call[r] /\ view'[r] = view[r] /\ mem' \in Mem
    BY <1>1, <1>2, Typed
  <2>3. /\ Holds(proc[r].pgdir) \cap T = {} /\ Holds(call[r].new) \cap T = {}
        /\ \A g \in Frames : g \notin mem.free /\ g \notin mem'.free /\ g \notin T => mem'.data[g] = mem.data[g]
    BY <1>1
  <2> HIDE DEF T
  <2> QED  BY ONLY r \in VmProcs, <1>2, <1>5, <1>8, <2>1, <2>2, <2>3, Others
<1> QED
  <2>1. VmProcs' = VmProcs
    BY DEF VmProcs
  <2> QED  BY <1>4, <1>5, <1>6, <1>7, <1>8, <2>1 DEF Core, Placed, Extents, Contents

(* exec gives the new memory up: the old one is as it was. *)
LEMMA BadKeeps ==
  ASSUME Core, NEW p \in VmProcs, proc[p].st = "RUNNABLE", call[p].pc = "load",
         NEW m \in Mem, NEW d \in PageDirs, Once(d), Traded(mem, Holds(call[p].new), m, Holds(d)),
         Bad(p, m, d)
  PROVE  Core'
<1> DEFINE x == proc[p]
           c == UserMode
           v == view[p]
           T == {}
           b == call[p]
<1>1. mem' = freevm(m, d) /\ call' = [call EXCEPT ![p] = c] /\ proc' = proc /\ view' = view
  BY DEF Bad, BackToUser
<1>2. /\ mem \in Mem /\ x \in Slot /\ v \in [UPage -> Int]
      /\ proc = [proc EXCEPT ![p] = x] /\ view = [view EXCEPT ![p] = v]
      /\ HasPages(x, b) /\ Extent(x, b) /\ Content(mem, x, b, v)
      /\ Holds(x.pgdir) \cap mem.free = {} /\ Holds(b.new) \cap mem.free = {}
      /\ Holds(x.pgdir) \cap Holds(b.new) = {}
  BY CoreIs
<1>3. m.free \cup Holds(d) = mem.free \cup Holds(b.new) /\ m.free \cap Holds(d) = {} /\ Kept(mem, m)
  BY DEF Traded
<1>4. freevm(m, d) \in Mem /\ freevm(m, d).free = m.free \cup Holds(d) /\ Kept(m, freevm(m, d))
  <2>1. Holds(d) \cap m.free = {}
    BY <1>3
  <2> QED  BY <2>1, FreesAll
<1>5. mem' \in Mem /\ mem'.free = mem.free \cup Holds(b.new)
  BY <1>1, <1>3, <1>4
<1>6. \A g \in Frames : g \notin mem.free /\ g \notin mem'.free /\ g \notin T => mem'.data[g] = mem.data[g]
  BY <1>1, <1>3, <1>4 DEF Kept
<1>7. c \in CallStates /\ c.pc = "user" /\ c.new = NoDir /\ Holds(c.new) = {} /\ ~InFork(c) /\ Once(c.new) /\ c = UserMode
  BY UserIs
<1> HIDE DEF c
<1>8. /\ mem'.free \cup Holds(x.pgdir) \cup Holds(c.new)
           = mem.free \cup Holds(proc[p].pgdir) \cup Holds(call[p].new)
      /\ Holds(x.pgdir) \cap Holds(c.new) = {} /\ Holds(x.pgdir) \cap mem'.free = {}
      /\ Holds(c.new) \cap mem'.free = {}
      /\ T \subseteq Holds(proc[p].pgdir) \cup Holds(call[p].new)
  BY <1>2, <1>5, <1>7
<1>9. Holding(mem', x.pgdir, v)
  <2>1. Holding(mem, x.pgdir, v) /\ x.pgdir \in PageDirs
    BY <1>2, SlotIs DEF Content
  <2>2. mem \in Mem /\ mem' \in Mem /\ Holds(x.pgdir) \cap mem.free = {} /\ Holds(x.pgdir) \cap mem'.free = {}
        /\ Holds(x.pgdir) \cap T = {}
    BY <1>2, <1>5, <1>8
  <2> HIDE DEF x, v, T
  <2> QED  BY ONLY <1>6, <2>1, <2>2, HoldingKept
<1>10. HasPages(x, c) /\ Extent(x, c) /\ Content(mem', x, c, v)
  <2>1. HasPages(x, c)
    BY <1>2, <1>7 DEF HasPages
  <2>2. Extent(x, c)
    BY <1>2, <1>7 DEF Extent
  <2>3. Content(mem', x, c, v)
    BY <1>7, <1>9 DEF Content
  <2> QED  BY <2>1, <2>2, <2>3
<1>11. proc' = [proc EXCEPT ![p] = x] /\ view' = [view EXCEPT ![p] = v] /\ x.st = proc[p].st /\ x.kstack = proc[p].kstack
       /\ x \in Slot /\ v \in [UPage -> Int] /\ call' = [call EXCEPT ![p] = c]
  BY <1>1, <1>2
<1> HIDE DEF x, v, T, b
<1> QED  BY ONLY Core, p \in VmProcs, <1>5, <1>6, <1>7, <1>8, <1>10, <1>11, StepOne

(* Nothing was taken since the last step. *)
LEMMA BadNowKeeps ==
  ASSUME Core, NEW p \in VmProcs, proc[p].st = "RUNNABLE", call[p].pc = "load", Bad(p, mem, call[p].new)
  PROVE  Core'
<1> DEFINE d == call[p].new
<1>1. mem \in Mem /\ call[p] \in CallStates /\ Once(d) /\ Holds(d) \cap mem.free = {}
  BY CoreIs
<1>2. d \in PageDirs
  BY <1>1, InCallIs
<1>3. Traded(mem, Holds(d), mem, Holds(d))
  BY <1>1 DEF Traded, Kept
<1> QED  BY <1>1, <1>2, <1>3, BadKeeps

(* A program that cannot be read. *)
LEMMA LoadFailsKeeps ==
  ASSUME Core, NEW p \in VmProcs, LoadFails(p) PROVE Core'
BY BadNowKeeps DEF LoadFails, Inside

(* Arguments that do not fit on the stack. *)
LEMMA NoRoomForArgsKeeps ==
  ASSUME Core, NEW p \in VmProcs, NoRoomForArgs(p) PROVE Core'
BY BadNowKeeps DEF NoRoomForArgs, Inside

(* Only history changes. *)
LEMMA StutterKeeps ==
  ASSUME Core, UNCHANGED <<mem, proc, call, view>> PROVE Core'
<1>1. Owners' = Owners
  BY DEF Owners
<1>2. /\ VmProcs' = VmProcs /\ Holders' = Holders /\ Frames' = Frames /\ UPage' = UPage
  BY DEF VmProcs, Holders, Kinds, Frames, UPage
<1>3. VmTypeOK'
  BY DEF Core, VmTypeOK
<1>4. Divided'
  BY <1>1, <1>2 DEF Core, Divided, Parts
<1>5. Placed'
  BY <1>2 DEF Core, Placed, Filling
<1>6. Extents'
  BY <1>2 DEF Core, Extents
<1>7. Contents'
  BY <1>2 DEF Core, Contents
<1> QED  BY <1>3, <1>4, <1>5, <1>6, <1>7 DEF Core

(* The larger of two numbers. *)
LEMMA Larger ==
  ASSUME NEW x \in Nat, NEW y \in Nat
  PROVE  /\ Max({x, y}) \in Nat /\ Max({x, y}) >= x /\ Max({x, y}) >= y
         /\ Max({x, y}) = x \/ Max({x, y}) = y
<1>1. \E z \in {x, y} : \A w \in {x, y} : z >= w
  OBVIOUS
<1>2. Max({x, y}) \in {x, y} /\ \A w \in {x, y} : Max({x, y}) >= w
  BY <1>1 DEF Max
<1> QED  BY <1>2

(* The largest of 0 and the first k values of f. *)
UpTo(f, k) == {0} \cup {f[i] : i \in 1..k}

(* 0 and the first values of f have a largest, by the least k without one. *)
LEMMA HasLargest ==
  ASSUME NEW f, NEW k \in Nat, \A i \in 1..k : f[i] \in Nat
  PROVE  \E x \in UpTo(f, k) : \A y \in UpTo(f, k) : x >= y
<1> DEFINE Without == {j \in 0..k : ~\E x \in UpTo(f, j) : \A y \in UpTo(f, j) : x >= y}
<1>1. SUFFICES Without = {}
  <2>1. k \in 0..k
    OBVIOUS
  <2> QED  BY <1>1, <2>1
<1>2. ASSUME Without # {} PROVE FALSE
  <2>1. PICK j \in Without : \A y \in Without : ~(<<y, j>> \in OpToRel(<, Nat))
    <3>1. Without \in SUBSET Nat
      OBVIOUS
    <3> QED  BY <1>2, <3>1, WFMin, NatLessThanWellFounded
  <2>2. j \in Nat /\ j <= k
    <3>1. j \in 0..k
      BY <2>1
    <3> QED  BY ONLY <3>1, k \in Nat
  <2>3. j # 0
    <3>1. \A x : x \in UpTo(f, 0) <=> x = 0
      BY DEF UpTo
    <3>2. \E x \in UpTo(f, 0) : \A y \in UpTo(f, 0) : x >= y
      BY <3>1
    <3> QED  BY <2>1, <3>2
  <2>4. j - 1 \in 0..k /\ j - 1 \notin Without
    <3>1. j - 1 \in Nat /\ j - 1 < j /\ j - 1 \in 0..k
      BY <2>2, <2>3
    <3>2. <<j - 1, j>> \in OpToRel(<, Nat)
      BY <2>2, <3>1 DEF OpToRel
    <3> QED  BY <2>1, <3>1, <3>2
  <2>5. PICK x \in UpTo(f, j - 1) : \A y \in UpTo(f, j - 1) : x >= y
    BY <2>4
  <2>6. f[j] \in Nat /\ j \in 1..j
    BY <2>2, <2>3
  <2>7. /\ x \in Nat
        /\ \A y : y \in UpTo(f, j) <=> y \in UpTo(f, j - 1) \/ y = f[j]
    <3>1. x = 0 \/ \E i \in 1..(j - 1) : x = f[i]
      BY <2>5 DEF UpTo
    <3>2. \A i \in 1..(j - 1) : i \in 1..k
      BY <2>2
    <3>3. \A i : i \in 1..j <=> i \in 1..(j - 1) \/ i = j
      BY <2>2, <2>3
    <3> QED  BY <3>1, <3>2, <3>3 DEF UpTo
  <2>8. \A y \in UpTo(f, j - 1) : y \in Nat
    <3>2. \A i \in 1..(j - 1) : i \in 1..k
      BY <2>2
    <3> QED  BY <3>2 DEF UpTo
  <2>9. \E z \in UpTo(f, j) : \A y \in UpTo(f, j) : z >= y
    <3>1. CASE f[j] <= x
      BY <2>5, <2>6, <2>7, <3>1
    <3>2. CASE ~(f[j] <= x)
      <4>1. f[j] > x
        BY <2>6, <2>7, <3>2
      <4>2. \A y \in UpTo(f, j) : f[j] >= y
        BY <2>5, <2>6, <2>7, <2>8, <4>1
      <4> QED  BY <2>7, <4>2
    <3> QED  BY <3>1, <3>2
  <2> QED  BY <2>1, <2>9
<1> QED  BY <1>2

(* Where the segments end. *)
Ends(prog) == [i \in 1..Len(prog) |-> prog[i].first * PGSIZE + prog[i].mem]

(* The fields of a segment. *)
LEMMA SegIs ==
  ASSUME NEW prog \in Seq(Segs), NEW i \in 1..Len(prog)
  PROVE  prog[i].first \in Nat /\ prog[i].file \in Nat /\ prog[i].mem \in Nat /\ Ends(prog)[i] \in Nat
<1>1. prog[i] \in Segs
  OBVIOUS
<1>2. prog[i].first \in Nat /\ prog[i].file \in Nat /\ prog[i].mem \in Nat
  BY <1>1 DEF Segs
<1>3. prog[i].first * PGSIZE \in Nat
  BY <1>2, Constants
<1> QED  BY <1>2, <1>3 DEF Ends

(* SizeAt is the largest end. *)
LEMMA SizeIs ==
  ASSUME NEW prog \in Seq(Segs), NEW n \in 1..(Len(prog) + 1)
  PROVE  /\ SizeAt(prog, n) \in UpTo(Ends(prog), n - 1) /\ SizeAt(prog, n) \in Nat
         /\ \A y \in UpTo(Ends(prog), n - 1) : SizeAt(prog, n) >= y
<1> DEFINE f == Ends(prog)
           k == n - 1
<1>0. Len(prog) \in Nat
  OBVIOUS
<1>1. k \in Nat /\ \A i \in 1..k : i \in 1..Len(prog)
  BY <1>0
<1>2. \A i \in 1..k : f[i] \in Nat
  BY <1>1, SegIs
<1>3. SizeAt(prog, n) = Max(UpTo(f, k))
  <2>1. \A i \in 1..k : f[i] = prog[i].first * PGSIZE + prog[i].mem
    BY <1>1 DEF Ends
  <2>2. {prog[i].first * PGSIZE + prog[i].mem : i \in 1..(n - 1)} = {f[i] : i \in 1..k}
    <3> HIDE DEF f
    <3> QED  BY <2>1
  <2> QED  BY <2>2 DEF SizeAt, UpTo
<1> HIDE DEF f, k
<1>4. \E x \in UpTo(f, k) : \A y \in UpTo(f, k) : x >= y
  BY <1>1, <1>2, HasLargest
<1>5. Max(UpTo(f, k)) \in UpTo(f, k) /\ \A y \in UpTo(f, k) : Max(UpTo(f, k)) >= y
  BY <1>4 DEF Max
<1>6. Max(UpTo(f, k)) \in Nat
  BY <1>2, <1>5 DEF UpTo
<1> QED  BY <1>3, <1>5, <1>6 DEF f, k

(* A segment more makes the size no smaller. *)
LEMMA SizeGrows ==
  ASSUME NEW prog \in Seq(Segs), NEW n \in 1..Len(prog)
  PROVE  SizeAt(prog, n) <= SizeAt(prog, n + 1)
<1>1. n \in 1..(Len(prog) + 1) /\ n + 1 \in 1..(Len(prog) + 1) /\ (n + 1) - 1 = n
  OBVIOUS
<1>2. SizeAt(prog, n) \in UpTo(Ends(prog), n - 1) /\ SizeAt(prog, n) \in Nat
  BY <1>1, SizeIs
<1>3. /\ SizeAt(prog, n + 1) \in Nat /\ \A y \in UpTo(Ends(prog), (n + 1) - 1) : SizeAt(prog, n + 1) >= y
  BY <1>1, SizeIs
<1>4. UpTo(Ends(prog), n - 1) \subseteq UpTo(Ends(prog), n)
  <2>1. \A i \in 1..(n - 1) : i \in 1..n
    OBVIOUS
  <2> QED  BY <2>1 DEF UpTo
<1> QED  BY <1>1, <1>2, <1>3, <1>4

(* Before the first segment the size is 0. *)
LEMMA SizeAtFirst == ASSUME NEW prog \in Seq(Segs) PROVE SizeAt(prog, 1) = 0
<1>1. 1 \in 1..(Len(prog) + 1)
  OBVIOUS
<1>2. SizeAt(prog, 1) \in UpTo(Ends(prog), 1 - 1)
  BY <1>1, SizeIs
<1> QED  BY <1>2 DEF UpTo

(* A segment that is loaded lies below the size. *)
LEMMA InFileBelow ==
  ASSUME NEW prog \in Seq(Segs), NEW n \in 1..(Len(prog) + 1), NEW i \in 1..(n - 1),
         prog[i].file <= prog[i].mem, NEW a \in Nat, InFile(prog[i], a)
  PROVE  a < PGROUNDUP(SizeAt(prog, n))
<1> DEFINE s == prog[i]
<1>1. i \in 1..Len(prog)
  OBVIOUS
<1>2. s.first \in Nat /\ s.file \in Nat /\ s.mem \in Nat
  BY <1>1, SegIs
<1>3. SizeAt(prog, n) \in Nat /\ SizeAt(prog, n) >= s.first * PGSIZE + s.mem
  <2>1. Ends(prog)[i] = s.first * PGSIZE + s.mem
    BY <1>1 DEF Ends
  <2>2. Ends(prog)[i] \in UpTo(Ends(prog), n - 1)
    BY DEF UpTo
  <2> QED  BY <2>1, <2>2, SizeIs
<1>4. a >= s.first /\ (a - s.first) * PGSIZE < s.file
  BY DEF InFile
<1> HIDE DEF s
<1>5. /\ PGSIZE \in Nat /\ (a - s.first) * PGSIZE = a * PGSIZE - s.first * PGSIZE
      /\ a * PGSIZE \in Nat /\ s.first * PGSIZE \in Nat
  BY <1>2, Constants
<1>6. s.file <= s.mem
  BY DEF s
<1>7. a * PGSIZE < SizeAt(prog, n)
  <2> DEFINE x == a * PGSIZE
             y == s.first * PGSIZE
             z == (a - s.first) * PGSIZE
             t == SizeAt(prog, n)
  <2>1. x \in Nat /\ y \in Nat /\ z = x - y /\ t \in Nat /\ t >= y + s.mem /\ z < s.file
    BY <1>3, <1>4, <1>5
  <2> HIDE DEF x, y, z, t
  <2>2. x < t
    BY ONLY <1>2, <1>6, <2>1
  <2> QED  BY <2>2 DEF x, t
<1> QED  BY <1>3, <1>7, RoundUp

(* The sizes before and after a segment. *)
LEMMA SizesAre ==
  ASSUME NEW prog \in Seq(Segs), NEW n \in 1..(Len(prog) + 1)
  PROVE  /\ OldSize(prog, n) \in Nat /\ NewSize(prog, n) \in Nat /\ OldSize(prog, n) <= NewSize(prog, n)
         /\ PGROUNDUP(OldSize(prog, n)) = PGROUNDUP(SizeAt(prog, n))
<1>1. SizeAt(prog, n) \in Nat /\ PGROUNDUP(SizeAt(prog, n)) \in Nat
  BY SizeIs, RoundUp
<1>2. CASE n <= Len(prog)
  <2>1. n \in 1..Len(prog) /\ n + 1 \in 1..(Len(prog) + 1)
    BY <1>2
  <2>2. SizeAt(prog, n) <= SizeAt(prog, n + 1) /\ SizeAt(prog, n + 1) \in Nat
    BY <2>1, SizeGrows, SizeIs
  <2>3. OldSize(prog, n) = SizeAt(prog, n) /\ NewSize(prog, n) = SizeAt(prog, n + 1)
    BY <1>2 DEF OldSize, NewSize
  <2> QED  BY <1>1, <2>2, <2>3
<1>3. CASE ~(n <= Len(prog))
  <2> DEFINE k == PGROUNDUP(SizeAt(prog, n))
  <2>1. OldSize(prog, n) = k * PGSIZE /\ NewSize(prog, n) = k * PGSIZE + 2 * PGSIZE
    BY <1>3 DEF OldSize, NewSize
  <2>2. k \in Nat /\ PGSIZE \in Nat
    BY <1>1, Constants
  <2> HIDE DEF k
  <2>3. PGROUNDUP(k * PGSIZE) = k /\ k * PGSIZE \in Nat
    BY <2>2, RoundUpPages
  <2>4. k * PGSIZE <= k * PGSIZE + 2 * PGSIZE /\ k * PGSIZE + 2 * PGSIZE \in Nat
    BY <2>2, <2>3
  <2> QED  BY <2>1, <2>3, <2>4 DEF k
<1> QED  BY <1>2, <1>3

(* One segment goes on where the last one ends. *)
LEMMA SizesMeet ==
  ASSUME NEW prog \in Seq(Segs), NEW n \in 1..Len(prog)
  PROVE  /\ n + 1 \in 1..(Len(prog) + 1)
         /\ PGROUNDUP(OldSize(prog, n + 1)) = PGROUNDUP(NewSize(prog, n))
         /\ PGROUNDUP(NewSize(prog, n)) <= PGROUNDUP(NewSize(prog, n + 1))
<1>1. n + 1 \in 1..(Len(prog) + 1)
  OBVIOUS
<1>2. NewSize(prog, n) = SizeAt(prog, n + 1)
  BY DEF NewSize
<1>3. /\ OldSize(prog, n + 1) \in Nat /\ NewSize(prog, n + 1) \in Nat
      /\ OldSize(prog, n + 1) <= NewSize(prog, n + 1)
      /\ PGROUNDUP(OldSize(prog, n + 1)) = PGROUNDUP(SizeAt(prog, n + 1))
  BY <1>1, SizesAre
<1>4. PGROUNDUP(OldSize(prog, n + 1)) <= PGROUNDUP(NewSize(prog, n + 1))
  BY <1>3, RoundUpGrows
<1> QED  BY <1>1, <1>2, <1>3, <1>4

(* The next page that exec's allocuvm asks for. *)
PageOf(c) == Max({c.a, PGROUNDUP(OldSize(c.prog, c.seg))})

(* Where the loading stands: what is mapped, and what is still to come. *)
LEMMA LoadingIs ==
  ASSUME NEW c \in CallStates, Loading(c), c.seg <= Len(c.prog) + 1
  PROVE  /\ c.prog \in Seq(Segs) /\ c.seg \in 1..(Len(c.prog) + 1)
         /\ OldSize(c.prog, c.seg) \in Nat /\ NewSize(c.prog, c.seg) \in Nat
         /\ PageOf(c) \in Nat /\ PageOf(c) >= c.a /\ PageOf(c) >= PGROUNDUP(OldSize(c.prog, c.seg))
         /\ PGROUNDUP(NewSize(c.prog, c.seg)) \in Nat
         /\ PageOf(c) <= PGROUNDUP(NewSize(c.prog, c.seg)) /\ Mapped(c.new, PageOf(c))
         /\ PGROUNDUP(OldSize(c.prog, c.seg)) = PGROUNDUP(SizeAt(c.prog, c.seg))
         /\ PageOf(c) * PGSIZE >= NewSize(c.prog, c.seg) => PageOf(c) = PGROUNDUP(NewSize(c.prog, c.seg))
         /\ PageOf(c) * PGSIZE < NewSize(c.prog, c.seg) /\ NewSize(c.prog, c.seg) < KERNBASE =>
              PageOf(c) \in UPage /\ PageOf(c) + 1 <= PGROUNDUP(NewSize(c.prog, c.seg)) /\ PageOf(c) + 1 \in 0..UPAGES
<1> DEFINE old == OldSize(c.prog, c.seg)
           lim == NewSize(c.prog, c.seg)
           a == PageOf(c)
<1>1. c.prog \in Seq(Segs) /\ c.a \in Nat /\ Len(c.prog) \in Nat
  BY InCallIs
<1>2. /\ c.seg \in 1..(Len(c.prog) + 1) /\ c.a <= PGROUNDUP(lim) /\ Mapped(c.new, a)
  BY <1>1 DEF Loading, PageOf
<1>3. old \in Nat /\ lim \in Nat /\ old <= lim /\ PGROUNDUP(old) = PGROUNDUP(SizeAt(c.prog, c.seg))
  BY <1>1, <1>2, SizesAre
<1>4. PGROUNDUP(old) \in Nat /\ PGROUNDUP(lim) \in Nat /\ PGROUNDUP(old) <= PGROUNDUP(lim)
  BY <1>3, RoundUp, RoundUpGrows
<1>5. a \in Nat /\ a >= c.a /\ a >= PGROUNDUP(old) /\ (a = c.a \/ a = PGROUNDUP(old))
  BY <1>1, <1>4, Larger DEF PageOf
<1> HIDE DEF old, lim, a
<1>6. a <= PGROUNDUP(lim)
  BY <1>2, <1>4, <1>5
<1>7. a * PGSIZE \in Nat /\ (a * PGSIZE < lim <=> a < PGROUNDUP(lim))
  <2>1. PGSIZE \in Nat
    BY Constants
  <2>2. a * PGSIZE \in Nat
    BY ONLY <1>5, <2>1
  <2>3. a * PGSIZE < lim <=> a < PGROUNDUP(lim)
    BY <1>3, <1>5, RoundUp
  <2> QED  BY <2>2, <2>3
<1>8. a * PGSIZE >= lim => a = PGROUNDUP(lim)
  BY <1>3, <1>4, <1>5, <1>6, <1>7
<1>9. a * PGSIZE < lim /\ lim < KERNBASE => a \in UPage /\ a + 1 <= PGROUNDUP(lim) /\ a + 1 \in 0..UPAGES
  <2>1. KERNBASE \in Nat /\ (a * PGSIZE < KERNBASE <=> a < UPAGES)
    BY <1>5, Kernbase
  <2> QED  BY <1>3, <1>4, <1>5, <1>7, <2>1, Constants DEF UPage
<1> QED  BY <1>1, <1>2, <1>3, <1>4, <1>5, <1>6, <1>8, <1>9 DEF old, lim, a

(* A page that exec adds is in no segment that was read. *)
LEMMA NotLoadedYet ==
  ASSUME NEW c \in CallStates, Loading(c), c.seg <= Len(c.prog) + 1, PageOf(c) \in UPage
  PROVE  Loaded(c.prog, c.seg)[PageOf(c)] = Zero
<1>1. /\ c.prog \in Seq(Segs) /\ c.seg \in 1..(Len(c.prog) + 1) /\ PageOf(c) \in Nat
      /\ PageOf(c) >= PGROUNDUP(SizeAt(c.prog, c.seg))
  BY LoadingIs
<1>2. \A i \in 1..Len(c.prog) : c.prog[i].file <= c.prog[i].mem
  BY DEF Loading
<1>3. ASSUME NEW i \in 1..Len(c.prog), i < c.seg, InFile(c.prog[i], PageOf(c)) PROVE FALSE
  <2>1. i \in 1..(c.seg - 1)
    BY <1>1, <1>3
  <2>2. PageOf(c) < PGROUNDUP(SizeAt(c.prog, c.seg))
    BY <1>1, <1>2, <1>3, <2>1, InFileBelow
  <2>3. PGROUNDUP(SizeAt(c.prog, c.seg)) \in Nat
    BY <1>1, SizeIs, RoundUp
  <2> QED  BY <1>1, <2>2, <2>3
<1> QED  BY <1>3 DEF Loaded

(* A step of exec beside the memory that p keeps. *)
LEMMA LoadStep ==
  ASSUME Core, NEW p \in VmProcs, proc[p].st = "RUNNABLE",
         Mapped(proc[p].pgdir, PGROUNDUP(proc[p].sz)), Holding(mem, proc[p].pgdir, view[p]),
         NEW c \in CallStates, NEW T, c.pc = "load", mem' \in Mem, proc' = proc, view' = view,
         call' = [call EXCEPT ![p] = c],
         mem'.free \cup Holds(c.new) = mem.free \cup Holds(call[p].new), Holds(c.new) \cap mem'.free = {},
         Once(c.new), T \subseteq Holds(call[p].new),
         \A g \in Frames : g \notin mem.free /\ g \notin mem'.free /\ g \notin T => mem'.data[g] = mem.data[g],
         Loading(c), Holding(mem', c.new, Loaded(c.prog, c.seg))
  PROVE  Core'
<1> DEFINE x == proc[p]
           v == view[p]
<1>1. /\ mem \in Mem /\ x \in Slot /\ v \in [UPage -> Int]
      /\ proc = [proc EXCEPT ![p] = x] /\ view = [view EXCEPT ![p] = v]
      /\ HasPages(x, call[p])
      /\ Holds(x.pgdir) \cap mem.free = {} /\ Holds(call[p].new) \cap mem.free = {}
      /\ Holds(x.pgdir) \cap Holds(call[p].new) = {}
  BY CoreIs
<1>2. /\ x \in Slot /\ v \in [UPage -> Int] /\ proc' = [proc EXCEPT ![p] = x] /\ view' = [view EXCEPT ![p] = v]
      /\ x.st = proc[p].st /\ x.kstack = proc[p].kstack
  BY <1>1
<1>3. /\ mem'.free \cup Holds(x.pgdir) \cup Holds(c.new)
           = mem.free \cup Holds(proc[p].pgdir) \cup Holds(call[p].new)
      /\ Holds(x.pgdir) \cap Holds(c.new) = {} /\ Holds(x.pgdir) \cap mem'.free = {}
      /\ T \subseteq Holds(proc[p].pgdir) \cup Holds(call[p].new)
  BY <1>1
<1>4. HasPages(x, c)
  BY <1>1 DEF HasPages
<1>5. InFork(c) => InFork(call[p]) /\ c.child = call[p].child
  BY DEF InFork
<1>6. Extent(x, c)
  BY DEF Extent
<1>7. Holding(mem', x.pgdir, v)
  <2>1. Holding(mem, x.pgdir, v) /\ x.pgdir \in PageDirs
    BY <1>1, SlotIs
  <2>2. mem \in Mem /\ mem' \in Mem /\ Holds(x.pgdir) \cap mem.free = {} /\ Holds(x.pgdir) \cap mem'.free = {}
        /\ Holds(x.pgdir) \cap T = {}
    BY <1>1, <1>3
  <2>3. \A g \in Frames : g \notin mem.free /\ g \notin mem'.free /\ g \notin T => mem'.data[g] = mem.data[g]
    OBVIOUS
  <2> HIDE DEF x, v
  <2> QED  BY ONLY <2>1, <2>2, <2>3, HoldingKept
<1>8. Content(mem', x, c, v)
  BY <1>7 DEF Content
<1>9. /\ mem' \in Mem /\ call' = [call EXCEPT ![p] = c] /\ Holds(c.new) \cap mem'.free = {}
      /\ \A g \in Frames : g \notin mem.free /\ g \notin mem'.free /\ g \notin T => mem'.data[g] = mem.data[g]
  OBVIOUS
<1> HIDE DEF x, v
<1> QED  BY ONLY Core, p \in VmProcs, c \in CallStates, <1>2, <1>3, <1>4, <1>5, <1>6, <1>8, <1>9, StepOne

(* exec makes a directory, or fails. *)
LEMMA ExecKeeps ==
  ASSUME Core, NEW p \in VmProcs, NEW prog \in Progs, exec(p, prog) PROVE Core'
<1> DEFINE k == setupkvm(mem)
           pc == "load"
           one == 1
           c == [UserMode EXCEPT !.pc = pc, !.new = k.d, !.seg = one, !.prog = prog]
           T == {}
<1>1. /\ CanRun(p) /\ mem' = k.m /\ proc' = proc /\ view' = view
      /\ call' = IF k.ok THEN [call EXCEPT ![p] = c] ELSE call
  BY DEF exec
<1>2. /\ proc[p].st = "RUNNABLE" /\ call[p] = UserMode /\ Mapped(proc[p].pgdir, PGROUNDUP(proc[p].sz))
      /\ Holding(mem, proc[p].pgdir, view[p])
  BY <1>1, Runs
<1>3. /\ mem \in Mem /\ proc[p] \in Slot /\ call[p] \in CallStates /\ view[p] \in [UPage -> Int]
      /\ proc = [proc EXCEPT ![p] = proc[p]] /\ view = [view EXCEPT ![p] = view[p]]
      /\ call = [call EXCEPT ![p] = call[p]] /\ HasPages(proc[p], call[p]) /\ Extent(proc[p], call[p])
      /\ Holds(proc[p].pgdir) \cap mem.free = {} /\ Holds(call[p].new) \cap mem.free = {}
      /\ Holds(proc[p].pgdir) \cap Holds(call[p].new) = {}
  BY <1>2, CoreIs
<1>4. k = setupkvm(mem)
  OBVIOUS
<1> HIDE DEF k
<1>5. /\ k.ok \in BOOLEAN /\ k.m \in Mem /\ Kept(mem, k.m)
      /\ ~k.ok => k.m.free = mem.free
      /\ k.ok => /\ k.d \in PageDirs /\ Once(k.d) /\ (\A a \in UPage : k.d.map[a] = 0)
                 /\ Traded(mem, {}, k.m, Holds(k.d))
  BY <1>3, <1>4, SetsUp
<1>6. Holds(call[p].new) = {} /\ call[p].pc = "user" /\ ~InFork(call[p])
  BY <1>2, UserIs
<1>7. CASE ~k.ok
  <2> DEFINE x == proc[p]
             b == call[p]
             v == view[p]
  <2>1. /\ mem' \in Mem /\ mem'.free = mem.free /\ x \in Slot /\ b \in CallStates /\ v \in [UPage -> Int]
        /\ proc' = [proc EXCEPT ![p] = x] /\ call' = [call EXCEPT ![p] = b] /\ view' = [view EXCEPT ![p] = v]
        /\ x.st = proc[p].st /\ x.kstack = proc[p].kstack
    BY <1>1, <1>3, <1>5, <1>7
  <2>2. /\ mem'.free \cup Holds(x.pgdir) \cup Holds(b.new)
             = mem.free \cup Holds(proc[p].pgdir) \cup Holds(call[p].new)
        /\ Holds(x.pgdir) \cap Holds(b.new) = {} /\ Holds(x.pgdir) \cap mem'.free = {}
        /\ Holds(b.new) \cap mem'.free = {}
        /\ T \subseteq Holds(proc[p].pgdir) \cup Holds(call[p].new)
    BY <1>3, <2>1
  <2>3. \A g \in Frames : g \notin mem.free /\ g \notin mem'.free /\ g \notin T => mem'.data[g] = mem.data[g]
    BY <1>1, <1>5 DEF Kept
  <2>4. Holding(mem', x.pgdir, v)
    <3>1. mem \in Mem /\ x.pgdir \in PageDirs /\ Holds(x.pgdir) \cap mem.free = {} /\ Holding(mem, x.pgdir, v) /\ Holds(x.pgdir) \cap T = {}
      BY <1>2, <1>3, SlotIs
    <3> HIDE DEF x, v, T
    <3> QED  BY ONLY <2>1, <2>2, <2>3, <3>1, HoldingKept
  <2>5. HasPages(x, b) /\ Extent(x, b) /\ Content(mem', x, b, v)
    BY <1>3, <1>6, <2>4 DEF Content
  <2>6. InFork(b) => InFork(call[p]) /\ b.child = call[p].child
    OBVIOUS
  <2> HIDE DEF x, b, v, T
  <2> QED  BY ONLY Core, p \in VmProcs, <2>1, <2>2, <2>3, <2>5, <2>6, StepOne
<1>8. CASE k.ok
  <2>1. prog \in Seq(Segs) /\ \A i \in 1..Len(prog) : prog[i].file <= prog[i].mem
    BY ProgsAssumption
  <2>2. c \in CallStates /\ c.pc = pc /\ c.new = k.d /\ c.a = 0 /\ c.seg = one /\ c.prog = prog
    <3>1. c = CallOf(pc, k.d, UserMode.a, UserMode.lim, one, UserMode.child, prog)
      <4>1. UserMode = CallOf(UserMode.pc, UserMode.new, UserMode.a, UserMode.lim, UserMode.seg, UserMode.child, UserMode.prog)
        BY UserIs, CallParts
      <4>2. ASSUME NEW e, e = c PROVE e = CallOf(pc, k.d, UserMode.a, UserMode.lim, one, UserMode.child, prog)
        BY <4>1, <4>2 DEF CallOf
      <4> QED  BY <4>2
    <3>2. /\ pc \in {"user", "grow", "forkvm", "copy", "load"} /\ UserMode \in CallStates /\ UserMode.a = 0
          /\ k.d \in PageDirs /\ one \in Nat
      BY <1>5, <1>8, UserIs
    <3> HIDE DEF c, pc, one
    <3>4. Fields(UserMode)
      BY <3>2, CallParts
    <3>3. c \in CallStates /\ c.pc = pc /\ c.new = k.d /\ c.a = UserMode.a /\ c.seg = one /\ c.prog = prog
      BY ONLY <2>1, <3>1, <3>2, <3>4, CallOfIs DEF Fields
    <3> QED  BY <3>2, <3>3
  <2>3. c.pc = "load" /\ c.seg = 1
    BY <2>2
  <2>4. /\ mem' \in Mem /\ call' = [call EXCEPT ![p] = c] /\ proc' = proc /\ view' = view
    BY <1>1, <1>5, <1>8
  <2> HIDE DEF c
  <2>5. /\ mem'.free \cup Holds(c.new) = mem.free \cup Holds(call[p].new) /\ Holds(c.new) \cap mem'.free = {}
        /\ Once(c.new) /\ T \subseteq Holds(call[p].new)
    BY <1>1, <1>5, <1>6, <1>8, <2>2 DEF Traded
  <2>6. \A g \in Frames : g \notin mem.free /\ g \notin mem'.free /\ g \notin T => mem'.data[g] = mem.data[g]
    BY <1>1, <1>5 DEF Kept
  <2>7. Holding(mem', c.new, Loaded(c.prog, c.seg))
    BY <1>5, <1>8, <2>2 DEF Holding
  <2>8. Loading(c)
    <3>1. 1 \in 1..(Len(prog) + 1) /\ Len(prog) \in Nat
      BY <2>1
    <3>2. PGROUNDUP(OldSize(prog, 1)) = 0
      <4>1. PGROUNDUP(OldSize(prog, 1)) = PGROUNDUP(SizeAt(prog, 1))
        BY <2>1, <3>1, SizesAre
      <4>2. SizeAt(prog, 1) = 0
        BY <2>1, SizeAtFirst
      <4> QED  BY <4>1, <4>2, Kernbase
    <3>3. PGROUNDUP(NewSize(prog, 1)) \in Nat
      BY <2>1, <3>1, SizesAre, RoundUp
    <3>4. Max({0, 0}) = 0
      BY Larger
    <3>5. Mapped(k.d, 0)
      <4>1. \A a \in UPage : ~(a < 0)
        BY Constants DEF UPage
      <4> QED  BY <1>5, <1>8, <4>1 DEF Mapped
    <3>6. c.a <= PGROUNDUP(NewSize(c.prog, c.seg)) /\ Mapped(c.new, Max({c.a, PGROUNDUP(OldSize(c.prog, c.seg))}))
      BY <2>2, <2>3, <3>2, <3>3, <3>4, <3>5
    <3>7. c.seg \in 1..(Len(c.prog) + 2) /\ c.seg # Len(c.prog) + 2
      BY <2>2, <2>3, <3>1
    <3>8. \A i \in 1..Len(c.prog) : c.prog[i].file <= c.prog[i].mem
      BY <2>1, <2>2
    <3> QED  BY <3>6, <3>7, <3>8 DEF Loading
  <2> HIDE DEF T
  <2> QED  BY ONLY Core, p \in VmProcs, <1>2, <2>2, <2>3, <2>4, <2>5, <2>6, <2>7, <2>8, LoadStep
<1> QED  BY <1>5, <1>7, <1>8

(* sys_exec, which may return before exec. *)
LEMMA SysExecKeeps ==
  ASSUME Core, NEW p \in VmProcs, NEW prog \in Progs, sys_exec(p, prog) PROVE Core'
<1>1. CASE exec(p, prog)
  BY <1>1, ExecKeeps
<1>2. CASE UNCHANGED <<mem, proc, call, view>>
  BY ONLY Core, <1>2, StutterKeeps, Zenon
<1> QED  BY <1>1, <1>2 DEF sys_exec

(* A page more with the byte its place should have. *)
LEMMA HoldingPlus ==
  ASSUME NEW m \in Mem, NEW n \in Mem, NEW d \in PageDirs, NEW e \in PageDirs, NEW v, NEW a \in UPage,
         Traded(m, Holds(d), n, Holds(e)), Holds(d) \cap m.free = {}, Holding(m, d, v),
         n.data[e.map[a]] = v[a], Added(d, e, a)
  PROVE  Holding(n, e, v)
<1>1. ASSUME NEW w, w = v PROVE Holding(n, e, w)
  <2>1. n.data[e.map[a]] = w[a] /\ \A b \in UPage \ {a} : w[b] = v[b]
    BY <1>1
  <2> QED  BY <2>1, HoldingMore
<1> QED  BY <1>1

(* What exec knows when it asks for the next page of the new memory. *)
LEMMA LoadGrowStarts ==
  ASSUME Core, NEW p \in VmProcs, proc[p].st = "RUNNABLE", call[p].pc = "load",
         call[p].seg <= Len(call[p].prog) + 1,
         NEW b, b = call[p], NEW a, a = PageOf(call[p]), NEW d, d = call[p].new,
         NEW old, old = OldSize(call[p].prog, call[p].seg),
         NEW lim, lim = NewSize(call[p].prog, call[p].seg),
         lim < KERNBASE, a * PGSIZE < lim
  PROVE  /\ mem \in Mem /\ b \in CallStates /\ call \in [VmProcs -> CallStates]
         /\ d \in PageDirs /\ Once(d) /\ Holds(d) \cap mem.free = {} /\ a \in UPage /\ d.map[a] = 0 /\ Mapped(d, a)
         /\ old \in Nat /\ lim \in Nat /\ b.seg \in 1..(Len(b.prog) + 1)
         /\ a \in Nat /\ a + 1 <= PGROUNDUP(lim) /\ a + 1 \in 0..UPAGES /\ a >= PGROUNDUP(old)
         /\ Loading(b) /\ Mapped(proc[p].pgdir, PGROUNDUP(proc[p].sz))
         /\ Holding(mem, proc[p].pgdir, view[p]) /\ Holding(mem, d, Loaded(b.prog, b.seg))
         /\ Loaded(b.prog, b.seg)[a] = Zero
<1>1. /\ mem \in Mem /\ proc[p] \in Slot /\ b \in CallStates /\ call \in [VmProcs -> CallStates]
      /\ HasPages(proc[p], b) /\ Extent(proc[p], b) /\ Content(mem, proc[p], b, view[p])
      /\ Holds(b.new) \cap mem.free = {} /\ Once(b.new)
  BY CoreIs
<1>2. /\ Loading(b) /\ Mapped(proc[p].pgdir, PGROUNDUP(proc[p].sz))
      /\ Holding(mem, proc[p].pgdir, view[p]) /\ Holding(mem, b.new, Loaded(b.prog, b.seg))
  BY <1>1 DEF Extent, Content
<1>3. /\ b.prog \in Seq(Segs) /\ b.seg \in 1..(Len(b.prog) + 1) /\ old \in Nat /\ lim \in Nat
      /\ a \in UPage /\ a \in Nat /\ a + 1 <= PGROUNDUP(lim) /\ a + 1 \in 0..UPAGES /\ Mapped(b.new, a)
      /\ a >= PGROUNDUP(old) /\ PGROUNDUP(lim) \in Nat
  BY <1>1, <1>2, LoadingIs
<1>4. b.new \in PageDirs /\ b.new.map[a] = 0
  <2>1. ~(a < a)
    BY <1>3
  <2> QED  BY <1>1, <1>3, <2>1, InCallIs DEF Mapped
<1>5. Loaded(b.prog, b.seg)[a] = Zero
  BY <1>1, <1>2, <1>3, NotLoadedYet
<1>6. d = b.new
  OBVIOUS
<1> QED  BY ONLY <1>1, <1>2, <1>3, <1>4, <1>5, <1>6

(* allocuvm has added a page to the new memory. *)
LEMMA LoadGrown ==
  ASSUME Core, NEW p \in VmProcs, proc[p].st = "RUNNABLE", call[p].pc = "load",
         call[p].seg <= Len(call[p].prog) + 1,
         NEW a, a = PageOf(call[p]), NEW n \in Mem, NEW f \in PageDirs, Once(f),
         NewSize(call[p].prog, call[p].seg) < KERNBASE,
         a * PGSIZE < NewSize(call[p].prog, call[p].seg),
         Traded(mem, Holds(call[p].new), n, Holds(f)), Added(call[p].new, f, a), n.data[f.map[a]] = Zero,
         mem' = n, call' = [call EXCEPT ![p].new = f, ![p].a = a + 1], proc' = proc, view' = view
  PROVE  Core'
<1> DEFINE b == call[p]
           d == call[p].new
           old == OldSize(b.prog, b.seg)
           lim == NewSize(b.prog, b.seg)
           L == Loaded(b.prog, b.seg)
           c == [b EXCEPT !.new = f, !.a = a + 1]
           T == {}
<1>0. b = call[p] /\ d = call[p].new
  OBVIOUS
<1>1. /\ mem \in Mem /\ b \in CallStates /\ call \in [VmProcs -> CallStates]
      /\ d \in PageDirs /\ Once(d) /\ Holds(d) \cap mem.free = {} /\ a \in UPage /\ d.map[a] = 0 /\ Mapped(d, a)
      /\ old \in Nat /\ lim \in Nat /\ b.seg \in 1..(Len(b.prog) + 1)
      /\ a \in Nat /\ a + 1 <= PGROUNDUP(lim) /\ a + 1 \in 0..UPAGES /\ a >= PGROUNDUP(old)
      /\ Loading(b) /\ Mapped(proc[p].pgdir, PGROUNDUP(proc[p].sz))
      /\ Holding(mem, proc[p].pgdir, view[p]) /\ Holding(mem, d, L)
      /\ L[a] = Zero
  BY LoadGrowStarts
<1>2. /\ Traded(mem, Holds(d), n, Holds(f)) /\ Added(d, f, a) /\ n.data[f.map[a]] = L[a]
  BY <1>1
<1>3. call' = [call EXCEPT ![p] = c] /\ mem' = n /\ mem' \in Mem /\ proc' = proc /\ view' = view
  BY <1>1
<1>4. c \in CallStates /\ c.pc = b.pc /\ c.new = f /\ c.a = a + 1 /\ c.seg = b.seg /\ c.prog = b.prog
  <2> DEFINE s == a + 1
  <2>1. c = CallOf(b.pc, f, s, b.lim, b.seg, b.child, b.prog)
    <3>1. b = CallOf(b.pc, b.new, b.a, b.lim, b.seg, b.child, b.prog)
      BY <1>1, CallParts
    <3>2. ASSUME NEW e, e = c PROVE e = CallOf(b.pc, f, s, b.lim, b.seg, b.child, b.prog)
      BY <3>1, <3>2 DEF CallOf
    <3> QED  BY <3>2
  <2>2. b \in CallStates /\ f \in PageDirs /\ s \in 0..UPAGES
    BY <1>1
  <2> HIDE DEF c, s, b
  <2>3. Fields(b)
    BY <2>2, CallParts
  <2>4. c \in CallStates /\ c.pc = b.pc /\ c.new = f /\ c.a = s /\ c.seg = b.seg /\ c.prog = b.prog
    BY ONLY <2>1, <2>2, <2>3, CallOfIs DEF Fields
  <2> QED  BY <2>4 DEF s
<1>5. c.pc = "load"
  <2> HIDE DEF c
  <2> QED  BY <1>4
<1> HIDE DEF b, d, c, old, lim, L
<1>6. /\ mem'.free \cup Holds(c.new) = mem.free \cup Holds(d) /\ Holds(c.new) \cap mem'.free = {}
      /\ Once(c.new)
  <2>1. n.free \cup Holds(f) = mem.free \cup Holds(d) /\ n.free \cap Holds(f) = {} /\ Once(f)
    BY <1>2 DEF Traded
  <2> QED  BY ONLY <1>3, <1>4, <2>1
<1>7. \A g \in Frames : g \notin mem.free /\ g \notin mem'.free /\ g \notin T => mem'.data[g] = mem.data[g]
  BY ONLY <1>2, <1>3 DEF Traded, Kept
<1>8. Holding(mem', c.new, Loaded(c.prog, c.seg))
  <2>1. n \in Mem /\ f \in PageDirs
    OBVIOUS
  <2>2. Holding(n, f, L)
    BY ONLY <1>1, <1>2, <2>1, HoldingPlus
  <2> QED  BY ONLY <1>3, <1>4, <2>2 DEF L
<1>9. Loading(c)
  <2>1. Mapped(f, a + 1)
    BY <1>1, <1>2, Adds
  <2>2. Max({a + 1, PGROUNDUP(old)}) = a + 1
    <3> DEFINE s == a + 1
               t == PGROUNDUP(old)
    <3>1. s \in Nat /\ t \in Nat /\ t < s
      BY <1>1, RoundUp
    <3> HIDE DEF s, t
    <3>2. Max({s, t}) \in Nat /\ Max({s, t}) >= s /\ (Max({s, t}) = s \/ Max({s, t}) = t)
      BY ONLY <3>1, Larger
    <3>3. Max({s, t}) = s
      BY ONLY <3>1, <3>2
    <3> QED  BY <3>3 DEF s, t
  <2>3. c.a <= PGROUNDUP(NewSize(c.prog, c.seg)) /\ Mapped(c.new, Max({c.a, PGROUNDUP(OldSize(c.prog, c.seg))}))
    BY ONLY <1>1, <1>4, <2>1, <2>2 DEF old, lim
  <2>4. c.seg \in 1..(Len(c.prog) + 2) /\ c.seg # Len(c.prog) + 2
    <3>1. Len(b.prog) \in Nat
      BY <1>1, LoadingIs DEF Loading
    <3> QED  BY ONLY <1>1, <1>4, <3>1
  <2>5. \A i \in 1..Len(c.prog) : c.prog[i].file <= c.prog[i].mem
    BY ONLY <1>1, <1>4 DEF Loading
  <2> QED  BY ONLY <2>3, <2>4, <2>5 DEF Loading
<1>10. proc[p].st = "RUNNABLE" /\ Mapped(proc[p].pgdir, PGROUNDUP(proc[p].sz)) /\ Holding(mem, proc[p].pgdir, view[p])
  BY <1>1
<1>11. /\ mem'.free \cup Holds(c.new) = mem.free \cup Holds(call[p].new) /\ Holds(c.new) \cap mem'.free = {}
       /\ Once(c.new) /\ T \subseteq Holds(call[p].new) /\ call[p].pc = c.pc
  BY <1>4, <1>6 DEF d, b
<1> HIDE DEF T
<1> QED  BY ONLY Core, p \in VmProcs, <1>3, <1>4, <1>5, <1>7, <1>8, <1>9, <1>10, <1>11, LoadStep

(* allocuvm adds a page to the new memory, or there is none to add. *)
LEMMA LoadGrowKeeps ==
  ASSUME Core, NEW p \in VmProcs, proc[p].st = "RUNNABLE", call[p].pc = "load",
         call[p].seg <= Len(call[p].prog) + 1, NEW w,
         w = allocuvm(mem, call[p].new, PageOf(call[p]), OldSize(call[p].prog, call[p].seg),
                      NewSize(call[p].prog, call[p].seg)),
         NewSize(call[p].prog, call[p].seg) < KERNBASE,
         PageOf(call[p]) * PGSIZE < NewSize(call[p].prog, call[p].seg),
         IF w.ok THEN /\ mem' = w.m
                      /\ call' = [call EXCEPT ![p].new = w.d, ![p].a = PageOf(call[p]) + 1]
                      /\ UNCHANGED <<proc, view>>
                 ELSE Bad(p, w.m, w.d)
  PROVE  Core'
<1> DEFINE d == call[p].new
           a == PageOf(call[p])
           old == OldSize(call[p].prog, call[p].seg)
           lim == NewSize(call[p].prog, call[p].seg)
           n == w.m
           f == w.d
<1>1. /\ mem \in Mem /\ d \in PageDirs /\ Once(d) /\ Holds(d) \cap mem.free = {} /\ a \in UPage /\ d.map[a] = 0
      /\ old \in Nat /\ lim \in Nat
  <2>1. lim < KERNBASE /\ a * PGSIZE < lim
    OBVIOUS
  <2> QED  BY ONLY Core, p \in VmProcs, proc[p].st = "RUNNABLE", call[p].pc = "load",
                   call[p].seg <= Len(call[p].prog) + 1, <2>1, LoadGrowStarts
<1>2. w = allocuvm(mem, d, a, old, lim)
  OBVIOUS
<1>3. w.ok => mem' = n /\ call' = [call EXCEPT ![p].new = f, ![p].a = a + 1] /\ proc' = proc /\ view' = view
  OBVIOUS
<1>4. ~w.ok => Bad(p, n, f)
  OBVIOUS
<1>5. /\ lim < KERNBASE /\ a * PGSIZE < lim /\ d = call[p].new /\ a = PageOf(call[p])
      /\ lim = NewSize(call[p].prog, call[p].seg)
  OBVIOUS
<1> HIDE DEF d, a, old, lim
<1>6. /\ w.ok \in BOOLEAN /\ w.m \in Mem /\ w.d \in PageDirs /\ Once(w.d)
      /\ Traded(mem, Holds(d), w.m, Holds(w.d))
      /\ w.ok => Added(d, w.d, a) /\ w.m.data[w.d.map[a]] = Zero
  BY ONLY <1>1, <1>2, Grows
<1>7. /\ n \in Mem /\ f \in PageDirs /\ Once(f) /\ Traded(mem, Holds(d), n, Holds(f))
      /\ w.ok => Added(d, f, a) /\ n.data[f.map[a]] = Zero
  BY ONLY <1>6
<1> HIDE DEF n, f
<1>8. CASE ~w.ok
  <2>1. Bad(p, n, f)
    BY ONLY <1>4, <1>8
  <2> QED  BY ONLY Core, p \in VmProcs, proc[p].st = "RUNNABLE", call[p].pc = "load", <1>5, <1>7, <2>1, BadKeeps
<1>9. CASE w.ok
  <2>1. /\ Added(d, f, a) /\ n.data[f.map[a]] = Zero /\ mem' = n
        /\ call' = [call EXCEPT ![p].new = f, ![p].a = a + 1] /\ proc' = proc /\ view' = view
    BY ONLY <1>3, <1>7, <1>9
  <2> QED  BY ONLY Core, p \in VmProcs, proc[p].st = "RUNNABLE", call[p].pc = "load",
                   call[p].seg <= Len(call[p].prog) + 1, <1>5, <1>7, <2>1, LoadGrown
<1> QED  BY ONLY <1>8, <1>9

(* What loaduvm writes. *)
LEMMA Reads ==
  ASSUME NEW m \in Mem, NEW d \in PageDirs, Once(d), NEW prog \in Seq(Segs), NEW n \in 1..Len(prog),
         Holding(m, d, Loaded(prog, n)), NEW r, r = loaduvm(m, d, prog[n])
  PROVE  /\ r \in Mem /\ r.free = m.free /\ Holding(r, d, Loaded(prog, n + 1))
         /\ \A g \in Frames : g \notin Holds(d) => r.data[g] = m.data[g]
<1> DEFINE fs == {d.map[a] : a \in {b \in UPage : InFile(prog[n], b)}}
           data == [f \in Frames |-> IF f \in fs THEN Text ELSE m.data[f]]
<1>1. m.data \in [Frames -> Int] /\ m.free \in SUBSET Frames /\ m = [free |-> m.free, data |-> m.data]
  BY DEF Mem
<1>2. r = [free |-> m.free, data |-> data]
  BY <1>1 DEF loaduvm
<1>3. data \in [Frames -> Int]
  BY <1>1 DEF Text
<1>4. r \in Mem /\ r.free = m.free /\ r.data = data
  <2> HIDE DEF data
  <2> QED  BY <1>1, <1>2, <1>3 DEF Mem
<1>5. \A f : f \in fs <=> \E a \in UPage : InFile(prog[n], a) /\ f = d.map[a]
  OBVIOUS
<1>6. \A g \in Frames : r.data[g] = IF g \in fs THEN Text ELSE m.data[g]
  BY <1>4
<1> HIDE DEF fs, data
<1>7. ASSUME NEW g \in Frames, g \notin Holds(d) PROVE r.data[g] = m.data[g]
  <2>1. g \notin fs
    <3>1. g # 0
      BY FramesNat
    <3> QED  BY <1>5, <1>7, <3>1, InHolds
  <2> QED  BY <1>6, <2>1
<1>8. ASSUME NEW a \in UPage, d.map[a] # 0 PROVE r.data[d.map[a]] = Loaded(prog, n + 1)[a]
  <2>1. d.map[a] \in Frames
    <3>1. d.map[a] \in Holds(d)
      BY <1>8, InHolds
    <3> QED  BY <3>1, HoldsFrames
  <2>2. d.map[a] \in fs <=> InFile(prog[n], a)
    <3>1. \A b \in UPage \ {a} : d.map[b] # d.map[a]
      BY <1>8 DEF Once
    <3> QED  BY <1>5, <3>1
  <2>3. m.data[d.map[a]] = Loaded(prog, n)[a]
    BY <1>8 DEF Holding
  <2>4. /\ Loaded(prog, n)[a] = IF \E i \in 1..Len(prog) : i < n /\ InFile(prog[i], a) THEN Text ELSE Zero
        /\ Loaded(prog, n + 1)[a] = IF \E i \in 1..Len(prog) : i < n + 1 /\ InFile(prog[i], a) THEN Text ELSE Zero
    BY DEF Loaded
  <2>5. \A i \in 1..Len(prog) : i < n + 1 <=> i < n \/ i = n
    OBVIOUS
  <2>6. CASE InFile(prog[n], a)
    <3>1. \E i \in 1..Len(prog) : i < n + 1 /\ InFile(prog[i], a)
      BY <2>5, <2>6
    <3> QED  BY <1>6, <2>1, <2>2, <2>4, <2>6, <3>1
  <2>7. CASE ~InFile(prog[n], a)
    <3>1. (\E i \in 1..Len(prog) : i < n + 1 /\ InFile(prog[i], a)) <=> \E i \in 1..Len(prog) : i < n /\ InFile(prog[i], a)
      BY <2>5, <2>7
    <3> QED  BY <1>6, <2>1, <2>2, <2>3, <2>4, <2>7, <3>1
  <2> QED  BY <2>6, <2>7
<1> QED  BY <1>4, <1>7, <1>8 DEF Holding

(* A segment is read: on with the next one. *)
LEMMA LoadReadKeeps ==
  ASSUME Core, NEW p \in VmProcs, proc[p].st = "RUNNABLE", call[p].pc = "load",
         call[p].seg <= Len(call[p].prog),
         PageOf(call[p]) * PGSIZE >= NewSize(call[p].prog, call[p].seg),
         mem' = loaduvm(mem, call[p].new, call[p].prog[call[p].seg]),
         call' = [call EXCEPT ![p].seg = @ + 1], proc' = proc, view' = view
  PROVE  Core'
<1> DEFINE b == call[p]
           n == b.seg + 1
           c == [b EXCEPT !.seg = n]
           T == Holds(b.new)
<1>1. /\ mem \in Mem /\ proc[p] \in Slot /\ b \in CallStates /\ call \in [VmProcs -> CallStates]
      /\ Extent(proc[p], b) /\ Content(mem, proc[p], b, view[p])
      /\ Holds(b.new) \cap mem.free = {} /\ Once(b.new)
  BY CoreIs
<1>2. /\ Loading(b) /\ Mapped(proc[p].pgdir, PGROUNDUP(proc[p].sz))
      /\ Holding(mem, proc[p].pgdir, view[p]) /\ Holding(mem, b.new, Loaded(b.prog, b.seg))
  BY <1>1 DEF Extent, Content
<1>3. b.new \in PageDirs /\ b.prog \in Seq(Segs) /\ b.a \in Nat /\ Len(b.prog) \in Nat
  BY <1>1, InCallIs
<1>4. b.seg \in 1..Len(b.prog) /\ b.seg <= Len(b.prog) + 1 /\ n \in Nat /\ n \in 1..(Len(b.prog) + 2)
      /\ n # Len(b.prog) + 2
  BY SMTT(30), <1>2, <1>3 DEF Loading
<1>5. /\ PageOf(b) = PGROUNDUP(NewSize(b.prog, b.seg)) /\ PageOf(b) \in Nat /\ PageOf(b) >= b.a /\ Mapped(b.new, PageOf(b))
  BY <1>1, <1>2, <1>4, LoadingIs
<1>6. c \in CallStates /\ c.pc = b.pc /\ c.new = b.new /\ c.a = b.a /\ c.seg = n /\ c.prog = b.prog
  <2> HIDE DEF b, n
  <2>1. c = CallOf(b.pc, b.new, b.a, b.lim, n, b.child, b.prog)
    <3>1. b = CallOf(b.pc, b.new, b.a, b.lim, b.seg, b.child, b.prog)
      BY <1>1, CallParts
    <3>2. ASSUME NEW e, e = c PROVE e = CallOf(b.pc, b.new, b.a, b.lim, n, b.child, b.prog)
      BY <3>1, <3>2 DEF CallOf
    <3> QED  BY <3>2
  <2> HIDE DEF c
  <2>2. Fields(b)
    BY <1>1, CallParts
  <2> QED  BY ONLY <1>4, <2>1, <2>2, CallOfIs DEF Fields
<1>7. call' = [call EXCEPT ![p] = c] /\ proc' = proc /\ view' = view
  BY <1>1
<1> HIDE DEF c
<1>8. /\ mem' \in Mem /\ mem'.free = mem.free /\ Holding(mem', b.new, Loaded(b.prog, n))
      /\ \A g \in Frames : g \notin Holds(b.new) => mem'.data[g] = mem.data[g]
  <2> DEFINE k == b.seg
             r == mem'
             d == b.new
             prog == b.prog
  <2>1. /\ mem \in Mem /\ d \in PageDirs /\ Once(d) /\ prog \in Seq(Segs) /\ k \in 1..Len(prog)
        /\ Holding(mem, d, Loaded(prog, k)) /\ r = loaduvm(mem, d, prog[k])
    BY <1>1, <1>2, <1>3, <1>4
  <2> HIDE DEF k, d, prog, r
  <2>2. /\ r \in Mem /\ r.free = mem.free /\ Holding(r, d, Loaded(prog, k + 1))
        /\ \A g \in Frames : g \notin Holds(d) => r.data[g] = mem.data[g]
    BY ONLY <2>1, Reads
  <2> QED  BY <2>2 DEF k, d, prog, r
<1>9. /\ mem'.free \cup Holds(c.new) = mem.free \cup Holds(call[p].new) /\ Holds(c.new) \cap mem'.free = {}
      /\ Once(c.new) /\ T \subseteq Holds(call[p].new) /\ c.pc = "load"
  BY <1>1, <1>6, <1>8
<1>10. \A g \in Frames : g \notin mem.free /\ g \notin mem'.free /\ g \notin T => mem'.data[g] = mem.data[g]
  BY <1>8
<1>11. Holding(mem', c.new, Loaded(c.prog, c.seg))
  BY <1>6, <1>8
<1>12. Loading(c)
  <2>1. /\ n \in 1..(Len(b.prog) + 1) /\ PGROUNDUP(OldSize(b.prog, n)) = PGROUNDUP(NewSize(b.prog, b.seg))
        /\ PGROUNDUP(NewSize(b.prog, b.seg)) <= PGROUNDUP(NewSize(b.prog, n))
    BY <1>3, <1>4, SizesMeet
  <2>2. PGROUNDUP(NewSize(b.prog, n)) \in Nat
    BY <1>3, <2>1, SizesAre, RoundUp
  <2>3. Max({b.a, PGROUNDUP(OldSize(b.prog, n))}) = PageOf(b)
    <3> DEFINE s == b.a
               t == PGROUNDUP(OldSize(b.prog, n))
    <3>1. s \in Nat /\ t \in Nat /\ s <= t /\ t = PageOf(b)
      BY <1>3, <1>5, <2>1
    <3> HIDE DEF s, t
    <3>2. Max({s, t}) \in Nat /\ Max({s, t}) >= t /\ (Max({s, t}) = s \/ Max({s, t}) = t)
      BY ONLY <3>1, Larger
    <3>3. Max({s, t}) = t
      BY ONLY <3>1, <3>2
    <3> QED  BY <3>1, <3>3 DEF s, t
  <2>4. b.a <= PGROUNDUP(NewSize(b.prog, n))
    BY <1>3, <1>5, <2>1, <2>2
  <2>5. c.a <= PGROUNDUP(NewSize(c.prog, c.seg)) /\ Mapped(c.new, Max({c.a, PGROUNDUP(OldSize(c.prog, c.seg))}))
    BY <1>5, <1>6, <2>3, <2>4
  <2>6. c.seg \in 1..(Len(c.prog) + 2) /\ c.seg # Len(c.prog) + 2
    BY <1>4, <1>6
  <2>7. \A i \in 1..Len(c.prog) : c.prog[i].file <= c.prog[i].mem
    BY <1>2, <1>6 DEF Loading
  <2> QED  BY <2>5, <2>6, <2>7 DEF Loading
<1>13. proc[p].st = "RUNNABLE" /\ Mapped(proc[p].pgdir, PGROUNDUP(proc[p].sz)) /\ Holding(mem, proc[p].pgdir, view[p])
  BY <1>2
<1>14. c \in CallStates /\ mem' \in Mem
  BY <1>6, <1>8
<1> HIDE DEF T
<1> QED  BY ONLY Core, p \in VmProcs, <1>7, <1>9, <1>10, <1>11, <1>12, <1>13, <1>14, LoadStep

(* clearpteu leaves the pages where they are. *)
LEMMA Clears ==
  ASSUME NEW d \in PageDirs, Once(d), NEW a, NEW e, e = clearpteu(d, a)
  PROVE  e \in PageDirs /\ Once(e) /\ Holds(e) = Holds(d) /\ e.map = d.map
<1>1. d = [dir |-> d.dir, kpt |-> d.kpt, pt |-> d.pt, map |-> d.map, u |-> d.u]
  BY DEF PageDirs
<1>2. e = [dir |-> d.dir, kpt |-> d.kpt, pt |-> d.pt, map |-> d.map, u |-> d.u \ {a}]
  BY <1>1 DEF clearpteu
<1>3. e.dir = d.dir /\ e.kpt = d.kpt /\ e.pt = d.pt /\ e.map = d.map /\ e.u = d.u \ {a}
  BY <1>2
<1>4. e \in PageDirs
  BY <1>2 DEF PageDirs
<1>5. Once(e)
  BY <1>3 DEF Once
<1>6. Holds(e) = Holds(d)
  BY <1>3 DEF Holds
<1> QED  BY <1>3, <1>4, <1>5, <1>6

(* The stack is there: its guard page is closed. *)
LEMMA LoadEndKeeps ==
  ASSUME Core, NEW p \in VmProcs, proc[p].st = "RUNNABLE", call[p].pc = "load",
         call[p].seg = Len(call[p].prog) + 1,
         PageOf(call[p]) * PGSIZE >= NewSize(call[p].prog, call[p].seg),
         NewSize(call[p].prog, call[p].seg) < KERNBASE, NEW k,
         call' = [call EXCEPT ![p].seg = @ + 1, ![p].lim = NewSize(call[p].prog, call[p].seg),
                              ![p].new = clearpteu(@, k)],
         mem' = mem, proc' = proc, view' = view
  PROVE  Core'
<1> DEFINE b == call[p]
           n == b.seg + 1
           lim == NewSize(b.prog, b.seg)
           d == clearpteu(b.new, k)
           c == [b EXCEPT !.seg = n, !.lim = lim, !.new = d]
           T == {}
<1>1. /\ mem \in Mem /\ proc[p] \in Slot /\ b \in CallStates /\ call \in [VmProcs -> CallStates]
      /\ Extent(proc[p], b) /\ Content(mem, proc[p], b, view[p])
      /\ Holds(b.new) \cap mem.free = {} /\ Once(b.new)
  BY CoreIs
<1>2. /\ Loading(b) /\ Mapped(proc[p].pgdir, PGROUNDUP(proc[p].sz))
      /\ Holding(mem, proc[p].pgdir, view[p]) /\ Holding(mem, b.new, Loaded(b.prog, b.seg))
  BY <1>1 DEF Extent, Content
<1>3. b.new \in PageDirs /\ b.prog \in Seq(Segs) /\ Len(b.prog) \in Nat /\ b.seg \in Nat
  BY <1>1, InCallIs
<1>4. b.seg <= Len(b.prog) + 1 /\ n \in Nat /\ n = Len(b.prog) + 2 /\ n - 1 = b.seg
  BY <1>3
<1>5. /\ PageOf(b) = PGROUNDUP(lim) /\ lim \in Nat /\ Mapped(b.new, PageOf(b))
  BY <1>1, <1>2, <1>4, LoadingIs
<1>6. d \in PageDirs /\ Once(d) /\ Holds(d) = Holds(b.new) /\ d.map = b.new.map
  BY <1>1, <1>3, Clears
<1>7. call' = [call EXCEPT ![p] = c] /\ proc' = proc /\ view' = view /\ mem' \in Mem
  BY <1>1
<1>8. c \in CallStates /\ c.pc = b.pc /\ c.new = d /\ c.lim = lim /\ c.seg = n /\ c.prog = b.prog
  <2>1. lim \in 0..(KERNBASE - 1)
    BY <1>5, Kernbase
  <2> HIDE DEF b, n, lim, d
  <2>2. c = CallOf(b.pc, d, b.a, lim, n, b.child, b.prog)
    <3>1. b = CallOf(b.pc, b.new, b.a, b.lim, b.seg, b.child, b.prog)
      BY <1>1, CallParts
    <3>2. ASSUME NEW e, e = c PROVE e = CallOf(b.pc, d, b.a, lim, n, b.child, b.prog)
      BY <3>1, <3>2 DEF CallOf
    <3> QED  BY <3>2
  <2> HIDE DEF c
  <2>3. Fields(b)
    BY <1>1, CallParts
  <2> QED  BY ONLY <1>4, <1>6, <2>1, <2>2, <2>3, CallOfIs DEF Fields
<1> HIDE DEF c, d
<1>9. /\ mem'.free \cup Holds(c.new) = mem.free \cup Holds(call[p].new) /\ Holds(c.new) \cap mem'.free = {}
      /\ Once(c.new) /\ T \subseteq Holds(call[p].new) /\ c.pc = "load"
  BY <1>1, <1>6, <1>8
<1>10. \A g \in Frames : g \notin mem.free /\ g \notin mem'.free /\ g \notin T => mem'.data[g] = mem.data[g]
  OBVIOUS
<1>11. Holding(mem', c.new, Loaded(c.prog, c.seg))
  <2>1. Loaded(b.prog, n) = Loaded(b.prog, b.seg)
    <3>1. \A i \in 1..Len(b.prog) : i < n <=> i < b.seg
      BY <1>3, <1>4
    <3> QED  BY <3>1 DEF Loaded
  <2> QED  BY <1>2, <1>6, <1>8, <2>1 DEF Holding
<1>12. Loading(c)
  <2>1. c.lim = NewSize(c.prog, Len(c.prog) + 1)
    BY <1>8
  <2>2. Mapped(c.new, PGROUNDUP(c.lim))
    BY <1>5, <1>6, <1>8 DEF Mapped
  <2>3. c.seg \in 1..(Len(c.prog) + 2) /\ ~(c.seg <= Len(c.prog) + 1)
    BY <1>3, <1>4, <1>8
  <2>4. \A i \in 1..Len(c.prog) : c.prog[i].file <= c.prog[i].mem
    BY <1>2, <1>8 DEF Loading
  <2> QED  BY <2>1, <2>2, <2>3, <2>4 DEF Loading
<1>13. proc[p].st = "RUNNABLE" /\ Mapped(proc[p].pgdir, PGROUNDUP(proc[p].sz)) /\ Holding(mem, proc[p].pgdir, view[p])
  BY <1>2
<1>14. c \in CallStates
  BY <1>8
<1> HIDE DEF T
<1> QED  BY ONLY Core, p \in VmProcs, <1>7, <1>9, <1>10, <1>11, <1>12, <1>13, <1>14, LoadStep

(* A turn of exec: give up, add a page, read a segment, close the guard page. *)
LEMMA LoadPageKeeps ==
  ASSUME Core, NEW p \in VmProcs, LoadPage(p) PROVE Core'
<1> DEFINE b == call[p]
           n == Len(b.prog)
           old == OldSize(b.prog, b.seg)
           lim == NewSize(b.prog, b.seg)
           a == PageOf(b)
           w == allocuvm(mem, b.new, a, old, lim)
<1>1. /\ proc[p].st = "RUNNABLE" /\ b.pc = "load" /\ b.seg <= n + 1
      /\ \/ lim >= KERNBASE /\ Bad(p, mem, b.new)
         \/ /\ lim < KERNBASE /\ a * PGSIZE < lim
            /\ IF w.ok THEN /\ mem' = w.m
                            /\ call' = [call EXCEPT ![p].new = w.d, ![p].a = a + 1]
                            /\ UNCHANGED <<proc, view>>
                       ELSE Bad(p, w.m, w.d)
         \/ /\ lim < KERNBASE /\ a * PGSIZE >= lim /\ b.seg <= n
            /\ mem' = loaduvm(mem, b.new, b.prog[b.seg])
            /\ call' = [call EXCEPT ![p].seg = @ + 1]
            /\ UNCHANGED <<proc, view>>
         \/ /\ lim < KERNBASE /\ a * PGSIZE >= lim /\ b.seg = n + 1
            /\ call' = [call EXCEPT ![p].seg = @ + 1, ![p].lim = lim, ![p].new = clearpteu(@, PGROUNDUP(old))]
            /\ UNCHANGED <<mem, proc, view>>
  BY DEF LoadPage, Inside, PageOf
<1>2. CASE lim >= KERNBASE /\ Bad(p, mem, b.new)
  BY <1>1, <1>2, BadNowKeeps
<1>3. CASE /\ lim < KERNBASE /\ a * PGSIZE < lim
           /\ IF w.ok THEN /\ mem' = w.m
                           /\ call' = [call EXCEPT ![p].new = w.d, ![p].a = a + 1]
                           /\ UNCHANGED <<proc, view>>
                      ELSE Bad(p, w.m, w.d)
  <2>1. PICK ww : ww = w
    OBVIOUS
  <2>2. ww = allocuvm(mem, call[p].new, PageOf(call[p]), OldSize(call[p].prog, call[p].seg),
                      NewSize(call[p].prog, call[p].seg))
    BY <2>1
  <2>3. IF ww.ok THEN /\ mem' = ww.m
                      /\ call' = [call EXCEPT ![p].new = ww.d, ![p].a = PageOf(call[p]) + 1]
                      /\ UNCHANGED <<proc, view>>
                 ELSE Bad(p, ww.m, ww.d)
    BY <1>3, <2>1
  <2> QED  BY ONLY Core, p \in VmProcs, <1>1, <1>3, <2>2, <2>3, LoadGrowKeeps
<1>4. CASE /\ lim < KERNBASE /\ a * PGSIZE >= lim /\ b.seg <= n
           /\ mem' = loaduvm(mem, b.new, b.prog[b.seg])
           /\ call' = [call EXCEPT ![p].seg = @ + 1]
           /\ UNCHANGED <<proc, view>>
  BY <1>1, <1>4, LoadReadKeeps
<1>5. CASE /\ lim < KERNBASE /\ a * PGSIZE >= lim /\ b.seg = n + 1
           /\ call' = [call EXCEPT ![p].seg = @ + 1, ![p].lim = lim, ![p].new = clearpteu(@, PGROUNDUP(old))]
           /\ UNCHANGED <<mem, proc, view>>
  <2>1. mem' = mem /\ proc' = proc /\ view' = view
    BY <1>5
  <2> QED  BY <1>1, <1>5, <2>1, LoadEndKeeps
<1> QED
  <2> HIDE DEF a, b, n, old, lim, w
  <2> QED  BY <1>1, <1>2, <1>3, <1>4, <1>5

(* exec's memory ends with whole pages. *)
LEMMA EndIs ==
  ASSUME NEW prog \in Seq(Segs), NEW lim, lim = NewSize(prog, Len(prog) + 1)
  PROVE  /\ lim \in Nat /\ PGROUNDUP(lim) \in Nat
         /\ \A a \in Nat : (a + 1) * PGSIZE = lim <=> a = PGROUNDUP(lim) - 1
<1> DEFINE n == Len(prog) + 1
           k == PGROUNDUP(SizeAt(prog, n))
<1>1. n \in 1..(Len(prog) + 1) /\ ~(n <= Len(prog))
  OBVIOUS
<1>2. k \in Nat
  BY <1>1, SizeIs, RoundUp
<1>3. lim = k * PGSIZE + 2 * PGSIZE
  BY <1>1 DEF NewSize, OldSize
<1> HIDE DEF k
<1> DEFINE j == k + 2
<1>4. lim = j * PGSIZE /\ lim \in Nat /\ j \in Nat
  BY <1>2, <1>3, Constants
<1>5. PGROUNDUP(lim) = j
  <2> HIDE DEF j
  <2> QED  BY <1>4, RoundUpPages
<1> HIDE DEF j
<1>6. ASSUME NEW a \in Nat PROVE (a + 1) * PGSIZE = lim <=> a = j - 1
  <2> DEFINE s == a + 1
  <2>1. s \in Nat /\ (s = j <=> a = j - 1)
    BY <1>4
  <2> HIDE DEF s
  <2>2. PGROUNDUP(s * PGSIZE) = s
    BY <2>1, RoundUpPages
  <2>3. s * PGSIZE = lim <=> s = j
    BY <1>4, <1>5, <2>2
  <2> QED  BY <2>1, <2>3 DEF s
<1> QED  BY <1>4, <1>5, <1>6

(* exec writes the arguments, takes the new memory and frees the old. *)
LEMMA CommitKeeps ==
  ASSUME Core, NEW p \in VmProcs, Commit(p) PROVE Core'
<1> DEFINE b == call[p]
           d == proc[p].pgdir
           e == b.new
           z == b.lim
           top == PGROUNDUP(z) - 1
           x == [proc[p] EXCEPT !.pgdir = e, !.sz = z]
           c == UserMode
           v == ProgramImage(b.prog, z)
           f == e.map[top]
           m == freevm(mem, d)
           T == {f}
<1>1. /\ proc[p].st = "RUNNABLE" /\ b.pc = "load" /\ b.seg = Len(b.prog) + 2 /\ top \in e.u
      /\ mem' = memset(m, f, Args)
      /\ proc' = [proc EXCEPT ![p].pgdir = e, ![p].sz = z]
      /\ view' = [view EXCEPT ![p] = v] /\ call' = [call EXCEPT ![p] = c]
  BY DEF Commit, Inside, copyout, BackToUser
<1>2. /\ mem \in Mem /\ proc[p] \in Slot /\ b \in CallStates /\ proc \in [VmProcs -> Slot]
      /\ HasPages(proc[p], b) /\ Extent(proc[p], b) /\ Content(mem, proc[p], b, view[p])
      /\ Holds(d) \cap mem.free = {} /\ Holds(e) \cap mem.free = {} /\ Holds(d) \cap Holds(e) = {}
      /\ Once(d) /\ Once(e)
  BY <1>1, CoreIs
<1>3. Loading(b) /\ Holding(mem, e, Loaded(b.prog, b.seg))
  BY <1>1, <1>2 DEF Extent, Content
<1>4. /\ e \in PageDirs /\ b.prog \in Seq(Segs) /\ z \in 0..(KERNBASE - 1) /\ z \in Nat /\ Len(b.prog) \in Nat /\ d \in PageDirs
  BY <1>2, InCallIs, SlotIs
<1>5. z = NewSize(b.prog, Len(b.prog) + 1) /\ Mapped(e, PGROUNDUP(z))
  BY <1>1, <1>3 DEF Loading
<1>6. PGROUNDUP(z) \in Nat /\ \A a \in Nat : (a + 1) * PGSIZE = z <=> a = top
  BY <1>4, <1>5, EndIs
<1>7. top \in UPage /\ f # 0 /\ f \in Holds(e) /\ f \in Frames
  <2>1. top \in UPage
    BY <1>1, <1>4 DEF PageDirs
  <2>2. f # 0
    BY <1>1, <1>2 DEF Once
  <2>3. f \in Holds(e)
    BY <2>1, <2>2, InHolds
  <2> QED  BY <1>4, <2>1, <2>2, <2>3, HoldsFrames
<1>8. m \in Mem /\ m.free = mem.free \cup Holds(d) /\ Kept(mem, m)
  BY <1>2, <1>4, FreesAll
<1>9. mem' \in Mem /\ mem'.free = m.free /\ mem'.data = [m.data EXCEPT ![f] = Args]
  <2>1. Args \in Int
    BY DEF Args
  <2> HIDE DEF m, f
  <2> QED  BY <1>1, <1>7, <1>8, <2>1, Sets
<1>10. /\ mem'.data[f] = Args
       /\ \A g \in Frames : g # f => mem'.data[g] = m.data[g]
  <2>1. m.data \in [Frames -> Int]
    BY <1>8 DEF Mem
  <2> HIDE DEF m, f
  <2> QED  BY <1>7, <1>9, <2>1
<1>11. x \in Slot /\ x.st = proc[p].st /\ x.kstack = proc[p].kstack /\ x.pgdir = e /\ x.sz = z
  <2> DEFINE y == proc[p]
  <2>1. x = SlotWith(y, e, z) /\ y \in Slot
    BY <1>2 DEF SlotWith
  <2> HIDE DEF x, y, e, z
  <2>2. x \in Slot /\ x.st = y.st /\ x.kstack = y.kstack /\ x.pgdir = e /\ x.sz = z
    BY ONLY <1>4, <2>1, SlotWithIs
  <2> QED  BY <2>2 DEF y
<1>12. proc' = [proc EXCEPT ![p] = x]
  BY <1>1, <1>2
<1>13. v \in [UPage -> Int]
  BY DEF ProgramImage, Args, Text, Zero
<1>14. c \in CallStates /\ c.pc = "user" /\ c.new = NoDir /\ Holds(c.new) = {} /\ ~InFork(c) /\ Once(c.new) /\ c = UserMode
  BY UserIs
<1>15. v = ProgramImage(b.prog, z)
  OBVIOUS
<1> HIDE DEF c, x, v, m
<1>16. /\ mem'.free \cup Holds(x.pgdir) \cup Holds(c.new)
            = mem.free \cup Holds(proc[p].pgdir) \cup Holds(call[p].new)
       /\ Holds(x.pgdir) \cap Holds(c.new) = {} /\ Holds(x.pgdir) \cap mem'.free = {}
       /\ Holds(c.new) \cap mem'.free = {}
       /\ T \subseteq Holds(proc[p].pgdir) \cup Holds(call[p].new)
  BY <1>2, <1>7, <1>8, <1>9, <1>11, <1>14
<1>17. \A g \in Frames : g \notin mem.free /\ g \notin mem'.free /\ g \notin T => mem'.data[g] = mem.data[g]
  BY <1>8, <1>9, <1>10 DEF Kept
<1>18. HasPages(x, c)
  BY <1>1, <1>2, <1>11, <1>14 DEF HasPages
<1>19. Extent(x, c)
  BY <1>5, <1>11, <1>14 DEF Extent
<1>20. ASSUME NEW a \in UPage, e.map[a] # 0 PROVE mem'.data[e.map[a]] = v[a]
  <2>1. a \in Nat
    BY DEF UPage
  <2>2. v[a] = IF (a + 1) * PGSIZE = z THEN Args
               ELSE IF \E i \in 1..Len(b.prog) : InFile(b.prog[i], a) THEN Text ELSE Zero
    BY <1>15 DEF ProgramImage
  <2>3. CASE a = top
    <3>1. v[a] = Args
      BY <1>6, <2>1, <2>2, <2>3
    <3>2. e.map[a] = f
      BY <2>3
    <3> QED  BY <1>10, <3>1, <3>2
  <2>4. CASE a # top
    <3>1. v[a] = IF \E i \in 1..Len(b.prog) : InFile(b.prog[i], a) THEN Text ELSE Zero
      BY <1>6, <2>1, <2>2, <2>4
    <3>2. Loaded(b.prog, b.seg)[a] = IF \E i \in 1..Len(b.prog) : InFile(b.prog[i], a) THEN Text ELSE Zero
      <4>1. \A i \in 1..Len(b.prog) : i < b.seg
        BY <1>1, <1>4
      <4>2. (\E i \in 1..Len(b.prog) : i < b.seg /\ InFile(b.prog[i], a)) <=> \E i \in 1..Len(b.prog) : InFile(b.prog[i], a)
        BY <4>1
      <4> QED  BY <4>2 DEF Loaded
    <3>3. e.map[a] # f
      BY <1>2, <1>7, <1>20, <2>4 DEF Once
    <3>4. e.map[a] \in Holds(e) /\ e.map[a] \in Frames
      <4>1. e.map[a] \in Holds(e)
        BY <1>20, InHolds
      <4> QED  BY <1>4, <4>1, HoldsFrames
    <3>5. mem'.data[e.map[a]] = mem.data[e.map[a]]
      <4>1. e.map[a] \notin mem.free /\ e.map[a] \notin mem'.free /\ e.map[a] \notin T
        BY <1>2, <1>8, <1>9, <3>3, <3>4
      <4> QED  BY <1>17, <3>4, <4>1
    <3>6. mem.data[e.map[a]] = Loaded(b.prog, b.seg)[a]
      BY <1>3, <1>20 DEF Holding
    <3> QED  BY <3>1, <3>2, <3>5, <3>6
  <2> QED  BY <2>3, <2>4
<1>21. Content(mem', x, c, v)
  <2>1. Holding(mem', x.pgdir, v)
    BY <1>11, <1>20 DEF Holding
  <2> QED  BY <1>14, <2>1 DEF Content
<1>22. mem' \in Mem /\ view' = [view EXCEPT ![p] = v] /\ call' = [call EXCEPT ![p] = c]
  BY <1>1, <1>9
<1> HIDE DEF T
<1> QED  BY ONLY Core, p \in VmProcs, <1>11, <1>12, <1>13, <1>14, <1>16, <1>17, <1>18, <1>19, <1>21, <1>22, StepOne

(* The directory of the first process. *)
FirstDir == [dir |-> 2, kpt |-> 3, pt |-> [NoDir.pt EXCEPT ![0] = 4], map |-> [NoDir.map EXCEPT ![0] = 5], u |-> {0}]

(* It has one user page. *)
LEMMA FirstDirIs ==
  /\ FirstDir \in PageDirs /\ Once(FirstDir) /\ Holds(FirstDir) = 2..5
  /\ FirstDir.map[0] = 5 /\ Mapped(FirstDir, 1)
<1> DEFINE d == FirstDir
<1>1. 0 \in Tables /\ 0 \in UPage /\ \A a \in UPage : a \in Nat
  <2>1. UPAGES - 1 \in Nat /\ PTSPAN \in Nat \ {0}
    BY Constants
  <2>2. (UPAGES - 1) \div PTSPAN \in Nat
    BY <2>1, Division
  <2> QED  BY <2>1, <2>2 DEF Tables, UPage
<1>2. d = [dir |-> 2, kpt |-> 3, pt |-> [t \in Tables |-> IF t = 0 THEN 4 ELSE 0],
           map |-> [a \in UPage |-> IF a = 0 THEN 5 ELSE 0], u |-> {0}]
  <2>1. NoDir = [dir |-> 0, kpt |-> 0, pt |-> [t \in Tables |-> 0], map |-> [a \in UPage |-> 0], u |-> {}]
    BY DEF NoDir
  <2>2. NoDir.pt = [t \in Tables |-> 0] /\ NoDir.map = [a \in UPage |-> 0]
    BY <2>1
  <2>3. d = [dir |-> 2, kpt |-> 3, pt |-> [NoDir.pt EXCEPT ![0] = 4], map |-> [NoDir.map EXCEPT ![0] = 5], u |-> {0}]
    BY DEF FirstDir
  <2>4. [NoDir.pt EXCEPT ![0] = 4] = [t \in Tables |-> IF t = 0 THEN 4 ELSE 0]
    BY <1>1, <2>2
  <2>5. [NoDir.map EXCEPT ![0] = 5] = [a \in UPage |-> IF a = 0 THEN 5 ELSE 0]
    BY <1>1, <2>2
  <2> QED  BY <2>3, <2>4, <2>5
<1>3. /\ d.dir = 2 /\ d.kpt = 3 /\ d.u = {0}
      /\ \A t \in Tables : d.pt[t] = IF t = 0 THEN 4 ELSE 0
      /\ \A a \in UPage : d.map[a] = IF a = 0 THEN 5 ELSE 0
  BY <1>2
<1>4. d \in PageDirs
  <2>1. 0 \in 0..NFRAME /\ 2 \in 0..NFRAME /\ 3 \in 0..NFRAME /\ 4 \in 0..NFRAME /\ 5 \in 0..NFRAME
    BY Constants
  <2> QED  BY <1>1, <1>2, <2>1 DEF PageDirs
<1> HIDE DEF d
<1>5. Once(d)
  BY <1>1, <1>3 DEF Once
<1>6. \A f : f \in Holds(d) <=> f \in 2..5
  <2>1. \A f : f \in Holds(d) <=> f = 2 \/ f = 3 \/ f = 4 \/ f = 5
    BY <1>1, <1>3, HoldsIs
  <2>2. \A f : f \in 2..5 <=> f = 2 \/ f = 3 \/ f = 4 \/ f = 5
    OBVIOUS
  <2> QED  BY <2>1, <2>2
<1>7. Holds(d) = 2..5
  BY <1>6
<1>8. Mapped(d, 1)
  <2>1. \A a \in UPage : a < 1 <=> a = 0
    BY <1>1
  <2> QED  BY <1>3, <2>1 DEF Mapped
<1> QED  BY <1>1, <1>3, <1>4, <1>5, <1>7, <1>8 DEF d

(* The slot of the first process. *)
FirstSlot == [st |-> "RUNNABLE", up |-> 0, kstack |-> 1, pgdir |-> FirstDir, sz |-> PGSIZE]

(* What FirstSlot makes. *)
LEMMA FirstSlotIs ==
  /\ FirstSlot \in Slot /\ FirstSlot.st = "RUNNABLE" /\ FirstSlot.kstack = 1
  /\ FirstSlot.pgdir = FirstDir /\ PGROUNDUP(FirstSlot.sz) = 1
<1>1. /\ FirstSlot.st = "RUNNABLE" /\ FirstSlot.up = 0 /\ FirstSlot.kstack = 1 /\ FirstSlot.pgdir = FirstDir
      /\ FirstSlot.sz = PGSIZE
  BY DEF FirstSlot
<1>2. PGSIZE \in 0..(KERNBASE - 1)
  <2>1. 1 \in Nat /\ 1 < UPAGES /\ PGSIZE \in Nat /\ 1 * PGSIZE = PGSIZE
    BY Constants
  <2>2. PGSIZE < KERNBASE /\ KERNBASE \in Nat
    BY <2>1, Kernbase
  <2> QED  BY <2>1, <2>2
<1>3. PGROUNDUP(PGSIZE) = 1
  <2>1. PGROUNDUP(1 * PGSIZE) = 1 /\ 1 * PGSIZE = PGSIZE
    BY RoundUpPages, Constants
  <2> QED  BY <2>1
<1>4. 0 \in 0..NSLOT /\ 1 \in 0..NFRAME
  BY Constants
<1>5. FirstSlot \in Slot
  BY <1>2, <1>4, FirstDirIs DEF FirstSlot, Slot
<1> QED  BY <1>1, <1>3, <1>5

(* userinit divides the pages. *)
LEMMA InitKeeps == VmInit => Core
<1> SUFFICES ASSUME VmInit PROVE Core
  OBVIOUS
<1>1. /\ mem = [free |-> kinit.free \ 1..5,
                data |-> [f \in Frames |-> IF f = 5 THEN Text ELSE IF f < 5 THEN Zero ELSE kinit.data[f]]]
      /\ proc = [p \in VmProcs |-> IF p = 1 THEN FirstSlot ELSE NoProc]
      /\ call = [p \in VmProcs |-> UserMode]
      /\ view = [p \in VmProcs |-> [a \in UPage |-> IF p = 1 /\ a = 0 THEN Text ELSE Zero]]
  BY DEF VmInit, FirstSlot, FirstDir
<1>2. kinit.free = Frames /\ \A f \in Frames : kinit.data[f] \in Int
  <2> DEFINE e == [free |-> {}, data |-> [f \in Frames |-> Zero]]
  <2>1. e \in Mem /\ e.free = {}
    BY DEF Mem, Zero
  <2>2. kinit = kfree_all(e, Frames)
    BY DEF kinit, freerange, Frames
  <2> HIDE DEF e
  <2>3. kinit \in Mem /\ kinit.free = e.free \cup Frames
    BY <2>1, <2>2, Frees
  <2> QED  BY <2>1, <2>3 DEF Mem
<1>3. mem \in Mem /\ mem.free = Frames \ 1..5 /\ \A f \in Frames : f = 5 => mem.data[f] = Text
  BY <1>1, <1>2 DEF Mem, Text, Zero
<1>4. 1 \in VmProcs /\ 0 \in UPage /\ 5 \in Frames
  BY Constants DEF VmProcs, UPage, Frames
<1>5. /\ proc[1] = FirstSlot /\ \A p \in VmProcs \ {1} : proc[p] = NoProc
      /\ \A p \in VmProcs : call[p] = UserMode
  BY <1>1, <1>4
<1>6. VmTypeOK
  <2>1. proc \in [VmProcs -> Slot]
    BY <1>1, UnusedIs, FirstSlotIs
  <2>2. call \in [VmProcs -> CallStates]
    BY <1>1, UserIs
  <2>3. view \in [VmProcs -> [UPage -> Int]]
    BY <1>1 DEF Text, Zero
  <2> QED  BY <1>3, <2>1, <2>2, <2>3 DEF VmTypeOK
<1>7. Divided
  <2> DEFINE h == <<1, "pgdir">>
             k == <<1, "kstack">>
  <2>1. /\ h \in Holders /\ k \in Holders /\ h # k
        /\ Owners[h] = 2..5 /\ Owners[k] = {1}
    <3>1. Owners[h] = Holds(proc[1].pgdir) /\ Owners[k] = {proc[1].kstack} \ {0} /\ h \in Holders /\ k \in Holders
      BY <1>4, OwnersAre, HoldersAre
    <3>2. Holds(proc[1].pgdir) = 2..5
      BY <1>5, FirstDirIs, FirstSlotIs
    <3>3. {proc[1].kstack} \ {0} = {1}
      BY <1>5, FirstSlotIs
    <3> QED  BY <3>1, <3>2, <3>3
  <2>2. ASSUME NEW z \in Holders, z # h, z # k PROVE Owners[z] = {}
    <3>1. PICK p \in VmProcs : z = <<p, "pgdir">> \/ z = <<p, "new">> \/ z = <<p, "kstack">>
      BY HoldersAre
    <3>2. CASE z = <<p, "new">>
      BY <1>5, <3>2, OwnersAre, UserIs
    <3>3. CASE z = <<p, "pgdir">>
      <4>1. p # 1
        BY <2>2, <3>3
      <4> QED  BY <1>5, <3>3, <4>1, OwnersAre, UnusedIs, Empty
    <3>4. CASE z = <<p, "kstack">>
      <4>1. p # 1
        BY <2>2, <3>4
      <4>2. Owners[z] = {proc[p].kstack} \ {0} /\ proc[p].kstack = 0
        BY <1>5, <3>4, <4>1, OwnersAre, UnusedIs
      <4> QED  BY <4>2
    <3> QED  BY <3>1, <3>2, <3>3, <3>4
  <2> HIDE DEF h, k
  <2>3. 1..5 \subseteq Frames /\ 1..5 = {1} \cup 2..5 /\ {1} \cap 2..5 = {}
    BY Constants DEF Frames
  <2>4. mem.free \cup UNION {Owners[x] : x \in Holders} = Frames
    <3>1. ASSUME NEW f \in Frames PROVE f \in mem.free \/ \E x \in Holders : f \in Owners[x]
      BY <1>3, <2>1, <2>3
    <3>2. ASSUME NEW x \in Holders PROVE Owners[x] \subseteq Frames
      BY <2>1, <2>2, <2>3
    <3> QED  BY <1>3, <3>1, <3>2
  <2>5. ASSUME NEW x \in Holders, NEW y \in Holders, x # y PROVE Owners[x] \cap Owners[y] = {}
    BY <2>1, <2>2, <2>3, <2>5
  <2>6. ASSUME NEW x \in Holders PROVE Owners[x] \cap mem.free = {}
    BY <1>3, <2>1, <2>2, <2>3
  <2> QED  BY <2>4, <2>5, <2>6 DEF Divided, Parts
<1>8. Placed
  <2>1. ASSUME NEW p \in VmProcs PROVE HasPages(proc[p], call[p])
    <3>1. CASE p = 1
      BY <1>5, <3>1, FirstSlotIs, FirstDirIs, UserIs DEF HasPages
    <3>2. CASE p # 1
      BY <1>5, <3>2, UnusedIs, Empty, UserIs DEF HasPages
    <3> QED  BY <3>1, <3>2
  <2>2. Filling
    BY <1>5, UserIs DEF Filling
  <2> QED  BY <2>1, <2>2 DEF Placed
<1>9. ASSUME NEW p \in VmProcs, proc[p].st = "RUNNABLE" PROVE p = 1
  BY <1>5, <1>9, UnusedIs
<1>10. Extent(proc[1], call[1])
  <2>1. /\ call[1].pc = "user" /\ Mapped(proc[1].pgdir, PGROUNDUP(proc[1].sz))
    BY <1>4, <1>5, FirstSlotIs, FirstDirIs, UserIs
  <2> QED  BY <2>1 DEF Extent
<1>11. Content(mem, proc[1], call[1], view[1])
  <2>1. call[1].pc = "user" /\ proc[1].pgdir = FirstDir
    BY <1>4, <1>5, FirstSlotIs, UserIs
  <2>2. ASSUME NEW a \in UPage, FirstDir.map[a] # 0 PROVE mem.data[FirstDir.map[a]] = view[1][a]
    <3>1. a = 0
      <4>1. a < 1 /\ a \in Nat
        BY <2>2, FirstDirIs DEF Mapped, UPage
      <4> QED  BY <4>1
    <3>2. view[1][0] = Text
      BY <1>1, <1>4
    <3> QED  BY <1>3, <1>4, <3>1, <3>2, FirstDirIs
  <2> QED  BY <2>1, <2>2 DEF Content, Holding
<1> QED  BY <1>6, <1>7, <1>8, <1>9, <1>10, <1>11 DEF Core, Extents, Contents

(* Every step keeps Core, one case for each action. *)
LEMMA NextKeeps == Core /\ [VmNext]_vmVars => Core'
<1> SUFFICES ASSUME Core, [VmNext]_vmVars PROVE Core'
  OBVIOUS
<1>1. CASE UNCHANGED vmVars
  BY <1>1, StutterKeeps DEF vmVars
<1>2. ASSUME NEW p \in VmProcs,
             \/ \E a \in Stores : Store(p, a)
             \/ \E n \in Brks : growproc(p, n)
             \/ \E prog \in Progs : sys_exec(p, prog)
             \/ \E q \in VmProcs : fork(p, q) \/ wait(p, q)
             \/ exit(p)
      PROVE  Core'
  BY <1>2, StoreKeeps, GrowprocKeeps, SysExecKeeps, ForkKeeps, WaitKeeps, ExitKeeps
<1>3. ASSUME NEW p \in VmProcs,
             \/ GrowPage(p) \/ ForkVm(p) \/ CopyPage(p) \/ LoadPage(p) \/ LoadFails(p)
             \/ Commit(p) \/ NoRoomForArgs(p)
      PROVE  Core'
  BY <1>3, GrowPageKeeps, ForkVmKeeps, CopyPageKeeps, LoadPageKeeps, LoadFailsKeeps, CommitKeeps, NoRoomForArgsKeeps
<1> QED  BY <1>1, <1>2, <1>3 DEF VmNext

(* Core is strong enough. *)
LEMMA CoreGives == Core => VmInv /\ MemoryKept
<1> SUFFICES ASSUME Core PROVE VmInv /\ MemoryKept
  OBVIOUS
<1>1. VmTypeOK /\ Placed /\ Extents /\ Contents /\ NothingLost
  BY NothingLostFrom DEF Core
<1>2. ASSUME NEW p \in VmProcs, CanRun(p), NEW a \in UPage
      PROVE  proc[p].pgdir.map[a] # 0 <=> a * PGSIZE < proc[p].sz
  <2>1. Mapped(proc[p].pgdir, PGROUNDUP(proc[p].sz))
    BY <1>2, Runs
  <2>2. proc[p].sz \in Nat /\ a \in Nat
    BY <1>1, Typed, SlotIs DEF UPage
  <2>3. a * PGSIZE < proc[p].sz <=> a < PGROUNDUP(proc[p].sz)
    BY <2>2, RoundUp
  <2> QED  BY <2>1, <2>3 DEF Mapped
<1>3. PagesBelowSize
  BY <1>2 DEF PagesBelowSize
<1>4. MemoryKept
  BY Runs DEF MemoryKept, Holding
<1> QED  BY <1>1, <1>3, <1>4 DEF VmInv

(* Core is an invariant. *)
LEMMA CoreHolds == VmSpec => []Core
BY InitKeeps, NextKeeps, PTL DEF VmSpec

(* Whatever the sizes and the programs, and however the calls of all       *)
(* processes interleave: every page is free or in exactly one place, also  *)
(* when fork, exec or sbrk runs out of memory half way (NothingLost), and a *)
(* process that runs has exactly the pages below its size (PagesBelowSize). *)
THEOREM Invariance == VmSpec => []VmInv
BY CoreHolds, CoreGives, PTL

(* And a process finds in its memory what it stored or inherited, program  *)
(* text or zeros: nothing of another process, nothing of a freed page.     *)
THEOREM MemoryIsKept == VmSpec => []MemoryKept
BY CoreHolds, CoreGives, PTL
=============================================================================
