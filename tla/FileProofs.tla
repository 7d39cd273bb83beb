----------------------------- MODULE FileProofs -----------------------------
(***************************************************************************)
(* For any number of processes, files, descriptors, inodes and pipes, the  *)
(* three counts of the file layer are exact on every path through open,    *)
(* pipe, dup, fork, close and exit, so that no file is freed while a       *)
(* descriptor names it; and processes that share a file share its offset.  *)
(***************************************************************************)
EXTENDS File, FiniteSetTheorems, SequenceTheorems, WellFoundedInduction, NaturalsInduction, TLAPS

(* The least of a set of numbers is one of them. *)
LEMMA MinIn ==
  ASSUME NEW S \in SUBSET Nat, S # {}
  PROVE  Min(S) \in S
<1>1. PICK m \in S : \A y \in S : ~(<<y, m>> \in OpToRel(<, Nat))
  BY WFMin, NatLessThanWellFounded
<1>2. ASSUME NEW y \in S PROVE m <= y
  <2>1. m \in Nat /\ y \in Nat /\ ~(<<y, m>> \in OpToRel(<, Nat))
    BY <1>1
  <2> QED  BY <2>1 DEF OpToRel
<1> QED  BY <1>2 DEF Min

-----------------------------------------------------------------------------
(* Counting. *)
LEMMA Grown ==
  ASSUME NEW S, NEW T, NEW x, IsFiniteSet(S), x \notin S, T = S \cup {x}
  PROVE  Cardinality(T) = Cardinality(S) + 1
BY FS_AddElement

LEMMA Shrunk ==
  ASSUME NEW S, NEW T, NEW x, IsFiniteSet(S), x \in S, T = S \ {x}
  PROVE  Cardinality(T) = Cardinality(S) - 1
BY FS_RemoveElement

LEMMA Joined ==
  ASSUME NEW S, NEW T, IsFiniteSet(S), IsFiniteSet(T), S \cap T = {}
  PROVE  Cardinality(S \cup T) = Cardinality(S) + Cardinality(T)
<1>1. Cardinality(S \cap T) = 0
  BY FS_EmptySet
<1>2. Cardinality(S) \in Nat /\ Cardinality(T) \in Nat
  BY FS_CardinalityType
<1>3. Cardinality(S \cup T) = Cardinality(S) + Cardinality(T) - Cardinality(S \cap T)
  BY FS_Union
<1> QED  BY <1>1, <1>2, <1>3

LEMMA AtLeast ==
  ASSUME NEW S, IsFiniteSet(S)
  PROVE  /\ Cardinality(S) \in Nat
         /\ \A x \in S : Cardinality(S) >= 1
         /\ \A x, y \in S : x # y => Cardinality(S) >= 2
         /\ S = {} => Cardinality(S) = 0
<1>1. Cardinality(S) \in Nat
  BY FS_CardinalityType
<1>2. ASSUME NEW x \in S PROVE Cardinality(S) >= 1
  BY <1>1, FS_EmptySet
<1>3. ASSUME NEW x \in S, NEW y \in S, x # y PROVE Cardinality(S) >= 2
  <2>1. IsFiniteSet(S \ {x}) /\ Cardinality(S \ {x}) = Cardinality(S) - 1
    BY FS_RemoveElement
  <2>2. y \in S \ {x}
    BY <1>3
  <2>3. Cardinality(S \ {x}) # 0 /\ Cardinality(S \ {x}) \in Nat
    BY <2>1, <2>2, FS_EmptySet, FS_CardinalityType
  <2> QED  BY <1>1, <2>1, <2>3
<1> QED  BY <1>1, <1>2, <1>3, FS_EmptySet

(* All the sets that are counted are finite. *)
LEMMA FiniteCounts ==
  /\ \A f : IsFiniteSet(Held(f)) /\ IsFiniteSet(Owned(f))
  /\ \A T \in SUBSET Files : IsFiniteSet(T)
  /\ \A T \in SUBSET Procs : IsFiniteSet(T)
<1>0. 0 \in Int /\ 1 \in Int /\ 2 \in Int /\ NOFILE - 1 \in Int /\ NFILE \in Int
  BY FileAssumption
<1>1. IsFiniteSet(Fds) /\ IsFiniteSet(1..2) /\ IsFiniteSet(Files)
  BY <1>0, FS_Interval, Zenon DEF Fds, Files
<1>2. IsFiniteSet(Procs \X Fds) /\ IsFiniteSet(Procs \X (1..2))
  BY <1>1, FS_Product, ProcsAssumption
<1> QED  BY <1>1, <1>2, FS_Subset, ProcsAssumption DEF Held, Owned

(* A process refers to a file from a descriptor or from its call. *)
Refers(p, f) == \/ \E d \in Fds : ofile[p][d] = f
                \/ \E k \in 1..Len(own[p]) : own[p][k] = f

(* What exact counts say of a file that is referred to from two places. *)
LEMMA Counted ==
  ASSUME TypeOK, Places, RefsExact, NEW f \in Files
  PROVE  /\ \A p \in Procs : Refers(p, f) => file[f].ref >= 1
         /\ \A p, q \in Procs : p # q /\ Refers(p, f) /\ Refers(q, f) => file[f].ref >= 2
         /\ \A p \in Procs, d \in Fds, k \in 1..2 :
              k <= Len(own[p]) /\ ofile[p][d] = f /\ own[p][k] = f => file[f].ref >= 2
<1>1. file[f].ref = Cardinality(Held(f)) + Cardinality(Owned(f))
  BY DEF RefsExact
<1>2. IsFiniteSet(Held(f)) /\ IsFiniteSet(Owned(f))
  BY FiniteCounts
<1>3. /\ Cardinality(Held(f)) \in Nat /\ Cardinality(Owned(f)) \in Nat
      /\ \A x \in Held(f) : Cardinality(Held(f)) >= 1
      /\ \A x \in Owned(f) : Cardinality(Owned(f)) >= 1
      /\ \A x, y \in Held(f) : x # y => Cardinality(Held(f)) >= 2
      /\ \A x, y \in Owned(f) : x # y => Cardinality(Owned(f)) >= 2
  BY <1>2, AtLeast
<1>4. ASSUME NEW p \in Procs, Refers(p, f)
      PROVE  \/ \E d \in Fds : <<p, d>> \in Held(f)
             \/ \E k \in 1..2 : <<p, k>> \in Owned(f)
  <2>1. CASE \E d \in Fds : ofile[p][d] = f
    BY <2>1 DEF Held
  <2>2. CASE \E k \in 1..Len(own[p]) : own[p][k] = f
    <3>1. PICK k \in 1..Len(own[p]) : own[p][k] = f
      BY <2>2
    <3>2. k \in 1..2 /\ k <= Len(own[p])
      BY DEF Places, Place, TypeOK
    <3>3. <<p, k>> \in Owned(f)
      BY <3>1, <3>2 DEF Owned
    <3> QED  BY <3>2, <3>3
  <2> QED  BY <1>4, <2>1, <2>2 DEF Refers
<1>5. ASSUME NEW p \in Procs, Refers(p, f) PROVE file[f].ref >= 1
  <2>1. \/ \E d \in Fds : <<p, d>> \in Held(f)
        \/ \E k \in 1..2 : <<p, k>> \in Owned(f)
    BY <1>4, <1>5
  <2>2. Cardinality(Held(f)) >= 1 \/ Cardinality(Owned(f)) >= 1
    BY <1>3, <2>1
  <2> QED  BY <1>1, <1>3, <2>2
<1>6. ASSUME NEW p \in Procs, NEW q \in Procs, p # q, Refers(p, f), Refers(q, f)
      PROVE  file[f].ref >= 2
  <2>1. \/ \E d \in Fds : <<p, d>> \in Held(f)
        \/ \E k \in 1..2 : <<p, k>> \in Owned(f)
    BY <1>4, <1>6
  <2>2. \/ \E d \in Fds : <<q, d>> \in Held(f)
        \/ \E k \in 1..2 : <<q, k>> \in Owned(f)
    BY <1>4, <1>6
  <2>3. \A d, e : <<p, d>> # <<q, e>>
    BY <1>6
  <2>4. \/ Cardinality(Held(f)) >= 1 /\ Cardinality(Owned(f)) >= 1
        \/ Cardinality(Held(f)) >= 2
        \/ Cardinality(Owned(f)) >= 2
    BY <1>3, <2>1, <2>2, <2>3
  <2> QED  BY <1>1, <1>3, <2>4
<1>7. ASSUME NEW p \in Procs, NEW d \in Fds, NEW k \in 1..2,
             k <= Len(own[p]), ofile[p][d] = f, own[p][k] = f
      PROVE  file[f].ref >= 2
  <2>1. <<p, d>> \in Held(f) /\ <<p, k>> \in Owned(f)
    BY <1>7 DEF Held, Owned
  <2> QED  BY <1>1, <1>3, <2>1
<1> QED  BY <1>5, <1>6, <1>7

-----------------------------------------------------------------------------
(* IInv without what follows from the rest of it. *)
Counts == TypeOK /\ Places /\ RefsExact /\ Filled /\ InodeRefsExact /\ PipeEndsExact

(* Only the calls that fill files in have files that are not filled in. *)
LEMMA NotFilling ==
  ASSUME NEW p \in Procs, pc[p] \notin {"openfd", "pipefile1", "pipekalloc", "openinit"}
  PROVE  Filling(p) = {}
BY DEF Filling

(* A file that is not filled in yet is known to its call only. *)
LEMMA FillingAlone ==
  ASSUME Counts, NEW p \in Procs, NEW f \in Filling(p)
  PROVE  /\ f \in Files /\ file[f].ref = 1 /\ file[f].type = "NONE"
         /\ Refers(p, f)
         /\ \A q \in Procs : q # p => ~Refers(q, f)
         /\ pc[p] # "openinit" => \A d \in Fds : ofile[p][d] # f
<1>1. file[f].ref = 1 /\ file[f].type = "NONE"
  BY DEF Counts, Filled, FilledBy
<1>2. CASE pc[p] = "openinit"
  <2>1. f = io[p].f
    BY <1>2 DEF Filling
  <2>2. f \in Files /\ Refers(p, f)
    BY <1>2, <2>1 DEF Counts, Filled, FilledBy, Refers
  <2> QED  BY <1>1, <1>2, <2>2, Counted DEF Counts
<1>3. CASE pc[p] # "openinit"
  <2>1. PICK k \in 1..Len(own[p]) : f = own[p][k]
    BY <1>3 DEF Filling
  <2>2. own[p] \in Seq(Files) /\ Len(own[p]) <= 2
    BY DEF Counts, TypeOK, Places, Place
  <2>3. f \in Files /\ Refers(p, f) /\ k \in 1..2 /\ k <= Len(own[p])
    BY <2>1, <2>2 DEF Refers
  <2>4. /\ \A q \in Procs : q # p => ~Refers(q, f)
        /\ \A d \in Fds : ofile[p][d] # f
    BY <1>1, <2>1, <2>3, Counted DEF Counts
  <2> QED  BY <1>1, <2>3, <2>4
<1> QED  BY <1>2, <1>3

(* Steps that leave references alone. *)
LEMMA SameRefs ==
  ASSUME RefsExact, UNCHANGED <<ofile, own>>,
         \A f \in Files : file'[f].ref = file[f].ref
  PROVE  RefsExact'
BY DEF RefsExact, Held, Owned

LEMMA SameInodes ==
  ASSUME InodeRefsExact, UNCHANGED <<hip, ff, iref>>,
         \A f \in Files, ip \in Inodes : Open(f, "INODE", ip)' <=> Open(f, "INODE", ip)
  PROVE  InodeRefsExact'
<1> SUFFICES ASSUME NEW ip \in Inodes
             PROVE  iref[ip] = Cardinality({f \in Files : Open(f, "INODE", ip)'})
                               + Cardinality({p \in Procs : hip[p] = ip})
                               + Cardinality({p \in Procs : Dropping(p, "INODE", ip)})
  BY DEF InodeRefsExact, Dropping
<1>1. {f \in Files : Open(f, "INODE", ip)'} = {f \in Files : Open(f, "INODE", ip)}
  OBVIOUS
<1> QED  BY <1>1 DEF InodeRefsExact

LEMMA SamePipes ==
  ASSUME PipeEndsExact, UNCHANGED <<ff, pipe>>,
         \A f \in Files, q \in Pipes :
           /\ Open(f, "PIPE", q)' <=> Open(f, "PIPE", q)
           /\ Open(f, "PIPE", q) => file'[f].writable = file[f].writable
  PROVE  PipeEndsExact'
<1> SUFFICES ASSUME NEW q \in Pipes, NEW w \in BOOLEAN
             PROVE  (IF End(w) \in pipe[q] THEN 1 ELSE 0)
                      = Cardinality({f \in Files : Open(f, "PIPE", q)' /\ file'[f].writable = w})
                        + Cardinality({p \in Procs : Dropping(p, "PIPE", q) /\ ff[p].writable = w})
  BY DEF PipeEndsExact, Dropping
<1>1. {f \in Files : Open(f, "PIPE", q)' /\ file'[f].writable = w}
        = {f \in Files : Open(f, "PIPE", q) /\ file[f].writable = w}
  OBVIOUS
<1> QED  BY <1>1 DEF PipeEndsExact

(* A process that a step does not concern. *)
LEMMA StillFilled ==
  ASSUME Counts, NEW q \in Procs,
         pc'[q] = pc[q], io'[q] = io[q], own'[q] = own[q], ofile'[q] = ofile[q],
         \A f \in Files : Refers(q, f) => file'[f].type = file[f].type,
         \A f \in Filling(q) : file'[f].ref = file[f].ref
  PROVE  FilledBy(q)'
<1>1. Filling(q)' = Filling(q)
  BY DEF Filling
<1>2. FilledBy(q) /\ ofile[q] \in [Fds -> Files \cup {None}] /\ own[q] \in Seq(Files)
  BY DEF Counts, Filled, TypeOK
<1>3. ASSUME NEW f \in Filling(q) PROVE file'[f].ref = 1 /\ file'[f].type = "NONE"
  BY FillingAlone
<1>4. ASSUME pc[q] = "pipefd", NEW k \in 1..2 PROVE file'[own[q][k]].type = "PIPE"
  <2>1. k \in 1..Len(own[q]) /\ own[q][k] \in Files
    BY <1>2, <1>4 DEF Counts, Places, Place
  <2>2. Refers(q, own[q][k])
    BY <2>1 DEF Refers
  <2> QED  BY <1>2, <1>4, <2>1, <2>2 DEF FilledBy
<1>5. ASSUME NEW d \in Fds, ofile[q][d] # None, ofile[q][d] \notin Filling(q)
      PROVE  file'[ofile[q][d]].type # "NONE"
  <2>1. ofile[q][d] \in Files /\ Refers(q, ofile[q][d])
    BY <1>2, <1>5 DEF Refers
  <2> QED  BY <1>2, <1>5, <2>1 DEF FilledBy
<1> QED  BY <1>1, <1>2, <1>3, <1>4, <1>5 DEF FilledBy

(* A step of fileread or filewrite, or one that enters or leaves them,     *)
(* changes nothing that is counted.                                        *)
IoStep(p) ==
  /\ p \in live /\ pc[p] \in {"user"} \cup InIO
  /\ \E l \in {"user"} \cup InIO : pc' = [pc EXCEPT ![p] = l]
  /\ DOMAIN file' = Files
  /\ \A f \in Files : /\ DOMAIN file'[f] = Fields
                      /\ file'[f].ref = file[f].ref /\ file'[f].type = file[f].type
                      /\ file'[f].obj = file[f].obj /\ file'[f].writable = file[f].writable
  /\ UNCHANGED <<ofile, live, iref, pipe, ret, own, ff, hip>>
  /\ ilk' \in [Inodes -> Procs \cup {None}]
  /\ DOMAIN io' = Procs
  /\ \A q \in Procs : DOMAIN io'[q] = {"f", "n", "i", "r"} /\ (q # p => io'[q] = io[q])

LEMMA IoKeeps ==
  ASSUME Counts, NEW p \in Procs, IoStep(p)
  PROVE  Counts'
<1> USE DEF IoStep
<1>1. TypeOK'
  BY DEF Counts, TypeOK
<1>2. Places'
  BY DEF Counts, Places, Place, TypeOK, InIO, InOpen, InPipe
<1>3. ASSUME NEW q \in Procs PROVE FilledBy(q)'
  <2>1. CASE q # p
    <3>1. pc'[q] = pc[q] /\ io'[q] = io[q] /\ \A f \in Filling(q) : f \in Files
      BY <2>1, FillingAlone DEF Counts, TypeOK
    <3> QED  BY <3>1, StillFilled
  <2>2. CASE q = p
    <3>1. Filling(p) = {} /\ Filling(p)' = {}
      BY DEF Filling, InIO
    <3>2. \A d \in Fds : ofile[p][d] \in Files \cup {None}
      BY DEF Counts, TypeOK
    <3> QED  BY <2>2, <3>1, <3>2 DEF FilledBy, Counts, Filled, InIO
  <2> QED  BY <2>1, <2>2
<1>4. Filled'
  BY <1>3 DEF Counts, Filled
<1>5. RefsExact'
  BY SameRefs DEF Counts
<1>6. InodeRefsExact'
  BY SameInodes DEF Counts, Open
<1>7. PipeEndsExact'
  BY SamePipes DEF Counts, Open
<1> QED  BY <1>1, <1>2, <1>4, <1>5, <1>6, <1>7 DEF Counts

(* Assignment to an element of an array keeps its type. *)
LEMMA ExceptType ==
  ASSUME NEW A, NEW B, NEW f \in [A -> B], NEW x, NEW v \in B
  PROVE  [f EXCEPT ![x] = v] \in [A -> B]
OBVIOUS

LEMMA ReadWriteKeeps ==
  ASSUME Counts, NEW p \in Procs,
         \/ \E d \in Fds, n \in Lengths : Read(p, d, n) \/ Write(p, d, n)
         \/ ReadCount(p) \/ ReadI(p) \/ ReadDone(p)
         \/ WriteI(p) \/ WriteDone(p) \/ WriteCount(p) \/ WriteStore(p)
  PROVE  Counts'
<1> USE DEF InIO, Goto
<1>0. TypeOK /\ (pc[p] # "user" => p \in live)
  BY DEF Counts, Places, Place
<1>t. ilk \in [Inodes -> Procs \cup {None}]
  BY <1>0 DEF TypeOK
<1>1. ASSUME NEW d \in Fds, NEW n \in Lengths, Read(p, d, n) \/ Write(p, d, n)
      PROVE  IoStep(p)
  <2>1. /\ p \in live /\ pc[p] = "user" /\ UNCHANGED <<table, inodes, pipe, ret, own, ff, hip>>
        /\ io' = [io EXCEPT ![p] = [f |-> ofile[p][d], n |-> n, i |-> 0, r |-> 0]]
        /\ \E l \in InIO : pc' = [pc EXCEPT ![p] = l]
    BY <1>1 DEF Read, Write, Call, AtUser
  <2> QED  BY <2>1, <1>0 DEF IoStep, table, inodes, TypeOK
<1>2. ASSUME ReadCount(p) PROVE IoStep(p)
  <2> QED  BY <1>0, <1>2 DEF IoStep, ReadCount, inodes, TypeOK, NoIO, Fields
<1>3. ASSUME ReadI(p) PROVE IoStep(p)
  <2>1. /\ pc[p] = "readlock" /\ pc' = [pc EXCEPT ![p] = "readdone"]
        /\ \E x : io' = [io EXCEPT ![p].r = x]
        /\ ilk' = [ilk EXCEPT ![file[io[p].f].obj] = p]
        /\ UNCHANGED <<file, ofile, live, iref, pipe, ret, own, ff, hip>>
    BY <1>3 DEF ReadI, table
  <2>2. ilk' \in [Inodes -> Procs \cup {None}]
    BY <1>t, <2>1, ExceptType
  <2> QED  BY <1>0, <2>1, <2>2 DEF IoStep, TypeOK
<1>4. ASSUME ReadDone(p) PROVE IoStep(p)
  <2>1. CASE UNCHANGED <<file, ilk, io, pc>>
    <3>1. /\ pc[p] = "readdone" /\ UNCHANGED <<ofile, live, iref, pipe, ret, own, ff, hip>>
      BY <1>4 DEF ReadDone
    <3>2. pc' = [pc EXCEPT ![p] = "readdone"]
      BY SMTT(30), <1>0, <2>1, <3>1 DEF TypeOK
    <3> QED  BY <1>0, <2>1, <3>1, <3>2 DEF IoStep, TypeOK
  <2>2. CASE ~UNCHANGED <<file, ilk, io, pc>>
    <3>1. /\ pc[p] = "readdone" /\ pc' = [pc EXCEPT ![p] = "user"]
          /\ file' = [file EXCEPT ![io[p].f].off = @ + io[p].r, ![io[p].f].read_bytes = @ + io[p].n]
          /\ ilk' = [ilk EXCEPT ![file[io[p].f].obj] = None] /\ io' = [io EXCEPT ![p] = NoIO]
          /\ UNCHANGED <<ofile, live, iref, pipe, ret, own, ff, hip>>
      BY <1>4, <2>2 DEF ReadDone
    <3>2. ilk' \in [Inodes -> Procs \cup {None}]
      BY <1>t, <3>1, ExceptType
    <3>3. DOMAIN file' = Files /\ \A f \in Files :
            /\ DOMAIN file'[f] = Fields
            /\ file'[f].ref = file[f].ref /\ file'[f].type = file[f].type
            /\ file'[f].obj = file[f].obj /\ file'[f].writable = file[f].writable
      BY <1>0, <3>1 DEF TypeOK, Fields
    <3> QED  BY <1>0, <3>1, <3>2, <3>3 DEF IoStep, TypeOK, NoIO
  <2> QED  BY <2>1, <2>2
<1>5. ASSUME WriteI(p) PROVE IoStep(p)
  <2>1. /\ pc[p] = "writelock" /\ pc' = [pc EXCEPT ![p] = "writedone"]
        /\ \E x : io' = [io EXCEPT ![p].r = x]
        /\ ilk' = [ilk EXCEPT ![file[io[p].f].obj] = p]
        /\ UNCHANGED <<file, ofile, live, iref, pipe, ret, own, ff, hip>>
    BY <1>5 DEF WriteI, table
  <2>2. ilk' \in [Inodes -> Procs \cup {None}]
    BY <1>t, <2>1, ExceptType
  <2> QED  BY <1>0, <2>1, <2>2 DEF IoStep, TypeOK
<1>6. ASSUME WriteDone(p) PROVE IoStep(p)
  <2>1. /\ pc[p] = "writedone" /\ \E l \in InIO : pc' = [pc EXCEPT ![p] = l]
        /\ ilk' = [ilk EXCEPT ![file[io[p].f].obj] = None]
        /\ UNCHANGED <<ofile, live, iref, pipe, ret, own, ff, hip>>
    BY <1>6 DEF WriteDone, LockAfterTurn
  <2>2. \/ UNCHANGED <<file, io>>
        \/ /\ file' = [file EXCEPT ![io[p].f].off = @ + io[p].r]
           /\ io' = [io EXCEPT ![p].i = io[p].i + io[p].r]
    BY <1>6 DEF WriteDone
  <2>3. ilk' \in [Inodes -> Procs \cup {None}]
    BY <1>t, <2>1, ExceptType
  <2>4. DOMAIN file' = Files /\ \A f \in Files :
          /\ DOMAIN file'[f] = Fields
          /\ file'[f].ref = file[f].ref /\ file'[f].type = file[f].type
          /\ file'[f].obj = file[f].obj /\ file'[f].writable = file[f].writable
    <3>1. CASE file' = file
      BY <1>0, <3>1 DEF TypeOK
    <3>2. CASE file' = [file EXCEPT ![io[p].f].off = @ + io[p].r]
      BY <1>0, <3>2 DEF TypeOK, Fields
    <3> QED  BY <2>2, <3>1, <3>2
  <2>5. /\ DOMAIN io' = Procs
        /\ \A q \in Procs : DOMAIN io'[q] = {"f", "n", "i", "r"} /\ (q # p => io'[q] = io[q])
    BY <1>0, <2>2 DEF TypeOK
  <2>6. p \in live /\ \E l \in {"user"} \cup InIO : pc' = [pc EXCEPT ![p] = l]
    BY <1>0, <2>1
  <2> QED  BY <2>1, <2>3, <2>4, <2>5, <2>6 DEF IoStep
<1>7. ASSUME WriteCount(p) PROVE IoStep(p)
  <2>1. /\ pc[p] = "writecount" /\ pc' = [pc EXCEPT ![p] = "writestore"]
        /\ \E x : io' = [io EXCEPT ![p].r = x]
        /\ UNCHANGED <<file, ofile, live, iref, ilk, pipe, ret, own, ff, hip>>
    BY <1>7 DEF WriteCount, table, inodes
  <2> QED  BY <1>0, <2>1 DEF IoStep, TypeOK
<1>8. ASSUME WriteStore(p) PROVE IoStep(p)
  <2> QED  BY <1>0, <1>8 DEF IoStep, WriteStore, inodes, TypeOK, NoIO, Fields
<1> QED  BY <1>1, <1>2, <1>3, <1>4, <1>5, <1>6, <1>7, <1>8, IoKeeps

-----------------------------------------------------------------------------
(* How the references change, as functions of the arrays they are in.      *)
HeldIn(of, f) == {x \in Procs \X Fds : of[x[1]][x[2]] = f}
OwnedIn(ow, f) == {x \in Procs \X (1..2) : x[2] <= Len(ow[x[1]]) /\ ow[x[1]][x[2]] = f}
One(f, g) == IF f = g THEN 1 ELSE 0

LEMMA FiniteIn == \A of, f : IsFiniteSet(HeldIn(of, f)) /\ IsFiniteSet(OwnedIn(of, f))
<1>0. 0 \in Int /\ 1 \in Int /\ 2 \in Int /\ NOFILE - 1 \in Int
  BY FileAssumption
<1>1. IsFiniteSet(Fds) /\ IsFiniteSet(1..2)
  BY <1>0, FS_Interval, Zenon DEF Fds
<1>2. IsFiniteSet(Procs \X Fds) /\ IsFiniteSet(Procs \X (1..2))
  BY <1>1, FS_Product, ProcsAssumption
<1> QED  BY <1>2, FS_Subset DEF HeldIn, OwnedIn

Descriptors == [Procs -> [Fds -> Files \cup {None}]]

(* A free descriptor gets the file g, by fdalloc. *)
LEMMA HeldMore ==
  ASSUME NEW of \in Descriptors, NEW new \in Descriptors,
         NEW p \in Procs, NEW d \in Fds, NEW g \in Files, of[p][d] = None, new[p][d] = g,
         \A q \in Procs, e \in Fds : q # p \/ e # d => new[q][e] = of[q][e]
  PROVE  \A f \in Files :
           Cardinality(HeldIn(new, f)) = Cardinality(HeldIn(of, f)) + One(f, g)
<1> SUFFICES ASSUME NEW f \in Files
             PROVE  Cardinality(HeldIn(new, f)) = Cardinality(HeldIn(of, f)) + One(f, g)
  OBVIOUS
<1>0. IsFiniteSet(HeldIn(of, f)) /\ Cardinality(HeldIn(of, f)) \in Nat
  BY FiniteIn, FS_CardinalityType
<1>n. None # f /\ None # g
  BY NoneAssumption DEF Files
<1>1. CASE f = g
  <2>1. <<p, d>> \notin HeldIn(of, f) /\ HeldIn(new, f) = HeldIn(of, f) \cup {<<p, d>>}
    BY <1>1, <1>n DEF HeldIn
  <2>2. Cardinality(HeldIn(new, f)) = Cardinality(HeldIn(of, f)) + 1
    BY <1>0, <2>1, Grown
  <2> QED  BY <1>1, <2>2 DEF One
<1>2. CASE f # g
  <2>1. HeldIn(new, f) = HeldIn(of, f)
    BY <1>2, <1>n DEF HeldIn
  <2> QED  BY <1>0, <1>2, <2>1 DEF One
<1> QED  BY <1>1, <1>2

(* The descriptor d of p is what tells two arrays of descriptors apart. *)
FdApart(a, b, p, d) == /\ a \in Descriptors /\ b \in Descriptors
                       /\ \A q \in Procs, e \in Fds : q # p \/ e # d => b[q][e] = a[q][e]

LEMMA HeldMoreAll ==
  \A a, b : \A p \in Procs, d \in Fds, x \in Files :
    FdApart(a, b, p, d) /\ a[p][d] = None /\ b[p][d] = x
      => \A f \in Files : Cardinality(HeldIn(b, f)) = Cardinality(HeldIn(a, f)) + One(f, x)
BY HeldMore DEF FdApart

(* A sequence of two files. *)
LEMMA PairSeq ==
  ASSUME NEW s \in Seq(Files), Len(s) = 2
  PROVE  /\ s[1] \in Files /\ s[2] \in Files
         /\ s = Append(<<s[1]>>, s[2])
         /\ Tail(s) = <<s[2]>>
<1>1. s[1] \in Files /\ s[2] \in Files /\ DOMAIN s = 1..2
  BY SMTT(30)
<1>2. <<s[1]>> \in Seq(Files) /\ Len(<<s[1]>>) = 1 /\ <<s[1]>>[1] = s[1]
  BY <1>1
<1>3. s = Append(<<s[1]>>, s[2])
  <2> DEFINE t == Append(<<s[1]>>, s[2])
  <2>1. t \in Seq(Files) /\ Len(t) = 2 /\ t[1] = s[1] /\ t[2] = s[2]
    BY <1>1, <1>2
  <2> HIDE DEF t
  <2>2. \A k \in 1..Len(s) : s[k] = t[k]
    BY <2>1
  <2> QED  BY <2>1, <2>2, SeqEqual DEF t
<1>4. Tail(s) = <<s[2]>>
  <2> DEFINE t == Tail(s)
  <2>1. t \in Seq(Files) /\ Len(t) = 1 /\ t[1] = s[2]
    OBVIOUS
  <2> HIDE DEF t
  <2>2. <<s[2]>> \in Seq(Files) /\ Len(<<s[2]>>) = 1 /\ <<s[2]>>[1] = s[2]
    BY <1>1
  <2>3. ASSUME NEW k \in 1..Len(t) PROVE t[k] = <<s[2]>>[k]
    <3>1. k = 1
      BY <2>1
    <3> QED  BY <2>1, <2>2, <3>1
  <2> QED  BY <2>1, <2>2, <2>3, SeqEqual DEF t
<1> QED  BY <1>1, <1>3, <1>4

(* A call has one more file, from filealloc or out of a descriptor. *)
LEMMA OwnedMore ==
  ASSUME NEW ow \in [Procs -> Seq(Files)], NEW new \in [Procs -> Seq(Files)],
         NEW p \in Procs, NEW g \in Files, Len(ow[p]) <= 1, new[p] = Append(ow[p], g),
         \A q \in Procs : q # p => new[q] = ow[q]
  PROVE  \A f \in Files :
           Cardinality(OwnedIn(new, f)) = Cardinality(OwnedIn(ow, f)) + One(f, g)
<1> SUFFICES ASSUME NEW f \in Files
             PROVE  Cardinality(OwnedIn(new, f)) = Cardinality(OwnedIn(ow, f)) + One(f, g)
  OBVIOUS
<1> DEFINE n == Len(ow[p]) + 1
<1>2. /\ n \in 1..2 /\ Len(new[p]) = n /\ new[p][n] = g
      /\ \A k \in 1..2 : k # n => (k <= Len(new[p]) <=> k <= Len(ow[p]))
      /\ \A k \in 1..2 : k <= Len(ow[p]) => new[p][k] = ow[p][k]
      /\ ~(n <= Len(ow[p]))
  OBVIOUS
<1> HIDE DEF n
<1>0. IsFiniteSet(OwnedIn(ow, f)) /\ Cardinality(OwnedIn(ow, f)) \in Nat
  BY FiniteIn, FS_CardinalityType
<1>3. \A x \in OwnedIn(new, f) \cup OwnedIn(ow, f) \cup {<<p, n>>} : x \in Procs \X (1..2)
  BY <1>2 DEF OwnedIn
<1>4. CASE f = g
  <2>1. <<p, n>> \notin OwnedIn(ow, f)
    BY <1>2 DEF OwnedIn
  <2>2. ASSUME NEW x \in Procs \X (1..2)
        PROVE  x \in OwnedIn(new, f) <=> x \in OwnedIn(ow, f) \cup {<<p, n>>}
    <3>1. x = <<x[1], x[2]>> /\ x[1] \in Procs /\ x[2] \in 1..2
      OBVIOUS
    <3> QED  BY <1>2, <1>4, <3>1 DEF OwnedIn
  <2>3. OwnedIn(new, f) = OwnedIn(ow, f) \cup {<<p, n>>}
    BY <1>3, <2>2
  <2>4. Cardinality(OwnedIn(new, f)) = Cardinality(OwnedIn(ow, f)) + 1
    BY <1>0, <2>1, <2>3, Grown
  <2> QED  BY <1>4, <2>4 DEF One
<1>5. CASE f # g
  <2>1. ASSUME NEW x \in Procs \X (1..2)
        PROVE  x \in OwnedIn(new, f) <=> x \in OwnedIn(ow, f)
    <3>1. x = <<x[1], x[2]>> /\ x[1] \in Procs /\ x[2] \in 1..2
      OBVIOUS
    <3> QED  BY <1>2, <1>5, <3>1 DEF OwnedIn
  <2>2. OwnedIn(new, f) = OwnedIn(ow, f)
    BY <1>3, <2>1
  <2> QED  BY <1>0, <1>5, <2>2 DEF One
<1> QED  BY <1>4, <1>5

LEMMA OwnedMoreAll ==
  \A p \in Procs : \A a, b \in [Procs -> Seq(Files)], x \in Files :
        /\ Len(a[p]) <= 1 /\ b[p] = Append(a[p], x)
        /\ \A q \in Procs : q # p => b[q] = a[q]
        => \A f \in Files : Cardinality(OwnedIn(b, f)) = Cardinality(OwnedIn(a, f)) + One(f, x)
BY OwnedMore

OwnGrows(a, b, p, x) == /\ a \in [Procs -> Seq(Files)] /\ b \in [Procs -> Seq(Files)]
                        /\ Len(a[p]) <= 1 /\ b[p] = Append(a[p], x)
                        /\ \A q \in Procs : q # p => b[q] = a[q]

LEMMA OwnedGrows ==
  \A a, b : \A p \in Procs, x \in Files :
    OwnGrows(a, b, p, x)
      => \A f \in Files : Cardinality(OwnedIn(b, f)) = Cardinality(OwnedIn(a, f)) + One(f, x)
BY ZenonT(40), OwnedMore DEF OwnGrows

(* A call has no file any more, or one of two. *)
LEMMA OwnedLess ==
  ASSUME NEW ow \in [Procs -> Seq(Files)], NEW new \in [Procs -> Seq(Files)],
         NEW p \in Procs, Len(ow[p]) <= 2, ow[p] # <<>>, new[p] = Tail(ow[p]),
         \A q \in Procs : q # p => new[q] = ow[q]
  PROVE  /\ Head(ow[p]) \in Files
         /\ \A f \in Files :
              Cardinality(OwnedIn(ow, f)) = Cardinality(OwnedIn(new, f)) + One(f, Head(ow[p]))
<1>m. \A a, b \in [Procs -> Seq(Files)], x \in Files :
        /\ Len(a[p]) <= 1 /\ b[p] = Append(a[p], x)
        /\ \A q \in Procs : q # p => b[q] = a[q]
        => \A f \in Files : Cardinality(OwnedIn(b, f)) = Cardinality(OwnedIn(a, f)) + One(f, x)
  BY OwnedMoreAll, Zenon
<1> DEFINE g == Head(ow[p])
<1>0. ow[p] \in Seq(Files) /\ Len(ow[p]) \in 0..2
  <2>1. ow[p] \in Seq(Files)
    OBVIOUS
  <2>2. Len(ow[p]) \in Nat
    BY <2>1, LenProperties
  <2>3. \A n \in Nat : n <= 2 => n \in 0..2
    OBVIOUS
  <2> QED  BY <2>1, <2>2, <2>3
<1>1. g \in Files /\ g = ow[p][1] /\ Len(ow[p]) \in {1, 2}
  <2>1. Len(ow[p]) # 0
    BY <1>0, EmptySeq
  <2> QED  BY <1>0, <2>1
<1>2. CASE Len(ow[p]) = 1
  <2>1. Len(new[p]) = 0 /\ new[p] = <<>>
    BY <1>2
  <2>2. ow[p] = Append(new[p], g)
    <3>1. Append(<<>>, g) \in Seq(Files) /\ Len(Append(<<>>, g)) = 1 /\ Append(<<>>, g)[1] = g
      BY <1>1
    <3>2. \A k \in 1..Len(ow[p]) : ow[p][k] = Append(<<>>, g)[k]
      BY <1>1, <1>2, <3>1
    <3> QED  BY <1>0, <1>2, <2>1, <3>1, <3>2, SeqEqual
  <2>3. Len(new[p]) <= 1
    BY <2>1
  <2> HIDE DEF g
  <2>4. \A f \in Files : Cardinality(OwnedIn(ow, f)) = Cardinality(OwnedIn(new, f)) + One(f, g)
    BY <1>1, <2>2, <2>3, OwnedMore
  <2> QED  BY <1>1, <2>4 DEF g
<1>3. CASE Len(ow[p]) = 2
  <2>0. PICK h \in Files : ow[p] = Append(<<g>>, h) /\ Tail(ow[p]) = <<h>>
    BY <1>1, <1>3, PairSeq
  <2> HIDE DEF g
  <2>s. /\ <<>> \in Seq(Files) /\ <<g>> = Append(<<>>, g) /\ <<h>> = Append(<<>>, h)
        /\ <<g>> \in Seq(Files) /\ Len(<<g>>) <= 1 /\ Len(<<>>) <= 1
    BY <1>1
  <2>1. PICK none \in [Procs -> Seq(Files)] :
          none[p] = <<>> /\ \A q \in Procs : q # p => none[q] = ow[q]
    <3>1. [ow EXCEPT ![p] = <<>>] \in [Procs -> Seq(Files)]
      BY <2>s
    <3> QED  BY <3>1
  <2>2. PICK last \in [Procs -> Seq(Files)] :
          last[p] = <<g>> /\ \A q \in Procs : q # p => last[q] = ow[q]
    <3>1. [ow EXCEPT ![p] = <<g>>] \in [Procs -> Seq(Files)]
      BY <2>s
    <3> QED  BY <3>1
  <2>h. h \in Files
    BY <2>0
  <2>t. none \in [Procs -> Seq(Files)] /\ last \in [Procs -> Seq(Files)]
    BY <2>1, <2>2
  <2>3. /\ new[p] = Append(none[p], h) /\ Len(none[p]) <= 1
        /\ \A q \in Procs : q # p => new[q] = none[q]
    BY <2>0, <2>s, <2>1
  <2>5. last[p] = Append(none[p], g) /\ \A q \in Procs : q # p => last[q] = none[q]
    BY <2>s, <2>1, <2>2
  <2>7. /\ ow[p] = Append(last[p], h) /\ Len(last[p]) <= 1
        /\ \A q \in Procs : q # p => ow[q] = last[q]
    BY <2>0, <2>s, <2>2
  <2>4. \A f \in Files : Cardinality(OwnedIn(new, f)) = Cardinality(OwnedIn(none, f)) + One(f, h)
    BY ZenonT(40), <2>h, <2>t, <2>3, <1>m
  <2>6. \A f \in Files : Cardinality(OwnedIn(last, f)) = Cardinality(OwnedIn(none, f)) + One(f, g)
    BY <1>1, <2>t, <2>3, <2>5, <1>m
  <2>8. \A f \in Files : Cardinality(OwnedIn(ow, f)) = Cardinality(OwnedIn(last, f)) + One(f, h)
    BY <2>h, <2>t, <2>7, <1>m
  <2>9. \A f : Cardinality(OwnedIn(none, f)) \in Nat
    BY FiniteIn, FS_CardinalityType
  <2>10. \A f \in Files : Cardinality(OwnedIn(ow, f)) = Cardinality(OwnedIn(new, f)) + One(f, g)
    BY <2>4, <2>6, <2>8, <2>9 DEF One
  <2> QED  BY <1>1, <2>10 DEF g
<1> QED  BY <1>1, <1>2, <1>3

-----------------------------------------------------------------------------
(* FilledBy, for the process that makes a step and for the others. *)
Unfilled == {"openfd", "pipefile1", "pipekalloc", "openinit"}

LEMMA DescriptorsFilled ==
  ASSUME Counts, NEW p \in Procs, pc[p] # "openinit", NEW d \in Fds, ofile[p][d] # None
  PROVE  ofile[p][d] \in Files /\ file[ofile[p][d]].type # "NONE"
<1>1. ofile[p][d] \in Files
  BY DEF Counts, TypeOK
<1>2. ofile[p][d] \notin Filling(p)
  BY FillingAlone
<1> QED  BY <1>1, <1>2 DEF Counts, Filled, FilledBy

LEMMA SettledFilled ==
  ASSUME NEW p \in Procs, pc'[p] \notin Unfilled \cup {"pipefd"},
         \A d \in Fds : ofile'[p][d] # None => file'[ofile'[p][d]].type # "NONE"
  PROVE  FilledBy(p)'
BY DEF FilledBy, Filling, Unfilled

LEMMA OthersFilled ==
  ASSUME Counts, NEW p \in Procs,
         \A q \in Procs : q # p => /\ pc'[q] = pc[q] /\ io'[q] = io[q]
                                   /\ own'[q] = own[q] /\ ofile'[q] = ofile[q],
         \A f \in Files, q \in Procs : q # p /\ Refers(q, f) =>
           /\ file'[f].type = file[f].type
           /\ file[f].ref = 1 /\ file[f].type = "NONE" => file'[f].ref = 1
  PROVE  \A q \in Procs : q # p => FilledBy(q)'
<1> SUFFICES ASSUME NEW q \in Procs, q # p PROVE FilledBy(q)'
  OBVIOUS
<1>1. \A f \in Filling(q) : file'[f].ref = file[f].ref
  BY FillingAlone
<1>2. \A f \in Files : Refers(q, f) => file'[f].type = file[f].type
  OBVIOUS
<1> QED  BY <1>1, <1>2, StillFilled

LEMMA OthersPlaced ==
  ASSUME Places, NEW p \in Procs,
         \A q \in Procs : q # p => /\ pc'[q] = pc[q] /\ ret'[q] = ret[q] /\ hip'[q] = hip[q]
                                   /\ own'[q] = own[q] /\ ofile'[q] = ofile[q]
                                   /\ ff'[q] = ff[q] /\ (q \in live => q \in live'),
         Place(p)'
  PROVE  Places'
<1>1. ASSUME NEW q \in Procs, q # p PROVE Place(q)'
  BY <1>1 DEF Places, Place
<1> QED  BY <1>1 DEF Places

(* A step to another place in the code, with the same references.          *)
LEMMA JumpKeeps ==
  ASSUME Counts, NEW p \in Procs, NEW l, NEW r \in {"user", "openfail", "exit"},
         UNCHANGED <<file, ofile, own, ff, hip, io, iref, pipe>>,
         pc[p] # "drop", pc[p] # "openinit",
         l \in {"user", "fileclose", "openfail", "exit", "openalloc"},
         l # "fileclose" => own[p] = <<>>,
         l \in {"openfail", "openalloc"} \/ (l = "fileclose" /\ r = "openfail") <=> hip[p] # None,
         pc' = [pc EXCEPT ![p] = l], ret' = [ret EXCEPT ![p] = r],
         ilk' \in [Inodes -> Procs \cup {None}],
         p \in live,
         live' = live \/ (l = "user" /\ live' = live \ {p} /\ \A d \in Fds : ofile[p][d] = None)
  PROVE  Counts'
<1>0. TypeOK /\ Places
  BY DEF Counts
<1>1. TypeOK'
  BY <1>0 DEF TypeOK, InOpen
<1>2. ASSUME NEW q \in Procs, q # p
      PROVE  pc'[q] = pc[q] /\ ret'[q] = ret[q] /\ (q \in live' <=> q \in live)
  BY <1>0, <1>2 DEF TypeOK
<1>3. pc'[p] = l /\ ret'[p] = r /\ (p \notin live' => l = "user" /\ \A d \in Fds : ofile[p][d] = None)
  BY <1>0 DEF TypeOK
<1>4. Places'
  BY <1>0, <1>2, <1>3 DEF Places, Place, InOpen, InPipe
<1>5. ASSUME NEW q \in Procs PROVE FilledBy(q)'
  <2>1. CASE q # p
    BY <1>2, <2>1, OthersFilled
  <2>2. CASE q = p
    <3>1. \A d \in Fds : ofile[p][d] # None => file[ofile[p][d]].type # "NONE"
      BY DescriptorsFilled
    <3> QED  BY <1>3, <2>2, <3>1, SettledFilled DEF Unfilled
  <2> QED  BY <2>1, <2>2
<1>6. Filled'
  BY <1>5 DEF Counts, Filled
<1>7. RefsExact' /\ InodeRefsExact' /\ PipeEndsExact'
  BY SameRefs, SameInodes, SamePipes DEF Counts, Open
<1> QED  BY <1>1, <1>4, <1>6, <1>7 DEF Counts

(* filealloc's file is free, so nobody refers to it. *)
LEMMA AllocFile ==
  ASSUME Counts, NEW p \in Procs, filealloc(p)
  PROVE  \E g \in Files : /\ file[g].ref = 0 /\ file[g].type = "NONE"
                          /\ \A q \in Procs : ~Refers(q, g)
                          /\ file' = [file EXCEPT ![g].ref = 1]
                          /\ own' = [own EXCEPT ![p] = Append(@, g)]
<1> DEFINE g == Min(Unreferenced)
<1>1. Unreferenced \in SUBSET Nat /\ Unreferenced # {}
  BY FileAssumption DEF Unreferenced, Files, filealloc
<1>2. g \in Unreferenced
  BY <1>1, MinIn
<1>3. g \in Files /\ file[g].ref = 0
  BY <1>2 DEF Unreferenced
<1>4. file[g].type = "NONE"
  BY <1>3 DEF Counts, Filled
<1>5. \A q \in Procs : ~Refers(q, g)
  BY <1>3, Counted DEF Counts
<1>6. file' = [file EXCEPT ![g].ref = 1] /\ own' = [own EXCEPT ![p] = Append(@, g)]
  BY DEF filealloc
<1> HIDE DEF g
<1> QED  BY <1>3, <1>4, <1>5, <1>6

LEMMA AllocKeeps ==
  ASSUME Counts, NEW p \in Procs, filealloc(p), p \in live, NEW l,
         \/ pc[p] = "openalloc" /\ l = "openfd"
         \/ pc[p] = "user" /\ l = "pipefile1"
         \/ pc[p] = "pipefile1" /\ l = "pipekalloc",
         pc' = [pc EXCEPT ![p] = l],
         UNCHANGED <<ofile, live, inodes, pipe, ret, ff, hip, io>>
  PROVE  Counts'
<1>0. TypeOK /\ Places /\ RefsExact /\ Filled
  BY DEF Counts
<1>1. PICK g \in Files : /\ file[g].ref = 0 /\ file[g].type = "NONE"
                         /\ \A q \in Procs : ~Refers(q, g)
                         /\ file' = [file EXCEPT ![g].ref = 1]
                         /\ own' = [own EXCEPT ![p] = Append(@, g)]
  BY AllocFile
<1>g. g \in Files
  BY <1>1
<1>2. /\ DOMAIN file' = Files
      /\ \A f \in Files : /\ DOMAIN file'[f] = Fields
                          /\ file'[f].type = file[f].type /\ file'[f].obj = file[f].obj
                          /\ file'[f].writable = file[f].writable
                          /\ file'[f].ref = IF f = g THEN 1 ELSE file[f].ref
  BY <1>0, <1>1 DEF TypeOK, Fields
<1>3. /\ own \in [Procs -> Seq(Files)] /\ own' \in [Procs -> Seq(Files)]
      /\ own'[p] = Append(own[p], g) /\ \A q \in Procs : q # p => own'[q] = own[q]
  BY <1>0, <1>1 DEF TypeOK
<1>4. /\ pc'[p] = l /\ \A q \in Procs : q # p => pc'[q] = pc[q]
  BY <1>0 DEF TypeOK
<1>5. TypeOK'
  <2>1. pc' \in [Procs -> {"user", "fileclose", "drop", "exit"} \cup InOpen \cup InPipe \cup InIO]
    BY <1>0 DEF TypeOK, InOpen, InPipe
  <2>2. \A f \in Files : /\ file'[f].type \in Types /\ file'[f].ref \in Nat
                          /\ file'[f].writable \in BOOLEAN
    <3> SUFFICES ASSUME NEW f \in Files
                 PROVE  /\ file'[f].type \in Types /\ file'[f].ref \in Nat
                        /\ file'[f].writable \in BOOLEAN
      OBVIOUS
    <3>1. file[f].type \in Types /\ file[f].ref \in Nat /\ file[f].writable \in BOOLEAN
      BY <1>0 DEF TypeOK
    <3>2. file'[f].ref = 1 \/ file'[f].ref = file[f].ref
      BY <1>2
    <3> QED  BY <1>2, <3>1, <3>2
  <2>3. UNCHANGED <<ofile, live, iref, ilk, pipe, ret, ff, hip, io>>
    BY DEF inodes
  <2> QED  BY <1>0, <1>2, <1>3, <2>1, <2>2, <2>3 DEF TypeOK
<1>6. /\ Len(own[p]) = (IF l = "pipekalloc" THEN 1 ELSE 0) /\ Len(own'[p]) = Len(own[p]) + 1
      /\ \A k \in 1..Len(own[p]) : own'[p][k] = own[p][k] /\ own[p][k] # g
      /\ own'[p][Len(own[p]) + 1] = g
  <2>1. Len(own[p]) = IF l = "pipekalloc" THEN 1 ELSE 0
    BY <1>0 DEF Places, Place, InPipe
  <2>2. own[p] \in Seq(Files)
    BY <1>3
  <2>3. \A k \in 1..Len(own[p]) : own[p][k] # g
    BY <1>1 DEF Refers
  <2> QED  BY <1>1, <1>3, <2>1, <2>2, <2>3
<1>7. Places'
  <2>1. Place(p)
    BY <1>0 DEF Places
  <2>2. Len(own'[p]) = IF l = "pipekalloc" THEN 2 ELSE 1
    BY <1>6
  <2>3. l = "pipekalloc" => own'[p][1] # own'[p][2]
    BY <1>6
  <2>4. Place(p)'
    BY <1>4, <2>1, <2>2, <2>3 DEF Place, InOpen, InPipe
  <2> QED  BY <1>0, <1>3, <1>4, <2>4, OthersPlaced
<1>8. RefsExact'
  <2>1. Len(own[p]) <= 1
    BY <1>6
  <2>2. \A f \in Files : Cardinality(OwnedIn(own', f)) = Cardinality(OwnedIn(own, f)) + One(f, g)
    BY <1>g, <1>3, <2>1, OwnedMoreAll
  <2>3. \A f : Owned(f) = OwnedIn(own, f) /\ Owned(f)' = OwnedIn(own', f) /\ Held(f)' = Held(f)
    BY DEF Owned, OwnedIn, Held
  <2>4. \A f : Cardinality(Held(f)) \in Nat /\ Cardinality(Owned(f)) \in Nat
    BY FiniteCounts, FS_CardinalityType
  <2>5. ASSUME NEW f \in Files
        PROVE  file'[f].ref = Cardinality(Held(f)') + Cardinality(Owned(f)')
    <3>1. file[f].ref = Cardinality(Held(f)) + Cardinality(Owned(f))
      BY <1>0 DEF RefsExact
    <3>2. Cardinality(Owned(f)') = Cardinality(Owned(f)) + One(f, g) /\ Held(f)' = Held(f)
      BY <2>2, <2>3
    <3>3. file'[f].ref = file[f].ref + One(f, g)
      BY <1>0, <1>1, <1>2 DEF One, TypeOK
    <3>4. One(f, g) \in Nat
      BY DEF One
    <3> QED  BY <2>4, <3>1, <3>2, <3>3, <3>4
  <2> QED  BY <2>5 DEF RefsExact
<1>9. ASSUME NEW q \in Procs PROVE FilledBy(q)'
  <2>1. CASE q # p
    <3>1. \A x \in Procs : x # p => /\ pc'[x] = pc[x] /\ io'[x] = io[x]
                                    /\ own'[x] = own[x] /\ ofile'[x] = ofile[x]
      BY <1>3, <1>4
    <3>2. \A f \in Files, x \in Procs : x # p /\ Refers(x, f) =>
           /\ file'[f].type = file[f].type
           /\ file[f].ref = 1 /\ file[f].type = "NONE" => file'[f].ref = 1
      BY <1>1, <1>2
    <3> QED  BY <2>1, <3>1, <3>2, OthersFilled
  <2>2. CASE q = p
    <3>1. Filling(p)' = {own'[p][k] : k \in 1..Len(own'[p])}
      BY <1>4 DEF Filling
    <3>2. ASSUME NEW k \in 1..Len(own'[p]) PROVE own'[p][k] \in Files /\ file'[own'[p][k]].ref = 1 /\ file'[own'[p][k]].type = "NONE"
      <4>1. CASE k = Len(own[p]) + 1
        BY <1>1, <1>2, <1>6, <4>1
      <4>2. CASE k # Len(own[p]) + 1
        <5>1. k \in 1..Len(own[p]) /\ pc[p] = "pipefile1"
          BY <1>6, <4>2
        <5>2. own[p][k] \in Filling(p)
          BY <5>1 DEF Filling
        <5> QED  BY <1>2, <1>6, <5>1, <5>2, FillingAlone
      <4> QED  BY <4>1, <4>2
    <3>3. \A d \in Fds : ofile[p][d] # None => file'[ofile[p][d]].type # "NONE"
      BY <1>2, DescriptorsFilled
    <3>4. pc'[p] # "openinit" /\ pc'[p] # "pipefd"
      BY <1>4
    <3> QED  BY <2>2, <3>1, <3>2, <3>3, <3>4 DEF FilledBy
  <2> QED  BY <2>1, <2>2
<1>10. Filled'
  BY <1>0, <1>2, <1>9 DEF Filled
<1>11. InodeRefsExact' /\ PipeEndsExact'
  <2>1. ASSUME NEW f \in Files, NEW type \in {"INODE", "PIPE"}, NEW obj
        PROVE  Open(f, type, obj)' <=> Open(f, type, obj)
    BY <1>1, <1>2 DEF Open
  <2> QED  BY <1>2, <2>1, SameInodes, SamePipes DEF Counts, inodes
<1> QED  BY <1>5, <1>7, <1>8, <1>10, <1>11 DEF Counts

LEMMA Alive ==
  ASSUME Counts, NEW p \in Procs
  PROVE  /\ pc[p] # "user" => p \in live
         /\ Place(p)
         /\ ret[p] \in {"user", "openfail", "exit"}
         /\ ret' = ret => ret' = [ret EXCEPT ![p] = ret[p]]
         /\ UNCHANGED inodes => UNCHANGED <<iref, ilk>>
         /\ ilk \in [Inodes -> Procs \cup {None}]
BY DEF Counts, Places, Place, TypeOK, inodes

(* filealloc fails, or a call is entered or left. *)
LEMMA OpenAllocKeeps ==
  ASSUME Counts, NEW p \in Procs, OpenAlloc(p)
  PROVE  Counts'
<1> USE Alive DEF OpenAlloc, Goto
<1>1. CASE filealloc(p) /\ pc' = [pc EXCEPT ![p] = "openfd"]
  BY <1>1, AllocKeeps
<1>2. CASE UNCHANGED <<file, own>> /\ pc' = [pc EXCEPT ![p] = "openfail"]
  <2>1. own[p] = <<>> /\ hip[p] # None /\ p \in live
    BY DEF Place, InPipe, InOpen
  <2>2. UNCHANGED <<ofile, ff, hip, io, iref, pipe, ret, live, ilk>>
    OBVIOUS
  <2> QED  BY <1>2, <2>1, <2>2, JumpKeeps
<1> QED  BY <1>1, <1>2

LEMMA PipeFile0Keeps ==
  ASSUME Counts, NEW p \in Procs, PipeFile0(p)
  PROVE  Counts'
BY AllocKeeps DEF PipeFile0, AtUser, Goto

LEMMA PipeFile1Keeps ==
  ASSUME Counts, NEW p \in Procs, PipeFile1(p)
  PROVE  Counts'
<1> USE Alive DEF PipeFile1, Goto, CloseOwn
<1>1. CASE filealloc(p) /\ pc' = [pc EXCEPT ![p] = "pipekalloc"] /\ UNCHANGED ret
  BY <1>1, AllocKeeps
<1>2. CASE UNCHANGED <<file, own>> /\ pc' = [pc EXCEPT ![p] = "fileclose"] /\ ret' = [ret EXCEPT ![p] = "user"]
  <2>1. hip[p] = None /\ p \in live
    BY DEF Place, InPipe, InOpen
  <2>2. UNCHANGED <<ofile, ff, hip, io, iref, pipe, live, ilk>>
    OBVIOUS
  <2> QED  BY <1>2, <2>1, <2>2, JumpKeeps
<1> QED  BY <1>1, <1>2

LEMMA ClosedKeeps ==
  ASSUME Counts, NEW p \in Procs, Closed(p)
  PROVE  Counts'
<1> USE Alive DEF Closed, Goto
<1>1. (hip[p] # None <=> ret[p] = "openfail") /\ p \in live
  BY DEF Place, InOpen
<1>2. UNCHANGED <<file, ofile, ff, hip, io, iref, pipe, live, ilk, own, ret>>
  BY DEF table
<1> QED  BY <1>1, <1>2, JumpKeeps

LEMMA ExitKeeps ==
  ASSUME Counts, NEW p \in Procs, Exit(p)
  PROVE  Counts'
<1> USE Alive DEF Exit, Goto, AtUser
<1>1. own[p] = <<>> /\ hip[p] = None /\ p \in live
  BY DEF Place, InOpen, InPipe
<1>2. UNCHANGED <<file, ofile, ff, hip, io, iref, pipe, live, ilk, own, ret>>
  BY DEF table
<1> QED  BY <1>1, <1>2, JumpKeeps

-----------------------------------------------------------------------------
(* How the counts of inodes and pipe ends change when one file and one     *)
(* process change.                                                         *)
In(x, S) == IF x \in S THEN 1 ELSE 0

LEMMA OneApart ==
  ASSUME NEW S, NEW T, NEW x, IsFiniteSet(S), IsFiniteSet(T),
         \A y : y # x => (y \in S <=> y \in T)
  PROVE  /\ Cardinality(S) \in Nat /\ Cardinality(T) \in Nat
         /\ Cardinality(T) = Cardinality(S) + In(x, T) - In(x, S)
<1>0. Cardinality(S) \in Nat /\ Cardinality(T) \in Nat
  BY FS_CardinalityType
<1>1. CASE x \in S /\ x \in T
  <2>1. S = T
    BY <1>1
  <2> QED  BY <1>0, <1>1, <2>1 DEF In
<1>2. CASE x \in S /\ x \notin T
  <2>1. T = S \ {x}
    BY <1>2
  <2>2. Cardinality(T) = Cardinality(S) - 1
    BY <1>2, <2>1, Shrunk
  <2> QED  BY <1>0, <1>2, <2>2 DEF In
<1>3. CASE x \notin S /\ x \in T
  <2>1. T = S \cup {x}
    BY <1>3
  <2>2. Cardinality(T) = Cardinality(S) + 1
    BY <1>3, <2>1, Grown
  <2> QED  BY <1>0, <1>3, <2>2 DEF In
<1>4. CASE x \notin S /\ x \notin T
  <2>1. S = T
    BY <1>4
  <2> QED  BY <1>0, <1>4, <2>1 DEF In
<1> QED  BY <1>1, <1>2, <1>3, <1>4

Opened(ip) == {f \in Files : Open(f, "INODE", ip)}
LookedUp(ip) == {p \in Procs : hip[p] = ip}
GivenUp(ip) == {p \in Procs : Dropping(p, "INODE", ip)}

LEMMA InodesChange ==
  ASSUME InodeRefsExact, NEW p \in Procs, NEW g,
         \A f \in Files, ip \in Inodes : f # g => (Open(f, "INODE", ip)' <=> Open(f, "INODE", ip)),
         \A q \in Procs : q # p => hip'[q] = hip[q] /\ ff'[q] = ff[q],
         \A ip \in Inodes : iref'[ip] = iref[ip] + (In(g, Opened(ip)') - In(g, Opened(ip)))
                                        + (In(p, LookedUp(ip)') - In(p, LookedUp(ip)))
                                        + (In(p, GivenUp(ip)') - In(p, GivenUp(ip)))
  PROVE  InodeRefsExact'
<1> SUFFICES ASSUME NEW ip \in Inodes
             PROVE  iref'[ip] = Cardinality(Opened(ip)') + Cardinality(LookedUp(ip)')
                                + Cardinality(GivenUp(ip)')
  BY DEF InodeRefsExact, Opened, LookedUp, GivenUp
<1>1. iref[ip] = Cardinality(Opened(ip)) + Cardinality(LookedUp(ip)) + Cardinality(GivenUp(ip))
  BY DEF InodeRefsExact, Opened, LookedUp, GivenUp
<1>2. /\ IsFiniteSet(Opened(ip)) /\ IsFiniteSet(Opened(ip)')
      /\ IsFiniteSet(LookedUp(ip)) /\ IsFiniteSet(LookedUp(ip)')
      /\ IsFiniteSet(GivenUp(ip)) /\ IsFiniteSet(GivenUp(ip)')
  <2>1. /\ Opened(ip) \in SUBSET Files /\ Opened(ip)' \in SUBSET Files
        /\ LookedUp(ip) \in SUBSET Procs /\ LookedUp(ip)' \in SUBSET Procs
        /\ GivenUp(ip) \in SUBSET Procs /\ GivenUp(ip)' \in SUBSET Procs
    BY DEF Opened, LookedUp, GivenUp
  <2> QED  BY <2>1, FiniteCounts
<1>3. \A y : y # g => (y \in Opened(ip) <=> y \in Opened(ip)')
  BY DEF Opened
<1>4. \A y : y # p => (y \in LookedUp(ip) <=> y \in LookedUp(ip)')
  BY DEF LookedUp
<1>5. \A y : y # p => (y \in GivenUp(ip) <=> y \in GivenUp(ip)')
  BY DEF GivenUp, Dropping
<1>6. /\ Cardinality(Opened(ip)) \in Nat /\ Cardinality(Opened(ip)') \in Nat
      /\ Cardinality(Opened(ip)') = Cardinality(Opened(ip)) + In(g, Opened(ip)') - In(g, Opened(ip))
  BY <1>2, <1>3, OneApart
<1>7. /\ Cardinality(LookedUp(ip)) \in Nat /\ Cardinality(LookedUp(ip)') \in Nat
      /\ Cardinality(LookedUp(ip)') = Cardinality(LookedUp(ip)) + In(p, LookedUp(ip)') - In(p, LookedUp(ip))
  BY <1>2, <1>4, OneApart
<1>8. /\ Cardinality(GivenUp(ip)) \in Nat /\ Cardinality(GivenUp(ip)') \in Nat
      /\ Cardinality(GivenUp(ip)') = Cardinality(GivenUp(ip)) + In(p, GivenUp(ip)') - In(p, GivenUp(ip))
  BY <1>2, <1>5, OneApart
<1>9. \A x, S : In(x, S) \in Nat
  BY DEF In
<1> QED  BY <1>1, <1>6, <1>7, <1>8, <1>9

EndFiles(q, w) == {f \in Files : Open(f, "PIPE", q) /\ file[f].writable = w}
EndsGivenUp(q, w) == {p \in Procs : Dropping(p, "PIPE", q) /\ ff[p].writable = w}

LEMMA PipesChange ==
  ASSUME PipeEndsExact, NEW p \in Procs, NEW g,
         \A f \in Files, q \in Pipes : f # g =>
           /\ Open(f, "PIPE", q)' <=> Open(f, "PIPE", q)
           /\ file'[f].writable = file[f].writable,
         \A q \in Procs : q # p => ff'[q] = ff[q],
         \A q \in Pipes, w \in BOOLEAN :
           In(End(w), pipe'[q]) = In(End(w), pipe[q])
             + (In(g, EndFiles(q, w)') - In(g, EndFiles(q, w)))
             + (In(p, EndsGivenUp(q, w)') - In(p, EndsGivenUp(q, w)))
  PROVE  PipeEndsExact'
<1> SUFFICES ASSUME NEW q \in Pipes, NEW w \in BOOLEAN
             PROVE  In(End(w), pipe'[q]) = Cardinality(EndFiles(q, w)') + Cardinality(EndsGivenUp(q, w)')
  BY DEF PipeEndsExact, EndFiles, EndsGivenUp, In, End
<1>1. In(End(w), pipe[q]) = Cardinality(EndFiles(q, w)) + Cardinality(EndsGivenUp(q, w))
  BY DEF PipeEndsExact, EndFiles, EndsGivenUp, In
<1>2. /\ IsFiniteSet(EndFiles(q, w)) /\ IsFiniteSet(EndFiles(q, w)')
      /\ IsFiniteSet(EndsGivenUp(q, w)) /\ IsFiniteSet(EndsGivenUp(q, w)')
  <2>1. /\ EndFiles(q, w) \in SUBSET Files /\ EndFiles(q, w)' \in SUBSET Files
        /\ EndsGivenUp(q, w) \in SUBSET Procs /\ EndsGivenUp(q, w)' \in SUBSET Procs
    BY DEF EndFiles, EndsGivenUp
  <2> QED  BY <2>1, FiniteCounts
<1>3. \A y : y # g => (y \in EndFiles(q, w) <=> y \in EndFiles(q, w)')
  BY DEF EndFiles
<1>4. \A y : y # p => (y \in EndsGivenUp(q, w) <=> y \in EndsGivenUp(q, w)')
  BY DEF EndsGivenUp, Dropping
<1>5. /\ Cardinality(EndFiles(q, w)) \in Nat /\ Cardinality(EndFiles(q, w)') \in Nat
      /\ Cardinality(EndFiles(q, w)')
           = Cardinality(EndFiles(q, w)) + In(g, EndFiles(q, w)') - In(g, EndFiles(q, w))
  BY <1>2, <1>3, OneApart
<1>6. /\ Cardinality(EndsGivenUp(q, w)) \in Nat /\ Cardinality(EndsGivenUp(q, w)') \in Nat
      /\ Cardinality(EndsGivenUp(q, w)')
           = Cardinality(EndsGivenUp(q, w)) + In(p, EndsGivenUp(q, w)') - In(p, EndsGivenUp(q, w))
  BY <1>2, <1>4, OneApart
<1>7. \A x, S : In(x, S) \in Nat
  BY DEF In
<1> QED  BY <1>1, <1>5, <1>6, <1>7

(* sys_open gets a reference to an inode, or gives it up. *)
LEMMA LookupKeeps ==
  ASSUME Counts, NEW p \in Procs, NEW l, NEW v \in Inodes \cup {None}, p \in live,
         UNCHANGED <<file, ofile, live, own, ff, io, pipe, ret>>,
         pc[p] # "drop", pc[p] # "openinit", own[p] = <<>>,
         \/ l = "openlock" /\ v # None
         \/ l = "user" /\ v = None,
         pc' = [pc EXCEPT ![p] = l], hip' = [hip EXCEPT ![p] = v],
         ilk' \in [Inodes -> Procs \cup {None}], iref' \in [Inodes -> Int],
         \A ip \in Inodes : iref'[ip] = iref[ip] + (In(v, {ip}) - In(hip[p], {ip}))
  PROVE  Counts'
<1>0. TypeOK /\ Places
  BY DEF Counts
<1>1. TypeOK'
  <2>1. hip' \in [Procs -> Inodes \cup {None}]
    BY <1>0 DEF TypeOK
  <2>2. pc' \in [Procs -> {"user", "fileclose", "drop", "exit"} \cup InOpen \cup InPipe \cup InIO]
    BY <1>0 DEF TypeOK, InOpen
  <2> QED  BY <1>0, <2>1, <2>2 DEF TypeOK
<1>2. /\ pc'[p] = l /\ hip'[p] = v
      /\ \A q \in Procs : q # p => pc'[q] = pc[q] /\ hip'[q] = hip[q]
  BY <1>0 DEF TypeOK
<1>3. Place(p) /\ Len(<<>>) = 0
  BY <1>0 DEF Places
<1>4. Place(p)'
  BY <1>2, <1>3 DEF Place, InOpen, InPipe
<1>5. Places'
  BY <1>0, <1>2, <1>4, OthersPlaced
<1>6. ASSUME NEW q \in Procs PROVE FilledBy(q)'
  <2>1. CASE q # p
    BY <1>2, <2>1, OthersFilled
  <2>2. CASE q = p
    <3>1. \A d \in Fds : ofile[p][d] # None => file[ofile[p][d]].type # "NONE"
      BY DescriptorsFilled
    <3> QED  BY <1>2, <2>2, <3>1, SettledFilled DEF Unfilled
  <2> QED  BY <2>1, <2>2
<1>7. Filled'
  BY <1>6 DEF Counts, Filled
<1>8. RefsExact' /\ PipeEndsExact'
  BY SameRefs, SamePipes DEF Counts, Open
<1>9. InodeRefsExact'
  <2>1. \A f, ip : Open(f, "INODE", ip)' <=> Open(f, "INODE", ip)
    BY DEF Open
  <2>2. ASSUME NEW ip \in Inodes
        PROVE  iref'[ip] = iref[ip] + (In(0, Opened(ip)') - In(0, Opened(ip)))
                           + (In(p, LookedUp(ip)') - In(p, LookedUp(ip)))
                           + (In(p, GivenUp(ip)') - In(p, GivenUp(ip)))
    <3>1. In(0, Opened(ip)') = In(0, Opened(ip)) /\ In(p, GivenUp(ip)') = In(p, GivenUp(ip))
      BY <2>1 DEF In, Opened, GivenUp, Dropping
    <3>2. In(p, LookedUp(ip)') = In(v, {ip}) /\ In(p, LookedUp(ip)) = In(hip[p], {ip})
      BY <1>2 DEF In, LookedUp
    <3>3. \A x, S : In(x, S) \in {0, 1}
      BY DEF In
    <3>4. iref[ip] \in Int
      BY <1>0 DEF TypeOK
    <3> QED  BY <3>1, <3>2, <3>3, <3>4
  <2> QED  BY <1>2, <2>1, <2>2, InodesChange DEF Counts
<1> QED  BY <1>1, <1>5, <1>7, <1>8, <1>9 DEF Counts

LEMMA OpenLookupKeeps ==
  ASSUME Counts, NEW p \in Procs, NEW ip \in Inodes, OpenLookup(p, ip)
  PROVE  Counts'
<1>0. ip # None /\ iref \in [Inodes -> Int]
  BY NoneAssumption DEF Counts, TypeOK
<1>1. own[p] = <<>> /\ hip[p] = None /\ p \in live /\ pc[p] = "user"
  BY Alive DEF Place, InOpen, InPipe, OpenLookup, AtUser
<1>2. UNCHANGED <<file, ofile, live, own, ff, io, pipe, ret>> /\ ilk' = ilk
  BY DEF OpenLookup, table
<1>3. iref' \in [Inodes -> Int] /\ ilk' \in [Inodes -> Procs \cup {None}]
  BY <1>0, <1>2, Alive DEF OpenLookup
<1>4. \A x \in Inodes : iref'[x] = iref[x] + (In(ip, {x}) - In(hip[p], {x}))
  BY <1>0, <1>1, NoneAssumption DEF In, OpenLookup
<1>5. pc' = [pc EXCEPT ![p] = "openlock"] /\ hip' = [hip EXCEPT ![p] = ip]
  BY DEF OpenLookup, Goto
<1>6. ip \in Inodes \cup {None}
  OBVIOUS
<1> QED  BY <1>0, <1>1, <1>2, <1>3, <1>4, <1>5, <1>6, LookupKeeps

(* iunlockput in sys_open. *)
LEMMA PutKeeps ==
  ASSUME Counts, NEW p \in Procs, pc[p] \in {"openlock", "openfail"},
         iref' = iput(hip[p]), hip' = [hip EXCEPT ![p] = None], pc' = [pc EXCEPT ![p] = "user"],
         UNCHANGED <<file, ofile, live, own, ff, io, pipe, ret>>,
         ilk' \in [Inodes -> Procs \cup {None}]
  PROVE  Counts'
<1>0. iref \in [Inodes -> Int] /\ hip[p] \in Inodes
  BY Alive DEF Counts, TypeOK, Place, InOpen
<1>1. own[p] = <<>> /\ p \in live
  BY Alive DEF Place, InOpen, InPipe
<1>2. iref' \in [Inodes -> Int]
  BY <1>0 DEF iput
<1>3. \A x \in Inodes : iref'[x] = iref[x] + (In(None, {x}) - In(hip[p], {x}))
  BY <1>0, NoneAssumption DEF In, iput
<1>4. pc[p] # "drop" /\ pc[p] # "openinit"
  OBVIOUS
<1> QED  BY <1>1, <1>2, <1>3, <1>4, LookupKeeps

LEMMA OpenLockKeeps ==
  ASSUME Counts, NEW p \in Procs, OpenLock(p)
  PROVE  Counts'
<1> USE Alive DEF OpenLock, Goto
<1>1. pc[p] = "openlock" /\ UNCHANGED <<file, ofile, live, own, ff, io, pipe, ret>>
  BY DEF table
<1>2. CASE ilk' = [ilk EXCEPT ![hip[p]] = p] /\ pc' = [pc EXCEPT ![p] = "openalloc"] /\ UNCHANGED <<iref, hip>>
  <2>1. own[p] = <<>> /\ hip[p] # None /\ p \in live
    BY <1>1 DEF Place, InOpen, InPipe
  <2>2. ilk' \in [Inodes -> Procs \cup {None}]
    BY <1>2, ExceptType
  <2> QED  BY <1>1, <1>2, <2>1, <2>2, JumpKeeps
<1>3. CASE /\ iref' = iput(hip[p]) /\ hip' = [hip EXCEPT ![p] = None]
           /\ pc' = [pc EXCEPT ![p] = "user"] /\ UNCHANGED ilk
  BY <1>1, <1>3, PutKeeps
<1> QED  BY <1>2, <1>3

LEMMA OpenFailKeeps ==
  ASSUME Counts, NEW p \in Procs, OpenFail(p)
  PROVE  Counts'
<1>1. ilk' \in [Inodes -> Procs \cup {None}]
  BY Alive, ExceptType DEF OpenFail
<1> QED  BY <1>1, PutKeeps DEF OpenFail, Goto, table

(* fileclose drops a reference. *)
LEMMA FileCloseKeeps ==
  ASSUME Counts, NEW p \in Procs, FileClose(p)
  PROVE  Counts'
<1>0. TypeOK /\ Places /\ RefsExact /\ Filled /\ Place(p)
  BY Alive DEF Counts
<1> DEFINE g == Head(own[p])
<1>1. /\ pc[p] = "fileclose" /\ own[p] # <<>> /\ own' = [own EXCEPT ![p] = Tail(@)]
      /\ UNCHANGED <<ofile, live, iref, ilk, pipe, ret, hip, io>>
  BY DEF FileClose, inodes
<1>2. /\ own \in [Procs -> Seq(Files)] /\ own' \in [Procs -> Seq(Files)]
      /\ own[p] \in Seq(Files) /\ own'[p] = Tail(own[p]) /\ \A q \in Procs : q # p => own'[q] = own[q]
      /\ Len(own[p]) <= 2
  BY <1>0, <1>1 DEF TypeOK, Place
<1>3. /\ g \in Files
      /\ \A f \in Files : Cardinality(OwnedIn(own, f)) = Cardinality(OwnedIn(own', f)) + One(f, g)
  BY ZenonT(40), <1>1, <1>2, OwnedLess
<1>4. Len(own[p]) \in {1, 2} /\ g = own[p][1] /\ Len(own'[p]) = Len(own[p]) - 1
  <2>1. Len(own[p]) \in Nat /\ Len(own[p]) # 0
    BY <1>1, <1>2, EmptySeq, LenProperties
  <2>2. \A n \in Nat : n <= 2 /\ n # 0 => n \in {1, 2}
    OBVIOUS
  <2>3. Len(own[p]) \in {1, 2}
    BY <1>2, <2>1, <2>2
  <2>4. g = own[p][1] /\ Len(Tail(own[p])) = Len(own[p]) - 1
    BY <1>1, <1>2, HeadTailProperties
  <2> QED  BY <1>2, <2>3, <2>4
<1>5. Refers(p, g) /\ \A d \in Fds : ofile[p][d] = g => file[g].ref >= 2
  <2>1. Refers(p, g)
    <3>1. 1 \in 1..Len(own[p]) /\ own[p][1] = g
      BY <1>4
    <3> HIDE DEF g
    <3> QED  BY <3>1 DEF Refers
  <2>2. 1 \in 1..2 /\ 1 <= Len(own[p]) /\ own[p][1] = g
    BY <1>4
  <2> HIDE DEF g
  <2> QED  BY <1>0, <1>3, <2>1, <2>2, Counted
<1> HIDE DEF g
<1>6. file[g].ref \in Nat /\ file[g].ref >= 1 /\ \A q \in Procs : q # p /\ Refers(q, g) => file[g].ref >= 2
  BY <1>0, <1>3, <1>5, Counted DEF TypeOK
<1>r. ASSUME \A f \in Files : file'[f].ref = file[f].ref - One(f, g)
      PROVE  RefsExact'
  <2>1. \A f : Owned(f) = OwnedIn(own, f) /\ Owned(f)' = OwnedIn(own', f) /\ Held(f)' = Held(f)
    BY <1>1 DEF Owned, OwnedIn, Held
  <2>2. \A f : Cardinality(Held(f)) \in Nat /\ Cardinality(OwnedIn(own', f)) \in Nat
    BY FiniteCounts, FiniteIn, FS_CardinalityType
  <2>3. ASSUME NEW f \in Files
        PROVE  file'[f].ref = Cardinality(Held(f)') + Cardinality(Owned(f)')
    <3>1. file[f].ref = Cardinality(Held(f)) + Cardinality(Owned(f))
      BY <1>0 DEF RefsExact
    <3>2. Cardinality(Owned(f)) = Cardinality(Owned(f)') + One(f, g) /\ Held(f)' = Held(f)
      BY <1>3, <2>1
    <3>3. file'[f].ref = file[f].ref - One(f, g)
      BY <1>r
    <3>4. One(f, g) \in Nat /\ Cardinality(Owned(f)') \in Nat
      BY <2>1, <2>2 DEF One
    <3> QED  BY <2>2, <3>1, <3>2, <3>3, <3>4
  <2> QED  BY <2>3 DEF RefsExact
<1>7. CASE file[g].ref > 1
  <2>1. file' = [file EXCEPT ![g].ref = @ - 1] /\ UNCHANGED <<ff, pc>>
    BY <1>7 DEF FileClose, g
  <2>2. /\ DOMAIN file' = Files
        /\ \A f \in Files : /\ DOMAIN file'[f] = Fields
                            /\ file'[f].type = file[f].type /\ file'[f].obj = file[f].obj
                            /\ file'[f].writable = file[f].writable
                            /\ file'[f].ref = IF f = g THEN file[f].ref - 1 ELSE file[f].ref
    BY <1>0, <2>1 DEF TypeOK, Fields
  <2>3. \A f \in Files : file'[f].ref = file[f].ref - One(f, g)
    BY <1>0, <2>2 DEF One, TypeOK
  <2>4. ASSUME NEW f \in Files
        PROVE  /\ file'[f].ref \in Nat
               /\ file'[f].ref > 0 <=> file[f].ref > 0
               /\ file'[f].ref = 0 => file'[f].type = "NONE"
    <3>1. file[f].ref \in Nat /\ (file[f].ref = 0 => file[f].type = "NONE")
      BY <1>0 DEF TypeOK, Filled
    <3>2. CASE f = g
      BY <1>7, <2>2, <3>1, <3>2
    <3>3. CASE f # g
      BY <2>2, <3>1, <3>3
    <3> QED  BY <3>2, <3>3
  <2>5. TypeOK'
    BY <1>0, <1>1, <1>2, <2>1, <2>2, <2>4 DEF TypeOK
  <2>6. Place(p)'
    BY <1>0, <1>1, <1>4, <2>1 DEF Place, InPipe, InOpen
  <2>7. Places'
    BY <1>0, <1>1, <1>2, <2>1, <2>6, OthersPlaced
  <2>9. ASSUME NEW q \in Procs PROVE FilledBy(q)'
    <3>1. CASE q # p
      <4>1. \A x \in Procs : x # p => /\ pc'[x] = pc[x] /\ io'[x] = io[x]
                                      /\ own'[x] = own[x] /\ ofile'[x] = ofile[x]
        BY <1>1, <1>2, <2>1
      <4>2. \A f \in Files, x \in Procs : x # p /\ Refers(x, f) =>
             /\ file'[f].type = file[f].type
             /\ file[f].ref = 1 /\ file[f].type = "NONE" => file'[f].ref = 1
        BY <1>7, <2>2
      <4> QED  BY <3>1, <4>1, <4>2, OthersFilled
    <3>2. CASE q = p
      <4>1. \A d \in Fds : ofile[p][d] # None => file'[ofile[p][d]].type # "NONE"
        BY <1>1, <2>2, DescriptorsFilled
      <4> QED  BY <1>1, <2>1, <3>2, <4>1, SettledFilled DEF Unfilled
    <3> QED  BY <3>1, <3>2
  <2>10. Filled'
    BY <2>4, <2>9 DEF Filled
  <2>11. \A f \in Files : \A obj : /\ Open(f, "INODE", obj)' <=> Open(f, "INODE", obj)
                                   /\ Open(f, "PIPE", obj)' <=> Open(f, "PIPE", obj)
    BY <2>2, <2>4 DEF Open
  <2>12. InodeRefsExact' /\ PipeEndsExact'
    BY <1>1, <2>1, <2>2, <2>11, SameInodes, SamePipes DEF Counts
  <2> QED  BY <1>r, <2>3, <2>5, <2>7, <2>10, <2>12 DEF Counts
<1>8. CASE ~(file[g].ref > 1)
  <2>1. /\ ff' = [ff EXCEPT ![p] = [type |-> file[g].type, obj |-> file[g].obj, writable |-> file[g].writable]]
        /\ file' = [file EXCEPT ![g] = Freed(@)]
        /\ pc' = [pc EXCEPT ![p] = "drop"]
    BY <1>8 DEF FileClose, g, Goto
  <2>0. file[g].ref = 1
    BY <1>6, <1>8
  <2>2. /\ DOMAIN file' = Files
        /\ \A f \in Files : /\ DOMAIN file'[f] = Fields
                            /\ file'[f].obj = file[f].obj
                            /\ file'[f].writable = file[f].writable
                            /\ f # g => file'[f].type = file[f].type /\ file'[f].ref = file[f].ref
        /\ file'[g].type = "NONE" /\ file'[g].ref = 0
    BY <1>0, <1>3, <2>1 DEF TypeOK, Fields, Freed
  <2>3. \A f \in Files : file'[f].ref = file[f].ref - One(f, g)
    BY <1>0, <2>0, <2>2 DEF One, TypeOK
  <2>4. /\ pc'[p] = "drop" /\ \A q \in Procs : q # p => pc'[q] = pc[q] /\ ff'[q] = ff[q]
        /\ ff'[p] = [type |-> file[g].type, obj |-> file[g].obj, writable |-> file[g].writable]
        /\ DOMAIN ff' = Procs
    BY <1>0, <2>1 DEF TypeOK
  <2>5. TypeOK'
    <3>1. pc' \in [Procs -> {"user", "fileclose", "drop", "exit"} \cup InOpen \cup InPipe \cup InIO]
      BY <1>0, <2>1 DEF TypeOK
    <3>2. ASSUME NEW f \in Files
          PROVE  /\ DOMAIN file'[f] = Fields /\ file'[f].type \in Types /\ file'[f].ref \in Nat
                 /\ file'[f].writable \in BOOLEAN
      <4>1. file[f].type \in Types /\ file[f].ref \in Nat /\ file[f].writable \in BOOLEAN /\ "NONE" \in Types
        BY <1>0 DEF TypeOK, Types
      <4>2. CASE f = g
        BY <2>2, <4>1, <4>2
      <4>3. CASE f # g
        BY <2>2, <4>1, <4>3
      <4> QED  BY <4>2, <4>3
    <3>3. ASSUME NEW q \in Procs PROVE ff'[q].writable \in BOOLEAN
      <4>1. file[g].writable \in BOOLEAN /\ ff[q].writable \in BOOLEAN
        BY <1>0, <1>3 DEF TypeOK
      <4>2. ff'[p].writable = file[g].writable
        BY <2>4
      <4> QED  BY <2>4, <4>1, <4>2
    <3>4. DOMAIN file' = Files /\ DOMAIN ff' = Procs
      BY <2>2, <2>4
    <3> QED  BY <1>0, <1>1, <1>2, <3>1, <3>2, <3>3, <3>4 DEF TypeOK
  <2>6. Place(p)'
    BY <1>0, <1>1, <1>4, <2>4, Alive DEF Place, InPipe, InOpen
  <2>7. Places'
    BY <1>0, <1>1, <1>2, <2>4, <2>6, OthersPlaced
  <2>8. \A q \in Procs : q # p => ~Refers(q, g)
    BY <1>6, <2>0
  <2>9. ASSUME NEW q \in Procs PROVE FilledBy(q)'
    <3>1. CASE q # p
      <4>1. \A x \in Procs : x # p => /\ pc'[x] = pc[x] /\ io'[x] = io[x]
                                      /\ own'[x] = own[x] /\ ofile'[x] = ofile[x]
        BY <1>1, <1>2, <2>4
      <4>2. \A f \in Files, x \in Procs : x # p /\ Refers(x, f) =>
             /\ file'[f].type = file[f].type
             /\ file[f].ref = 1 /\ file[f].type = "NONE" => file'[f].ref = 1
        BY <2>2, <2>8
      <4> QED  BY <3>1, <4>1, <4>2, OthersFilled
    <3>2. CASE q = p
      <4>1. \A d \in Fds : ofile[p][d] # None => file'[ofile[p][d]].type # "NONE"
        BY <1>1, <1>5, <2>0, <2>2, DescriptorsFilled
      <4> QED  BY <1>1, <2>4, <3>2, <4>1, SettledFilled DEF Unfilled
    <3> QED  BY <3>1, <3>2
  <2>10. Filled'
    BY <1>0, <2>2, <2>9 DEF Filled
  <2>11. \A f \in Files : \A obj : f # g => /\ Open(f, "INODE", obj)' <=> Open(f, "INODE", obj)
                                            /\ Open(f, "PIPE", obj)' <=> Open(f, "PIPE", obj)
    BY <2>2 DEF Open
  <2>12. ~(ff[p].type \in {"INODE", "PIPE"}) /\ file[g].ref > 0
    BY <1>0, <1>1, <2>0 DEF Place, NoFF
  <2>13. InodeRefsExact'
    <3>1. ASSUME NEW ip \in Inodes
          PROVE  iref'[ip] = iref[ip] + (In(g, Opened(ip)') - In(g, Opened(ip)))
                             + (In(p, LookedUp(ip)') - In(p, LookedUp(ip)))
                             + (In(p, GivenUp(ip)') - In(p, GivenUp(ip)))
      <4>1. In(g, Opened(ip)') = 0 /\ In(p, GivenUp(ip)) = 0 /\ LookedUp(ip)' = LookedUp(ip)
        BY <1>1, <2>2, <2>12 DEF In, Opened, GivenUp, Open, Dropping, LookedUp
      <4>2. In(g, Opened(ip)) = In(p, GivenUp(ip)')
        BY <1>3, <2>4, <2>12 DEF In, Opened, GivenUp, Open, Dropping
      <4>3. \A x, S : In(x, S) \in {0, 1}
        BY DEF In
      <4>4. iref[ip] \in Int /\ iref'[ip] = iref[ip]
        BY <1>0, <1>1 DEF TypeOK
      <4> QED  BY <4>1, <4>2, <4>3, <4>4
    <3> QED  BY <1>1, <2>4, <2>11, <3>1, InodesChange DEF Counts
  <2>14. PipeEndsExact'
    <3>1. ASSUME NEW q \in Pipes, NEW w \in BOOLEAN
          PROVE  In(End(w), pipe'[q]) = In(End(w), pipe[q])
                   + (In(g, EndFiles(q, w)') - In(g, EndFiles(q, w)))
                   + (In(p, EndsGivenUp(q, w)') - In(p, EndsGivenUp(q, w)))
      <4>1. In(g, EndFiles(q, w)') = 0 /\ In(p, EndsGivenUp(q, w)) = 0
        BY <1>1, <2>2, <2>12 DEF In, EndFiles, EndsGivenUp, Open, Dropping
      <4>2. In(g, EndFiles(q, w)) = In(p, EndsGivenUp(q, w)')
        BY <1>3, <2>4, <2>12 DEF In, EndFiles, EndsGivenUp, Open, Dropping
      <4>3. \A x, S : In(x, S) \in {0, 1}
        BY DEF In
      <4>4. pipe' = pipe
        BY <1>1
      <4> QED  BY <4>1, <4>2, <4>3, <4>4
    <3> QED  BY <2>2, <2>4, <2>11, <3>1, PipesChange DEF Counts
  <2> QED  BY <1>r, <2>3, <2>5, <2>7, <2>10, <2>13, <2>14 DEF Counts
<1> QED  BY <1>7, <1>8

(* pipeclose or iput, for the last reference to a file. *)
LEMMA DropKeeps ==
  ASSUME Counts, NEW p \in Procs, Drop(p)
  PROVE  Counts'
<1>0. TypeOK /\ Places /\ Place(p) /\ Filled
  BY Alive DEF Counts
<1>1. /\ pc[p] = "drop" /\ pc' = [pc EXCEPT ![p] = "fileclose"] /\ ff' = [ff EXCEPT ![p] = NoFF]
      /\ UNCHANGED <<file, ofile, live, ilk, ret, own, hip, io>>
      /\ pipe' = IF ff[p].type # "PIPE" THEN pipe
                 ELSE [pipe EXCEPT ![ff[p].obj] = @ \ {IF ff[p].writable THEN "w" ELSE "r"}]
      /\ iref' = IF ff[p].type # "INODE" THEN iref ELSE iput(ff[p].obj)
  BY DEF Drop, Goto, table
<1>2. /\ pc'[p] = "fileclose" /\ ff'[p] = NoFF /\ DOMAIN ff' = Procs
      /\ \A q \in Procs : q # p => pc'[q] = pc[q] /\ ff'[q] = ff[q]
  BY <1>0, <1>1 DEF TypeOK
<1>3. iref' \in [Inodes -> Int]
  <2>1. iref \in [Inodes -> Int]
    BY <1>0 DEF TypeOK
  <2>2. iput(ff[p].obj) \in [Inodes -> Int]
    <3>1. CASE ff[p].obj \in Inodes
      BY <2>1, <3>1 DEF iput
    <3>2. CASE ff[p].obj \notin Inodes
      BY <2>1, <3>2 DEF iput
    <3> QED  BY <3>1, <3>2
  <2> QED  BY <1>1, <2>1, <2>2
<1>4. pipe' \in [Pipes -> SUBSET {"r", "w"}]
  BY <1>0, <1>1 DEF TypeOK
<1>5. TypeOK'
  <2>1. pc' \in [Procs -> {"user", "fileclose", "drop", "exit"} \cup InOpen \cup InPipe \cup InIO]
    BY <1>0, <1>1 DEF TypeOK
  <2>2. ASSUME NEW q \in Procs PROVE ff'[q].writable \in BOOLEAN
    <3>1. ff[q].writable \in BOOLEAN /\ NoFF.writable \in BOOLEAN
      BY <1>0 DEF TypeOK, NoFF
    <3> QED  BY <1>2, <3>1
  <2> QED  BY <1>0, <1>1, <1>2, <1>3, <1>4, <2>1, <2>2 DEF TypeOK
<1>6. Place(p)'
  BY <1>0, <1>1, <1>2 DEF Place, InPipe, InOpen
<1>7. Places'
  BY <1>0, <1>1, <1>2, <1>6, OthersPlaced
<1>8. ASSUME NEW q \in Procs PROVE FilledBy(q)'
  <2>1. CASE q # p
    BY <1>1, <1>2, <2>1, OthersFilled
  <2>2. CASE q = p
    <3>1. \A d \in Fds : ofile[p][d] # None => file[ofile[p][d]].type # "NONE"
      BY <1>1, DescriptorsFilled
    <3> QED  BY <1>1, <1>2, <2>2, <3>1, SettledFilled DEF Unfilled
  <2> QED  BY <2>1, <2>2
<1>9. Filled'
  BY <1>0, <1>1, <1>8 DEF Filled
<1>10. RefsExact'
  BY <1>1, SameRefs DEF Counts
<1>11. /\ \A f, ip : Open(f, "INODE", ip)' <=> Open(f, "INODE", ip)
       /\ \A f, q : Open(f, "PIPE", q)' <=> Open(f, "PIPE", q)
  BY <1>1 DEF Open
<1>12. InodeRefsExact'
  <2>1. ASSUME NEW ip \in Inodes
        PROVE  iref'[ip] = iref[ip] + (In(0, Opened(ip)') - In(0, Opened(ip)))
                           + (In(p, LookedUp(ip)') - In(p, LookedUp(ip)))
                           + (In(p, GivenUp(ip)') - In(p, GivenUp(ip)))
    <3>1. /\ In(0, Opened(ip)') = In(0, Opened(ip)) /\ In(p, LookedUp(ip)') = In(p, LookedUp(ip))
          /\ In(p, GivenUp(ip)') = 0
      BY <1>1, <1>2, <1>11 DEF In, Opened, GivenUp, LookedUp, Dropping, NoFF
    <3>2. iref'[ip] = iref[ip] - In(p, GivenUp(ip)) /\ iref[ip] \in Int
      BY <1>0, <1>1 DEF TypeOK, In, GivenUp, Dropping, iput
    <3>3. \A x, S : In(x, S) \in {0, 1}
      BY DEF In
    <3> QED  BY <3>1, <3>2, <3>3
  <2> QED  BY <1>1, <1>2, <1>11, <2>1, InodesChange DEF Counts
<1>13. PipeEndsExact'
  <2>1. ASSUME NEW q \in Pipes, NEW w \in BOOLEAN
        PROVE  In(End(w), pipe'[q]) = In(End(w), pipe[q])
                 + (In(0, EndFiles(q, w)') - In(0, EndFiles(q, w)))
                 + (In(p, EndsGivenUp(q, w)') - In(p, EndsGivenUp(q, w)))
    <3>1. EndFiles(q, w)' = EndFiles(q, w) /\ In(p, EndsGivenUp(q, w)') = 0
      BY <1>1, <1>2, <1>11 DEF In, EndFiles, EndsGivenUp, Dropping, NoFF
    <3>2. In(End(w), pipe'[q]) = In(End(w), pipe[q]) - In(p, EndsGivenUp(q, w))
      <4>1. CASE p \in EndsGivenUp(q, w)
        <5>1. ff[p].type = "PIPE" /\ ff[p].obj = q /\ ff[p].writable = w
          BY <4>1 DEF EndsGivenUp, Dropping
        <5>2. End(w) \notin pipe'[q]
          BY <1>0, <1>1, <5>1 DEF TypeOK, End
        <5>3. End(w) \in pipe[q]
          <6>1. /\ In(End(w), pipe[q]) = Cardinality(EndFiles(q, w)) + Cardinality(EndsGivenUp(q, w))
            BY DEF Counts, PipeEndsExact, EndFiles, EndsGivenUp, In
          <6>2. IsFiniteSet(EndFiles(q, w)) /\ IsFiniteSet(EndsGivenUp(q, w))
            BY FiniteCounts DEF EndFiles, EndsGivenUp
          <6>3. Cardinality(EndFiles(q, w)) \in Nat /\ Cardinality(EndsGivenUp(q, w)) >= 1
                /\ Cardinality(EndsGivenUp(q, w)) \in Nat
            BY <4>1, <6>2, AtLeast
          <6>4. In(End(w), pipe[q]) # 0
            BY <6>1, <6>3
          <6> QED  BY <6>4 DEF In
        <5> QED  BY <4>1, <5>2, <5>3 DEF In
      <4>2. CASE p \notin EndsGivenUp(q, w)
        <5>1. ~(ff[p].type = "PIPE" /\ ff[p].obj = q /\ ff[p].writable = w)
          BY <4>2 DEF EndsGivenUp, Dropping
        <5>2. ff[p].writable \in BOOLEAN
          BY <1>0 DEF TypeOK
        <5>3. End(w) \in pipe'[q] <=> End(w) \in pipe[q]
          <6>1. CASE ff[p].type = "PIPE" /\ ff[p].obj = q
            <7>1. pipe'[q] = pipe[q] \ {IF ff[p].writable THEN "w" ELSE "r"}
              BY <1>0, <1>1, <6>1 DEF TypeOK
            <7>2. (IF ff[p].writable THEN "w" ELSE "r") # End(w)
              BY <5>1, <5>2, <6>1 DEF End
            <7> QED  BY <7>1, <7>2
          <6>2. CASE ~(ff[p].type = "PIPE" /\ ff[p].obj = q)
            BY <1>0, <1>1, <6>2 DEF TypeOK
          <6> QED  BY <6>1, <6>2
        <5> QED  BY <4>2, <5>3 DEF In
      <4> QED  BY <4>1, <4>2
    <3>3. \A x, S : In(x, S) \in {0, 1}
      BY DEF In
    <3> QED  BY <3>1, <3>2, <3>3
  <2>2. /\ \A f \in Files, q \in Pipes : f # 0 =>
             /\ Open(f, "PIPE", q)' <=> Open(f, "PIPE", q)
             /\ file'[f].writable = file[f].writable
        /\ \A q \in Procs : q # p => ff'[q] = ff[q]
    BY <1>1, <1>2, <1>11
  <2> QED  BY <2>1, <2>2, PipesChange DEF Counts
<1> QED  BY <1>5, <1>7, <1>9, <1>10, <1>12, <1>13 DEF Counts

(* The file that sys_open has allocated, before it is filled in. *)
LEMMA OpenFile ==
  ASSUME Counts, NEW p \in Procs, pc[p] = "openfd"
  PROVE  \E g \in Files : /\ Head(own[p]) = g /\ own[p] = <<g>> /\ Filling(p) = {g}
                          /\ own[p][1] = g
<1>1. own[p] \in Seq(Files) /\ Len(own[p]) = 1
  BY Alive DEF Counts, TypeOK, Place
<1>2. PICK g \in Files : g = own[p][1]
  BY <1>1
<1>3. Head(own[p]) = g /\ Filling(p) = {g}
  BY <1>1, <1>2 DEF Filling
<1>4. own[p] = <<g>>
  <2>1. <<g>> \in Seq(Files) /\ Len(<<g>>) = 1 /\ <<g>>[1] = g
    BY <1>2
  <2>2. \A k \in 1..Len(own[p]) : own[p][k] = <<g>>[k]
    BY <1>1, <1>2, <2>1
  <2> QED  BY <1>1, <2>1, <2>2, SeqEqual
<1> QED  BY <1>2, <1>3, <1>4

LEMMA FreeFd ==
  ASSUME TypeOK, NEW p \in Procs, FreeFds(p) # {}
  PROVE  Min(FreeFds(p)) \in Fds /\ ofile[p][Min(FreeFds(p))] = None
<1>1. FreeFds(p) \in SUBSET Nat
  BY FileAssumption DEF FreeFds, Fds
<1>2. Min(FreeFds(p)) \in FreeFds(p)
  BY <1>1, MinIn
<1> QED  BY <1>2 DEF FreeFds

(* The references are counted anew. *)
LEMMA RefsMove ==
  ASSUME TypeOK, RefsExact,
         \A f \in Files :
           /\ file'[f].ref \in Nat
           /\ file'[f].ref + Cardinality(HeldIn(ofile, f)) + Cardinality(OwnedIn(own, f))
                = file[f].ref + Cardinality(HeldIn(ofile', f)) + Cardinality(OwnedIn(own', f))
  PROVE  RefsExact'
<1>1. \A f : /\ Held(f) = HeldIn(ofile, f) /\ Held(f)' = HeldIn(ofile', f)
             /\ Owned(f) = OwnedIn(own, f) /\ Owned(f)' = OwnedIn(own', f)
  BY DEF Held, HeldIn, Owned, OwnedIn
<1>2. \A f : /\ Cardinality(HeldIn(ofile, f)) \in Nat /\ Cardinality(HeldIn(ofile', f)) \in Nat
             /\ Cardinality(OwnedIn(own, f)) \in Nat /\ Cardinality(OwnedIn(own', f)) \in Nat
  BY FiniteIn, FS_CardinalityType
<1>3. ASSUME NEW f \in Files
      PROVE  file'[f].ref = Cardinality(Held(f)') + Cardinality(Owned(f)')
  <2>1. file[f].ref = Cardinality(HeldIn(ofile, f)) + Cardinality(OwnedIn(own, f))
    BY <1>1 DEF RefsExact
  <2>2. file'[f].ref = Cardinality(HeldIn(ofile', f)) + Cardinality(OwnedIn(own', f))
    BY <1>2, <2>1
  <2> QED  BY <1>1, <2>2
<1> QED  BY <1>3 DEF RefsExact

FdSet(p, d, x) == ofile' = [ofile EXCEPT ![p][d] = x]

(* fdalloc: a descriptor of p gets the file g. *)
LEMMA FdMore ==
  ASSUME TypeOK, NEW p \in Procs, NEW d \in Fds, NEW g \in Files, ofile[p][d] = None,
         FdSet(p, d, g)
  PROVE  /\ ofile' \in [Procs -> [Fds -> Files \cup {None}]]
         /\ ofile'[p][d] = g /\ \A e \in Fds : e # d => ofile'[p][e] = ofile[p][e]
         /\ \A q \in Procs : q # p => ofile'[q] = ofile[q]
         /\ \A f \in Files : Cardinality(HeldIn(ofile', f)) = Cardinality(HeldIn(ofile, f)) + One(f, g)
<1>1. ofile \in Descriptors
  BY DEF TypeOK, Descriptors
<1>2. /\ ofile' \in Descriptors
      /\ ofile'[p][d] = g /\ \A e \in Fds : e # d => ofile'[p][e] = ofile[p][e]
      /\ \A q \in Procs : q # p => ofile'[q] = ofile[q]
  BY <1>1 DEF Descriptors, FdSet
<1>3. FdApart(ofile, ofile', p, d)
  BY <1>1, <1>2 DEF FdApart
<1>4. \A f \in Files : Cardinality(HeldIn(ofile', f)) = Cardinality(HeldIn(ofile, f)) + One(f, g)
  BY <1>2, <1>3, HeldMoreAll
<1> QED  BY <1>2, <1>4 DEF Descriptors

(* A descriptor of p gives up the file g. *)
LEMMA FdLess ==
  ASSUME TypeOK, NEW p \in Procs, NEW d \in Fds, NEW g \in Files, ofile[p][d] = g,
         FdSet(p, d, None)
  PROVE  /\ ofile' \in [Procs -> [Fds -> Files \cup {None}]]
         /\ ofile'[p][d] = None /\ \A e \in Fds : e # d => ofile'[p][e] = ofile[p][e]
         /\ \A q \in Procs : q # p => ofile'[q] = ofile[q]
         /\ \A f \in Files : Cardinality(HeldIn(ofile, f)) = Cardinality(HeldIn(ofile', f)) + One(f, g)
<1>1. ofile \in Descriptors
  BY DEF TypeOK, Descriptors
<1>2. /\ ofile' \in Descriptors
      /\ ofile'[p][d] = None /\ \A e \in Fds : e # d => ofile'[p][e] = ofile[p][e]
      /\ \A q \in Procs : q # p => ofile'[q] = ofile[q]
  BY <1>1 DEF Descriptors, FdSet
<1>3. FdApart(ofile', ofile, p, d)
  BY <1>1, <1>2 DEF FdApart
<1>4. \A f \in Files : Cardinality(HeldIn(ofile, f)) = Cardinality(HeldIn(ofile', f)) + One(f, g)
  BY <1>2, <1>3, HeldMoreAll
<1> QED  BY <1>2, <1>4 DEF Descriptors

LEMMA OpenFdKeeps ==
  ASSUME Counts, NEW p \in Procs, OpenFd(p)
  PROVE  Counts'
<1>0. TypeOK /\ Places /\ Place(p) /\ Filled /\ RefsExact
  BY Alive DEF Counts
<1>1. pc[p] = "openfd" /\ UNCHANGED <<file, live, iref, size, pipe, ff, hip>>
  BY DEF OpenFd
<1>2. PICK g \in Files : Head(own[p]) = g /\ own[p] = <<g>> /\ Filling(p) = {g} /\ own[p][1] = g
  BY <1>1, OpenFile
<1>g. g \in Files
  BY <1>2
<1>3. CASE FreeFds(p) # {} /\ own' # own
  <2>1. /\ ofile' = [ofile EXCEPT ![p][Min(FreeFds(p))] = g] /\ own' = [own EXCEPT ![p] = <<>>]
        /\ io' = [io EXCEPT ![p].f = g] /\ ilk' = [ilk EXCEPT ![hip[p]] = None]
        /\ pc' = [pc EXCEPT ![p] = "openinit"] /\ UNCHANGED ret
    BY <1>2, <1>3 DEF OpenFd, Goto
  <2>0. PICK d \in Fds : d = Min(FreeFds(p)) /\ ofile[p][d] = None
    BY <1>0, <1>3, FreeFd
  <2>2. d \in Fds /\ ofile[p][d] = None /\ FdSet(p, d, g)
    BY <2>0, <2>1 DEF FdSet
  <2>3. /\ ofile' \in [Procs -> [Fds -> Files \cup {None}]]
        /\ ofile'[p][d] = g /\ \A e \in Fds : e # d => ofile'[p][e] = ofile[p][e]
        /\ \A q \in Procs : q # p => ofile'[q] = ofile[q]
        /\ \A f \in Files : Cardinality(HeldIn(ofile', f)) = Cardinality(HeldIn(ofile, f)) + One(f, g)
    BY <1>0, <1>g, <2>2, FdMore
  <2>4. /\ own \in [Procs -> Seq(Files)] /\ own' \in [Procs -> Seq(Files)]
        /\ own'[p] = <<>> /\ \A q \in Procs : q # p => own'[q] = own[q]
    <3>1. <<>> \in Seq(Files)
      BY EmptySeq
    <3> QED  BY <1>0, <2>1, <3>1 DEF TypeOK
  <2>5. \A f \in Files : Cardinality(OwnedIn(own, f)) = Cardinality(OwnedIn(own', f)) + One(f, g)
    <3>1. /\ own[p] = Append(own'[p], g) /\ Len(own'[p]) <= 1
          /\ \A q \in Procs : q # p => own[q] = own'[q]
      BY <1>2, <2>4
    <3> QED  BY <1>g, <2>4, <3>1, OwnedMoreAll
  <2>6. RefsExact'
    <3>1. ASSUME NEW f \in Files
          PROVE  /\ file'[f].ref \in Nat
                 /\ file'[f].ref + Cardinality(HeldIn(ofile, f)) + Cardinality(OwnedIn(own, f))
                      = file[f].ref + Cardinality(HeldIn(ofile', f)) + Cardinality(OwnedIn(own', f))
      <4>1. file'[f].ref = file[f].ref /\ file[f].ref \in Nat
        BY <1>0, <1>1 DEF TypeOK
      <4>2. /\ Cardinality(HeldIn(ofile, f)) \in Nat /\ Cardinality(OwnedIn(own', f)) \in Nat
            /\ One(f, g) \in Nat
        BY FiniteIn, FS_CardinalityType DEF One
      <4> QED  BY <2>3, <2>5, <4>1, <4>2
    <3> QED  BY <1>0, <3>1, RefsMove
  <2>7. /\ pc'[p] = "openinit" /\ io'[p].f = g /\ DOMAIN io' = Procs /\ DOMAIN io'[p] = DOMAIN io[p]
        /\ \A q \in Procs : q # p => pc'[q] = pc[q] /\ io'[q] = io[q]
    BY <1>0, <2>1 DEF TypeOK
  <2>8. TypeOK'
    <3>1. pc' \in [Procs -> {"user", "fileclose", "drop", "exit"} \cup InOpen \cup InPipe \cup InIO]
      BY <1>0, <2>1 DEF TypeOK, InOpen
    <3>2. \A q \in Procs : DOMAIN io'[q] = {"f", "n", "i", "r"}
      BY <1>0, <2>7 DEF TypeOK
    <3>3. ilk' \in [Inodes -> Procs \cup {None}]
      BY <2>1, Alive, ExceptType
    <3> QED  BY <1>0, <1>1, <2>1, <2>3, <2>4, <2>7, <3>1, <3>2, <3>3 DEF TypeOK
  <2>9. Place(p)'
    <3>1. Len(own'[p]) = 0
      BY <2>4
    <3> QED  BY <1>0, <1>1, <2>1, <2>4, <2>7, <3>1, Alive DEF Place, InPipe, InOpen
  <2>10. Places'
    BY <1>0, <1>1, <2>1, <2>3, <2>4, <2>7, <2>9, OthersPlaced
  <2>11. ASSUME NEW q \in Procs PROVE FilledBy(q)'
    <3>1. CASE q # p
      BY <1>1, <2>3, <2>4, <2>7, <3>1, OthersFilled
    <3>2. CASE q = p
      <4>1. Filling(p)' = {g} /\ file'[g].ref = 1 /\ file'[g].type = "NONE"
        BY <1>1, <1>2, <2>7, FillingAlone DEF Filling
      <4>2. \A e \in Fds : ofile'[p][e] # None /\ ofile'[p][e] # g => file'[ofile'[p][e]].type # "NONE"
        BY <1>1, <2>3, DescriptorsFilled
      <4>3. io'[p].f \in Files /\ \E e \in Fds : ofile'[p][e] = io'[p].f
        BY <1>g, <2>2, <2>3, <2>7
      <4> QED  BY <2>7, <3>2, <4>1, <4>2, <4>3 DEF FilledBy
    <3> QED  BY <3>1, <3>2
  <2>12. Filled'
    BY <1>0, <1>1, <2>11 DEF Filled
  <2>13. InodeRefsExact' /\ PipeEndsExact'
    BY <1>1, SameInodes, SamePipes DEF Counts, Open
  <2> QED  BY <2>6, <2>8, <2>10, <2>12, <2>13 DEF Counts
<1>4. CASE UNCHANGED <<ofile, own, io, ilk>> /\ pc' = [pc EXCEPT ![p] = "fileclose"] /\ ret' = [ret EXCEPT ![p] = "openfail"]
  <2>1. hip[p] # None /\ p \in live
    BY <1>1, Alive DEF Place, InPipe, InOpen
  <2> QED  BY <1>1, <1>4, <2>1, Alive, JumpKeeps
<1>5. \/ FreeFds(p) # {} /\ own' # own
      \/ UNCHANGED <<ofile, own, io, ilk>> /\ pc' = [pc EXCEPT ![p] = "fileclose"] /\ ret' = [ret EXCEPT ![p] = "openfail"]
  <2>1. CASE FreeFds(p) # {} /\ own' = [own EXCEPT ![p] = <<>>]
    <3>1. own'[p] = <<>> /\ own[p] # <<>>
      BY <1>0, <1>2, <2>1 DEF TypeOK
    <3> QED  BY <2>1, <3>1
  <2> QED  BY <2>1 DEF OpenFd, CloseOwn, Goto
<1> QED  BY <1>3, <1>4, <1>5

(* The reference to the inode goes from sys_open to the file. *)
LEMMA OpenInitKeeps ==
  ASSUME Counts, NEW p \in Procs, NEW r, NEW w \in BOOLEAN, OpenInit(p, r, w)
  PROVE  Counts'
<1>0. TypeOK /\ Places /\ Place(p) /\ Filled /\ RefsExact /\ InodeRefsExact /\ PipeEndsExact
  BY Alive DEF Counts
<1>1. /\ pc[p] = "openinit" /\ hip' = [hip EXCEPT ![p] = None] /\ io' = [io EXCEPT ![p] = NoIO]
      /\ pc' = [pc EXCEPT ![p] = "user"]
      /\ UNCHANGED <<ofile, live, iref, ilk, pipe, ret, own, ff>>
  BY DEF OpenInit, Goto, inodes
<1>2. PICK g \in Files : g = io[p].f /\ g \in Filling(p) /\ Filling(p) = {g}
  BY <1>0, <1>1 DEF Filled, FilledBy, Filling
<1>g. g \in Files
  BY <1>2
<1>3. file[g].ref = 1 /\ file[g].type = "NONE" /\ \A q \in Procs : q # p => ~Refers(q, g)
  BY <1>2, FillingAlone
<1>4. file' = [file EXCEPT ![g].type = "INODE", ![g].obj = hip[p], ![g].off = 0,
                           ![g].readable = r, ![g].writable = w]
  BY <1>2 DEF OpenInit
<1>5. hip[p] \in Inodes /\ own[p] = <<>> /\ p \in live
  BY <1>0, <1>1, Alive DEF Place, InOpen, InPipe, TypeOK
<1>6. /\ DOMAIN file' = Files /\ \A f \in Files : DOMAIN file'[f] = Fields
      /\ \A f \in Files : file'[f].ref = file[f].ref
      /\ \A f \in Files : f # g => file'[f] = file[f]
      /\ file'[g].type = "INODE" /\ file'[g].obj = hip[p] /\ file'[g].writable = w
  BY <1>0, <1>4 DEF TypeOK, Fields
<1>7. /\ hip' \in [Procs -> Inodes \cup {None}] /\ hip'[p] = None
      /\ \A q \in Procs : q # p => hip'[q] = hip[q]
      /\ pc'[p] = "user" /\ \A q \in Procs : q # p => pc'[q] = pc[q] /\ io'[q] = io[q]
      /\ DOMAIN io' = Procs /\ io'[p] = NoIO
  BY <1>0, <1>1 DEF TypeOK
<1>8. TypeOK'
  <2>1. pc' \in [Procs -> {"user", "fileclose", "drop", "exit"} \cup InOpen \cup InPipe \cup InIO]
    BY <1>0, <1>1 DEF TypeOK
  <2>2. ASSUME NEW q \in Procs PROVE DOMAIN io'[q] = {"f", "n", "i", "r"}
    <3>1. CASE q = p
      BY <1>7, <3>1 DEF NoIO
    <3>2. CASE q # p
      BY <1>0, <1>7, <3>2 DEF TypeOK
    <3> QED  BY <3>1, <3>2
  <2>3. ASSUME NEW f \in Files
        PROVE  file'[f].type \in Types /\ file'[f].ref \in Nat /\ file'[f].writable \in BOOLEAN
    <3>0. file[f].type \in Types /\ file[f].ref \in Nat /\ file[f].writable \in BOOLEAN
      BY <1>0 DEF TypeOK
    <3>1. CASE f = g
      BY <1>6, <3>0, <3>1 DEF Types
    <3>2. CASE f # g
      BY <1>6, <3>0, <3>2
    <3> QED  BY <3>1, <3>2
  <2> QED  BY <1>0, <1>1, <1>6, <1>7, <2>1, <2>2, <2>3 DEF TypeOK
<1>9. Place(p)'
  BY <1>0, <1>1, <1>5, <1>7 DEF Place, InOpen, InPipe
<1>10. Places'
  BY <1>0, <1>1, <1>7, <1>9, OthersPlaced
<1>11. ASSUME NEW q \in Procs PROVE FilledBy(q)'
  <2>1. CASE q # p
    <3>1. \A f \in Files, x \in Procs : x # p /\ Refers(x, f) => file'[f] = file[f]
      BY <1>3, <1>6
    <3>2. \A f \in Files, x \in Procs : x # p /\ Refers(x, f) =>
             /\ file'[f].type = file[f].type
             /\ file[f].ref = 1 /\ file[f].type = "NONE" => file'[f].ref = 1
      BY <3>1
    <3> QED  BY <1>1, <1>7, <2>1, <3>2, OthersFilled
  <2>2. CASE q = p
    <3>1. ASSUME NEW d \in Fds, ofile[p][d] # None PROVE file'[ofile[p][d]].type # "NONE"
      <4>1. ofile[p][d] \in Files
        BY <1>0, <3>1 DEF TypeOK
      <4>2. CASE ofile[p][d] = g
        BY <1>6, <4>2
      <4>3. CASE ofile[p][d] # g
        <5>1. file[ofile[p][d]].type # "NONE"
          BY <1>0, <1>2, <3>1, <4>3 DEF Filled, FilledBy
        <5> QED  BY <1>6, <4>1, <4>3, <5>1
      <4> QED  BY <4>2, <4>3
    <3> QED  BY <1>1, <1>7, <2>2, <3>1, SettledFilled DEF Unfilled
  <2> QED  BY <2>1, <2>2
<1>12. Filled'
  <2>1. ASSUME NEW f \in Files, file'[f].ref = 0 PROVE file'[f].type = "NONE"
    BY <1>0, <1>3, <1>6, <2>1 DEF Filled
  <2> QED  BY <1>11, <2>1 DEF Filled
<1>13. RefsExact'
  BY <1>0, <1>1, <1>6, SameRefs
<1>14. InodeRefsExact'
  <2>1. ASSUME NEW ip \in Inodes
        PROVE  iref'[ip] = iref[ip] + (In(g, Opened(ip)') - In(g, Opened(ip)))
                                    + (In(p, LookedUp(ip)') - In(p, LookedUp(ip)))
                                    + (In(p, GivenUp(ip)') - In(p, GivenUp(ip)))
    <3>1. In(g, Opened(ip)) = 0
      BY <1>3 DEF In, Opened, Open
    <3>2. In(p, GivenUp(ip)') = In(p, GivenUp(ip))
      BY <1>1 DEF In, GivenUp, Dropping
    <3>3. In(p, LookedUp(ip)') = 0
      BY <1>7, NoneAssumption DEF In, LookedUp
    <3>4. In(p, LookedUp(ip)) = IF hip[p] = ip THEN 1 ELSE 0
      BY DEF In, LookedUp
    <3>5. In(g, Opened(ip)') = IF hip[p] = ip THEN 1 ELSE 0
      BY <1>3, <1>6, <1>g DEF In, Opened, Open
    <3>6. iref'[ip] \in Int /\ iref'[ip] = iref[ip] /\ In(p, GivenUp(ip)) \in Int
      BY <1>0, <1>1 DEF TypeOK, In
    <3> QED  BY <3>1, <3>2, <3>3, <3>4, <3>5, <3>6
  <2>2. \A f \in Files, ip \in Inodes : f # g => (Open(f, "INODE", ip)' <=> Open(f, "INODE", ip))
    BY <1>6 DEF Open
  <2> QED  BY <1>0, <1>1, <1>7, <2>1, <2>2, InodesChange
<1>15. PipeEndsExact'
  <2>1. ASSUME NEW f \in Files, NEW q \in Pipes
        PROVE  /\ Open(f, "PIPE", q)' <=> Open(f, "PIPE", q)
               /\ Open(f, "PIPE", q) => file'[f].writable = file[f].writable
    <3>1. CASE f = g
      BY <1>3, <1>6, <3>1 DEF Open
    <3>2. CASE f # g
      BY <1>6, <3>2 DEF Open
    <3> QED  BY <3>1, <3>2
  <2> QED  BY <1>0, <1>1, <2>1, SamePipes
<1> QED  BY <1>8, <1>10, <1>12, <1>13, <1>14, <1>15 DEF Counts

(* The two files that pipealloc has allocated. *)
LEMMA TwoFiles ==
  ASSUME Counts, NEW p \in Procs, pc[p] \in {"pipekalloc", "pipefd"}
  PROVE  /\ own[p][1] \in Files /\ own[p][2] \in Files /\ own[p][1] # own[p][2]
         /\ own[p] \in Seq(Files) /\ Len(own[p]) = 2
         /\ hip[p] = None /\ p \in live
         /\ Refers(p, own[p][1]) /\ Refers(p, own[p][2])
         /\ pc[p] = "pipekalloc" => Filling(p) = {own[p][1], own[p][2]}
<1>1. own[p] \in Seq(Files) /\ Len(own[p]) = 2 /\ own[p][1] # own[p][2] /\ hip[p] = None /\ p \in live
  BY Alive DEF Counts, TypeOK, Place, InOpen
<1>2. 1..Len(own[p]) = {1, 2}
  BY <1>1
<1>3. own[p][1] \in Files /\ own[p][2] \in Files
  BY <1>1, <1>2
<1>4. Refers(p, own[p][1]) /\ Refers(p, own[p][2])
  BY <1>2 DEF Refers
<1>5. pc[p] = "pipekalloc" => Filling(p) = {own[p][1], own[p][2]}
  BY <1>2 DEF Filling
<1> QED  BY <1>1, <1>3, <1>4, <1>5

LEMMA PipeKallocKeeps ==
  ASSUME Counts, NEW p \in Procs, PipeKalloc(p)
  PROVE  Counts'
<1>0. TypeOK /\ Places /\ Place(p) /\ Filled /\ RefsExact /\ InodeRefsExact /\ PipeEndsExact
  BY Alive DEF Counts
<1>1. /\ pc[p] = "pipekalloc"
      /\ UNCHANGED <<ofile, live, iref, ilk, own, ff, hip, io>>
  BY DEF PipeKalloc, inodes
<1>2. PICK g \in Files, h \in Files :
        /\ g = own[p][1] /\ h = own[p][2] /\ g # h /\ Filling(p) = {g, h}
        /\ p \in live /\ hip[p] = None /\ Len(own[p]) = 2
  BY <1>1, TwoFiles
<1>g. g \in Files /\ h \in Files /\ g # h
  BY <1>2
<1>3. /\ file[g].ref = 1 /\ file[g].type = "NONE" /\ file[h].ref = 1 /\ file[h].type = "NONE"
      /\ \A q \in Procs : q # p => ~Refers(q, g) /\ ~Refers(q, h)
      /\ \A d \in Fds : ofile[p][d] # g /\ ofile[p][d] # h
  BY <1>1, <1>2, FillingAlone
<1>4. CASE CloseOwn(p, "user") /\ UNCHANGED <<pipe, file>>
  BY <1>1, <1>2, <1>4, Alive, JumpKeeps DEF CloseOwn, Goto
<1>5. ASSUME NEW q \in Pipes, pipe[q] = {}, pipe' = [pipe EXCEPT ![q] = {"r", "w"}],
             file' = [f \in Files |->
                          IF f = own[p][1]
                          THEN [file[f] EXCEPT !.type = "PIPE", !.obj = q, !.readable = TRUE, !.writable = FALSE]
                          ELSE IF f = own[p][2]
                          THEN [file[f] EXCEPT !.type = "PIPE", !.obj = q, !.readable = FALSE, !.writable = TRUE]
                          ELSE file[f]],
             pc' = [pc EXCEPT ![p] = "pipefd"], UNCHANGED ret
      PROVE  Counts'
  <2>1. /\ DOMAIN file' = Files /\ \A f \in Files : DOMAIN file'[f] = Fields
        /\ \A f \in Files : file'[f].ref = file[f].ref
        /\ \A f \in Files : f # g /\ f # h => file'[f] = file[f]
        /\ file'[g].type = "PIPE" /\ file'[g].obj = q /\ file'[g].writable = FALSE
        /\ file'[h].type = "PIPE" /\ file'[h].obj = q /\ file'[h].writable = TRUE
    <3>1. file' = [f \in Files |->
                     IF f = g
                     THEN [file[f] EXCEPT !.type = "PIPE", !.obj = q, !.readable = TRUE, !.writable = FALSE]
                     ELSE IF f = h
                     THEN [file[f] EXCEPT !.type = "PIPE", !.obj = q, !.readable = FALSE, !.writable = TRUE]
                     ELSE file[f]]
      BY <1>2, <1>5
    <3> QED  BY ZenonT(40), <1>0, <1>g, <3>1 DEF TypeOK, Fields
  <2>2. pc'[p] = "pipefd" /\ \A x \in Procs : x # p => pc'[x] = pc[x]
    BY ZenonT(40), <1>0, <1>5 DEF TypeOK
  <2>3. TypeOK'
    <3>1. pc' \in [Procs -> {"user", "fileclose", "drop", "exit"} \cup InOpen \cup InPipe \cup InIO]
      BY <1>0, <1>5 DEF TypeOK, InPipe
    <3>2. ASSUME NEW f \in Files
          PROVE  file'[f].type \in Types /\ file'[f].ref \in Nat /\ file'[f].writable \in BOOLEAN
      <4>0. file[f].type \in Types /\ file[f].ref \in Nat /\ file[f].writable \in BOOLEAN
        BY <1>0 DEF TypeOK
      <4>1. CASE f = g \/ f = h
        BY <2>1, <4>0, <4>1 DEF Types
      <4>2. CASE f # g /\ f # h
        BY <2>1, <4>0, <4>2
      <4> QED  BY <4>1, <4>2
    <3>3. pipe' \in [Pipes -> SUBSET {"r", "w"}]
      BY <1>0, <1>5 DEF TypeOK
    <3> QED  BY <1>0, <1>1, <1>5, <2>1, <3>1, <3>2, <3>3 DEF TypeOK
  <2>4. Place(p)'
    BY <1>0, <1>1, <1>2, <1>5, <2>2 DEF Place, InOpen, InPipe
  <2>5. Places'
    BY <1>0, <1>1, <1>5, <2>2, <2>4, OthersPlaced
  <2>6. ASSUME NEW x \in Procs PROVE FilledBy(x)'
    <3>1. CASE x # p
      <4>1. \A f \in Files, y \in Procs : y # p /\ Refers(y, f) => file'[f] = file[f]
        BY <1>3, <2>1
      <4>2. \A f \in Files, y \in Procs : y # p /\ Refers(y, f) =>
               /\ file'[f].type = file[f].type
               /\ file[f].ref = 1 /\ file[f].type = "NONE" => file'[f].ref = 1
        BY <4>1
      <4> QED  BY <1>1, <2>2, <3>1, <4>2, OthersFilled
    <3>2. CASE x = p
      <4>1. Filling(p)' = {}
        BY <2>2 DEF Filling
      <4>2. \A k \in 1..2 : file'[own'[p][k]].type = "PIPE"
        BY <1>1, <1>2, <2>1
      <4>3. ASSUME NEW d \in Fds, ofile[p][d] # None PROVE file'[ofile[p][d]].type # "NONE"
        <5>1. ofile[p][d] \in Files /\ file[ofile[p][d]].type # "NONE"
          BY <1>1, <4>3, DescriptorsFilled
        <5> QED  BY <1>3, <2>1, <5>1
      <4> QED  BY <1>1, <2>2, <3>2, <4>1, <4>2, <4>3 DEF FilledBy
    <3> QED  BY <3>1, <3>2
  <2>7. Filled'
    <3>1. ASSUME NEW f \in Files, file'[f].ref = 0 PROVE file'[f].type = "NONE"
      BY <1>0, <1>3, <2>1, <3>1 DEF Filled
    <3> QED  BY <2>6, <3>1 DEF Filled
  <2>8. RefsExact'
    BY <1>0, <1>1, <2>1, SameRefs
  <2>9. InodeRefsExact'
    <3>1. ASSUME NEW f \in Files, NEW ip \in Inodes
          PROVE  Open(f, "INODE", ip)' <=> Open(f, "INODE", ip)
      <4>1. CASE f = g \/ f = h
        BY <1>3, <2>1, <4>1 DEF Open
      <4>2. CASE f # g /\ f # h
        BY <2>1, <4>2 DEF Open
      <4> QED  BY <4>1, <4>2
    <3> QED  BY <1>0, <1>1, <3>1, SameInodes
  <2>10. PipeEndsExact'
    <3> SUFFICES ASSUME NEW x \in Pipes, NEW w \in BOOLEAN
                 PROVE  In(End(w), pipe'[x]) = Cardinality(EndFiles(x, w)') + Cardinality(EndsGivenUp(x, w)')
      BY DEF PipeEndsExact, EndFiles, EndsGivenUp, In, End
    <3>1. In(End(w), pipe[x]) = Cardinality(EndFiles(x, w)) + Cardinality(EndsGivenUp(x, w))
      BY <1>0 DEF PipeEndsExact, EndFiles, EndsGivenUp, In
    <3>2. EndsGivenUp(x, w)' = EndsGivenUp(x, w)
      BY <1>1 DEF EndsGivenUp, Dropping
    <3>3. CASE x # q
      <4>1. ASSUME NEW f \in Files
            PROVE  f \in EndFiles(x, w)' <=> f \in EndFiles(x, w)
        <5>1. CASE f = g \/ f = h
          BY <1>3, <2>1, <3>3, <5>1 DEF EndFiles, Open
        <5>2. CASE f # g /\ f # h
          BY <2>1, <5>2 DEF EndFiles, Open
        <5> QED  BY <5>1, <5>2
      <4>2. EndFiles(x, w)' = EndFiles(x, w)
        BY <4>1 DEF EndFiles
      <4>3. pipe'[x] = pipe[x]
        BY <1>0, <1>5, <3>3 DEF TypeOK
      <4> QED  BY <3>1, <3>2, <4>2, <4>3
    <3>4. CASE x = q
      <4>1. In(End(w), pipe'[x]) = 1 /\ In(End(w), pipe[x]) = 0
        BY <1>0, <1>5, <3>4 DEF TypeOK, In, End
      <4>2. IsFiniteSet(EndFiles(x, w)) /\ IsFiniteSet(EndsGivenUp(x, w))
        <5>1. EndFiles(x, w) \in SUBSET Files /\ EndsGivenUp(x, w) \in SUBSET Procs
          BY DEF EndFiles, EndsGivenUp
        <5> QED  BY <5>1, FiniteCounts
      <4>3. Cardinality(EndFiles(x, w)) = 0 /\ Cardinality(EndsGivenUp(x, w)) = 0
        BY <3>1, <4>1, <4>2, FS_CardinalityType
      <4>4. PICK k \in {g, h} : k = IF w THEN h ELSE g
        OBVIOUS
      <4>5. k \notin EndFiles(x, w)
        BY <1>3, <4>4 DEF EndFiles, Open
      <4>6. ASSUME NEW f \in Files
            PROVE  f \in EndFiles(x, w)' <=> f \in EndFiles(x, w) \cup {k}
        <5>1. CASE f = g
          <6>0. file'[f].ref > 0 /\ file'[f].type = "PIPE" /\ file'[f].obj = x /\ file'[f].writable = FALSE
            BY <1>3, <1>g, <2>1, <3>4, <5>1
          <6>1. f \in EndFiles(x, w)' <=> ~w
            BY <6>0, Zenon DEF EndFiles, Open
          <6>2. f \notin EndFiles(x, w) /\ (f = k <=> ~w)
            BY <1>3, <1>g, <4>4, <5>1 DEF EndFiles, Open
          <6> QED  BY <6>1, <6>2
        <5>2. CASE f = h
          <6>0. file'[f].ref > 0 /\ file'[f].type = "PIPE" /\ file'[f].obj = x /\ file'[f].writable = TRUE
            BY <1>3, <1>g, <2>1, <3>4, <5>2
          <6>1. f \in EndFiles(x, w)' <=> w
            BY <6>0, Zenon DEF EndFiles, Open
          <6>2. f \notin EndFiles(x, w) /\ (f = k <=> w)
            BY <1>3, <1>g, <4>4, <5>2 DEF EndFiles, Open
          <6> QED  BY <6>1, <6>2
        <5>3. CASE f # g /\ f # h
          BY <2>1, <4>4, <5>3 DEF EndFiles, Open
        <5> QED  BY <5>1, <5>2, <5>3
      <4>7. EndFiles(x, w)' = EndFiles(x, w) \cup {k}
        BY <1>g, <4>4, <4>6 DEF EndFiles
      <4>8. Cardinality(EndFiles(x, w)') = Cardinality(EndFiles(x, w)) + 1
        BY <4>2, <4>5, <4>7, Grown
      <4> QED  BY <3>2, <4>1, <4>3, <4>8
    <3> QED  BY <3>3, <3>4
  <2> QED  BY <2>3, <2>5, <2>7, <2>8, <2>9, <2>10 DEF Counts
<1> QED  BY <1>4, <1>5 DEF PipeKalloc, Goto

(* close and exit take a file out of a descriptor, for fileclose. *)
TakeOut(p, d, g, r) ==
  /\ p \in live /\ pc[p] \in {"user", "exit"} /\ ofile[p][d] = g /\ FdSet(p, d, None)
  /\ own' = [own EXCEPT ![p] = <<g>>]
  /\ pc' = [pc EXCEPT ![p] = "fileclose"] /\ ret' = [ret EXCEPT ![p] = r]
  /\ UNCHANGED <<file, live, iref, ilk, pipe, ff, hip, io>>

LEMMA TakeOutKeeps ==
  ASSUME Counts, NEW p \in Procs, NEW d \in Fds, NEW g \in Files, NEW r \in {"user", "exit"},
         TakeOut(p, d, g, r)
  PROVE  Counts'
<1>0. TypeOK /\ Places /\ Place(p) /\ Filled /\ RefsExact /\ InodeRefsExact /\ PipeEndsExact
  BY Alive DEF Counts
<1>1. own[p] = <<>> /\ hip[p] = None /\ ff[p] = NoFF
  BY <1>0 DEF Place, InPipe, InOpen, TakeOut
<1>u. /\ p \in live /\ ofile[p][d] = g /\ FdSet(p, d, None)
      /\ UNCHANGED <<file, live, iref, ilk, pipe, ff, hip, io>>
      /\ pc[p] # "openinit"
  BY DEF TakeOut
<1>2. /\ ofile' \in [Procs -> [Fds -> Files \cup {None}]]
      /\ ofile'[p][d] = None /\ \A e \in Fds : e # d => ofile'[p][e] = ofile[p][e]
      /\ \A q \in Procs : q # p => ofile'[q] = ofile[q]
      /\ \A f \in Files : Cardinality(HeldIn(ofile, f)) = Cardinality(HeldIn(ofile', f)) + One(f, g)
  BY <1>0, <1>u, FdLess
<1>3. /\ own \in [Procs -> Seq(Files)] /\ own' \in [Procs -> Seq(Files)]
      /\ own'[p] = <<g>> /\ \A q \in Procs : q # p => own'[q] = own[q]
  <2>1. <<g>> \in Seq(Files)
    OBVIOUS
  <2> QED  BY <1>0, <2>1 DEF TypeOK, TakeOut
<1>4. \A f \in Files : Cardinality(OwnedIn(own', f)) = Cardinality(OwnedIn(own, f)) + One(f, g)
  <2>1. own'[p] = Append(own[p], g) /\ Len(own[p]) <= 1
    BY <1>1, <1>3
  <2> QED  BY <1>3, <2>1, OwnedMoreAll
<1>5. RefsExact'
  <2>1. ASSUME NEW f \in Files
        PROVE  /\ file'[f].ref \in Nat
               /\ file'[f].ref + Cardinality(HeldIn(ofile, f)) + Cardinality(OwnedIn(own, f))
                    = file[f].ref + Cardinality(HeldIn(ofile', f)) + Cardinality(OwnedIn(own', f))
    <3>1. file'[f].ref = file[f].ref /\ file[f].ref \in Nat
      BY <1>0, <1>u DEF TypeOK
    <3>2. /\ Cardinality(HeldIn(ofile', f)) \in Nat /\ Cardinality(OwnedIn(own, f)) \in Nat
          /\ One(f, g) \in Nat
      BY FiniteIn, FS_CardinalityType DEF One
    <3> QED  BY <1>2, <1>4, <3>1, <3>2
  <2> QED  BY <1>0, <2>1, RefsMove
<1>6. /\ pc'[p] = "fileclose" /\ ret'[p] = r
      /\ \A q \in Procs : q # p => pc'[q] = pc[q] /\ ret'[q] = ret[q]
  BY <1>0 DEF TypeOK, TakeOut
<1>7. TypeOK'
  <2>1. pc' \in [Procs -> {"user", "fileclose", "drop", "exit"} \cup InOpen \cup InPipe \cup InIO]
    BY <1>0 DEF TypeOK, TakeOut
  <2>2. ret' \in [Procs -> {"user", "openfail", "exit"}]
    BY <1>0 DEF TypeOK, TakeOut
  <2> QED  BY <1>0, <1>2, <1>3, <1>u, <2>1, <2>2 DEF TypeOK
<1>8. Place(p)'
  <2>1. Len(own'[p]) = 1
    BY <1>3
  <2> QED  BY <1>0, <1>1, <1>3, <1>6, <1>u, <2>1 DEF Place, InPipe, InOpen
<1>9. Places'
  BY <1>0, <1>2, <1>3, <1>6, <1>8, <1>u, OthersPlaced
<1>10. ASSUME NEW q \in Procs PROVE FilledBy(q)'
  <2>1. CASE q # p
    BY <1>2, <1>3, <1>6, <1>u, <2>1, OthersFilled
  <2>2. CASE q = p
    <3>1. ASSUME NEW e \in Fds, ofile'[p][e] # None PROVE file'[ofile'[p][e]].type # "NONE"
      <4>1. e # d /\ ofile'[p][e] = ofile[p][e]
        BY <1>2, <3>1
      <4> QED  BY <1>u, <3>1, <4>1, DescriptorsFilled
    <3> QED  BY <1>6, <2>2, <3>1, SettledFilled DEF Unfilled
  <2> QED  BY <2>1, <2>2
<1>11. Filled'
  BY <1>0, <1>10, <1>u DEF Filled
<1>12. InodeRefsExact' /\ PipeEndsExact'
  BY <1>0, <1>u, SameInodes, SamePipes DEF Open
<1> QED  BY <1>5, <1>7, <1>9, <1>11, <1>12 DEF Counts

LEMMA CloseKeeps ==
  ASSUME Counts, NEW p \in Procs, NEW d \in Fds, Close(p, d)
  PROVE  Counts'
<1>1. PICK g \in Files : g = ofile[p][d]
  BY DEF Counts, TypeOK, Close
<1>2. p \in live /\ pc[p] = "user" /\ FdSet(p, d, None) /\ own' = [own EXCEPT ![p] = <<g>>]
  BY <1>1 DEF Close, AtUser, FdSet
<1>3. /\ pc' = [pc EXCEPT ![p] = "fileclose"] /\ ret' = [ret EXCEPT ![p] = "user"]
      /\ UNCHANGED <<file, live, iref, ilk, pipe, ff, hip, io>>
  BY DEF Close, CloseOwn, Goto, inodes
<1>4. TakeOut(p, d, g, "user")
  BY <1>1, <1>2, <1>3 DEF TakeOut
<1> QED  BY <1>4, TakeOutKeeps

LEMMA ExitCloseKeeps ==
  ASSUME Counts, NEW p \in Procs, ExitClose(p)
  PROVE  Counts'
<1>1. /\ pc[p] = "exit" /\ p \in live /\ own[p] = <<>> /\ hip[p] = None
      /\ UNCHANGED <<file, iref, ilk, pipe, ff, hip, io>>
  BY Alive DEF ExitClose, inodes, Place, InOpen, InPipe
<1>2. CASE /\ Fds \ FreeFds(p) # {}
           /\ own' = [own EXCEPT ![p] = <<ofile[p][Min(Fds \ FreeFds(p))]>>]
           /\ ofile' = [ofile EXCEPT ![p][Min(Fds \ FreeFds(p))] = None]
           /\ CloseOwn(p, "exit") /\ UNCHANGED live
  <2>1. Fds \ FreeFds(p) \in SUBSET Nat
    BY FileAssumption DEF Fds
  <2>2. PICK d \in Fds \ FreeFds(p) : d = Min(Fds \ FreeFds(p))
    BY <1>2, <2>1, MinIn
  <2>d. d \in Fds /\ ofile[p][d] # None
    BY <2>2 DEF FreeFds
  <2>3. PICK g \in Files : g = ofile[p][d]
    BY <2>d DEF Counts, TypeOK
  <2>4. d \in Fds /\ FdSet(p, d, None) /\ own' = [own EXCEPT ![p] = <<g>>]
    BY <1>2, <2>2, <2>3 DEF FdSet
  <2>5. /\ pc' = [pc EXCEPT ![p] = "fileclose"] /\ ret' = [ret EXCEPT ![p] = "exit"]
        /\ UNCHANGED live
    BY <1>2 DEF CloseOwn, Goto
  <2>6. TakeOut(p, d, g, "exit")
    BY <1>1, <2>3, <2>4, <2>5 DEF TakeOut
  <2> QED  BY <2>4, <2>6, TakeOutKeeps
<1>3. CASE /\ Fds \ FreeFds(p) = {} /\ live' = live \ {p} /\ Goto(p, "user")
           /\ UNCHANGED <<own, ofile, ret>>
  <2>1. \A d \in Fds : ofile[p][d] = None
    BY <1>3 DEF FreeFds
  <2> QED  BY <1>1, <1>3, <2>1, Alive, JumpKeeps DEF Goto
<1> QED  BY <1>2, <1>3 DEF ExitClose

(* dup: one more descriptor and one more reference. *)
LEMMA DupKeeps ==
  ASSUME Counts, NEW p \in Procs, NEW c \in Fds, Dup(p, c)
  PROVE  Counts'
<1>0. TypeOK /\ Places /\ Place(p) /\ Filled /\ RefsExact /\ InodeRefsExact /\ PipeEndsExact
  BY Alive DEF Counts
<1>1. /\ p \in live /\ pc[p] = "user" /\ ofile[p][c] # None
      /\ UNCHANGED <<live, iref, ilk, pipe, pc, ret, own, ff, hip, io>>
  BY DEF Dup, AtUser, inodes, call
<1>2. PICK g \in Files : g = ofile[p][c]
  BY <1>0, <1>1 DEF TypeOK
<1>g. g \in Files
  BY <1>2
<1>3. PICK d \in Fds : d = Min(FreeFds(p)) /\ ofile[p][d] = None
  BY <1>0, FreeFd DEF Dup
<1>4. /\ d \in Fds /\ ofile[p][d] = None /\ FdSet(p, d, g)
      /\ file' = [file EXCEPT ![g].ref = @ + 1]
  BY <1>2, <1>3 DEF FdSet, Dup
<1>5. /\ ofile' \in [Procs -> [Fds -> Files \cup {None}]]
      /\ ofile'[p][d] = g /\ \A e \in Fds : e # d => ofile'[p][e] = ofile[p][e]
      /\ \A q \in Procs : q # p => ofile'[q] = ofile[q]
      /\ \A f \in Files : Cardinality(HeldIn(ofile', f)) = Cardinality(HeldIn(ofile, f)) + One(f, g)
  BY <1>0, <1>4, <1>g, FdMore
<1>6. /\ DOMAIN file' = Files
      /\ \A f \in Files : /\ DOMAIN file'[f] = Fields
                          /\ file'[f].type = file[f].type /\ file'[f].obj = file[f].obj
                          /\ file'[f].writable = file[f].writable
                          /\ file'[f].ref = file[f].ref + One(f, g)
  BY <1>0, <1>4 DEF TypeOK, Fields, One
<1>7. file[g].type # "NONE" /\ file[g].ref >= 1
  <2>1. Refers(p, g)
    BY <1>2 DEF Refers
  <2> QED  BY <1>0, <1>1, <1>2, <1>g, <2>1, DescriptorsFilled, Counted
<1>8. \A f \in Files : file[f].ref \in Nat /\ One(f, g) \in Nat
  BY <1>0 DEF TypeOK, One
<1>9. RefsExact'
  <2>1. ASSUME NEW f \in Files
        PROVE  /\ file'[f].ref \in Nat
               /\ file'[f].ref + Cardinality(HeldIn(ofile, f)) + Cardinality(OwnedIn(own, f))
                    = file[f].ref + Cardinality(HeldIn(ofile', f)) + Cardinality(OwnedIn(own', f))
    <3>1. Cardinality(HeldIn(ofile, f)) \in Nat /\ Cardinality(OwnedIn(own, f)) \in Nat
      BY FiniteIn, FS_CardinalityType
    <3>2. OwnedIn(own', f) = OwnedIn(own, f)
      BY <1>1
    <3> QED  BY <1>5, <1>6, <1>8, <3>1, <3>2
  <2> QED  BY <1>0, <2>1, RefsMove
<1>10. TypeOK'
  <2>1. \A f \in Files : /\ file'[f].type \in Types /\ file'[f].ref \in Nat
                         /\ file'[f].writable \in BOOLEAN
    BY <1>0, <1>6, <1>8 DEF TypeOK
  <2> QED  BY <1>0, <1>1, <1>5, <1>6, <2>1 DEF TypeOK
<1>11. Place(p)'
  BY <1>0, <1>1 DEF Place, InPipe, InOpen
<1>12. Places'
  BY <1>0, <1>1, <1>5, <1>11, OthersPlaced
<1>13. ASSUME NEW q \in Procs PROVE FilledBy(q)'
  <2>1. CASE q # p
    <3>1. \A f \in Files : file[f].ref = 1 /\ file[f].type = "NONE" => file'[f].ref = 1
      BY <1>6, <1>7 DEF One
    <3> QED  BY <1>1, <1>5, <1>6, <2>1, <3>1, OthersFilled
  <2>2. CASE q = p
    <3>1. ASSUME NEW e \in Fds, ofile'[p][e] # None PROVE file'[ofile'[p][e]].type # "NONE"
      <4>1. CASE e = d
        BY <1>5, <1>6, <1>7, <1>g, <4>1
      <4>2. CASE e # d
        <5>1. ofile'[p][e] = ofile[p][e]
          BY <1>5, <4>2
        <5>2. ofile[p][e] \in Files /\ file[ofile[p][e]].type # "NONE"
          BY <1>1, <3>1, <5>1, DescriptorsFilled
        <5> QED  BY <1>6, <5>1, <5>2
      <4> QED  BY <4>1, <4>2
    <3> QED  BY <1>1, <2>2, <3>1, SettledFilled DEF Unfilled
  <2> QED  BY <2>1, <2>2
<1>14. Filled'
  <2>1. \A f \in Files : file'[f].ref = 0 => file'[f].type = "NONE"
    BY <1>0, <1>6, <1>8 DEF Filled
  <2> QED  BY <1>13, <2>1 DEF Filled
<1>15. InodeRefsExact' /\ PipeEndsExact'
  <2>1. \A f \in Files : file'[f].ref > 0 <=> file[f].ref > 0
    BY <1>6, <1>7, <1>8 DEF One
  <2>2. \A f \in Files : \A type, obj : Open(f, type, obj)' <=> Open(f, type, obj)
    BY <1>6, <2>1 DEF Open
  <2> QED  BY <1>0, <1>1, <1>6, <2>2, SameInodes, SamePipes
<1> QED  BY <1>9, <1>10, <1>12, <1>14, <1>15 DEF Counts

(* sys_pipe: two free descriptors. *)
LEMMA FreeFds2 ==
  ASSUME TypeOK, NEW p \in Procs, Cardinality(FreeFds(p)) >= 2
  PROVE  \E d, e \in Fds : /\ d = Min(FreeFds(p)) /\ e = Min(FreeFds(p) \ {d}) /\ d # e
                           /\ ofile[p][d] = None /\ ofile[p][e] = None
<1>1. FreeFds(p) \in SUBSET Nat /\ FreeFds(p) \in SUBSET Fds
  BY FileAssumption DEF FreeFds, Fds
<1>2. IsFiniteSet(FreeFds(p))
  <2>1. 0 \in Int /\ NOFILE - 1 \in Int
    BY FileAssumption
  <2>2. IsFiniteSet(Fds)
    BY <2>1, FS_Interval, Zenon DEF Fds
  <2> QED  BY <1>1, <2>2, FS_Subset
<1>3. FreeFds(p) # {}
  BY FS_EmptySet
<1>4. PICK d \in FreeFds(p) : d = Min(FreeFds(p))
  BY <1>1, <1>3, MinIn
<1>5. FreeFds(p) \ {d} # {}
  <2>1. Cardinality(FreeFds(p) \ {d}) = Cardinality(FreeFds(p)) - 1 /\ Cardinality(FreeFds(p)) \in Nat
    BY <1>2, <1>4, FS_RemoveElement, FS_CardinalityType
  <2>2. Cardinality(FreeFds(p) \ {d}) # 0
    BY <2>1
  <2> QED  BY <2>2, FS_EmptySet
<1>6. PICK e \in FreeFds(p) \ {d} : e = Min(FreeFds(p) \ {d})
  <2>1. FreeFds(p) \ {d} \in SUBSET Nat
    BY <1>1
  <2> QED  BY <1>5, <2>1, MinIn
<1>7. d \in Fds /\ ofile[p][d] = None
  BY <1>4 DEF FreeFds
<1>8. e \in Fds /\ ofile[p][e] = None /\ d # e
  BY <1>6 DEF FreeFds
<1> QED  BY <1>4, <1>6, <1>7, <1>8

FdSet2(p, d, x, e, y) == ofile' = [ofile EXCEPT ![p][d] = x, ![p][e] = y]

LEMMA FdMore2 ==
  ASSUME TypeOK, NEW p \in Procs, NEW d \in Fds, NEW e \in Fds, NEW g \in Files, NEW h \in Files,
         d # e, ofile[p][d] = None, ofile[p][e] = None, FdSet2(p, d, g, e, h)
  PROVE  /\ ofile' \in [Procs -> [Fds -> Files \cup {None}]]
         /\ ofile'[p][d] = g /\ ofile'[p][e] = h
         /\ \A c \in Fds : c # d /\ c # e => ofile'[p][c] = ofile[p][c]
         /\ \A q \in Procs : q # p => ofile'[q] = ofile[q]
         /\ \A f \in Files : Cardinality(HeldIn(ofile', f))
                               = Cardinality(HeldIn(ofile, f)) + One(f, g) + One(f, h)
<1>1. ofile \in Descriptors
  BY DEF TypeOK, Descriptors
<1>2. /\ ofile' \in Descriptors
      /\ ofile'[p][d] = g /\ ofile'[p][e] = h
      /\ \A c \in Fds : c # d /\ c # e => ofile'[p][c] = ofile[p][c]
      /\ \A q \in Procs : q # p => ofile'[q] = ofile[q]
  BY <1>1 DEF Descriptors, FdSet2
<1>3. PICK mid \in Descriptors :
        /\ mid[p][d] = g /\ \A c \in Fds : c # d => mid[p][c] = ofile[p][c]
        /\ \A q \in Procs : q # p => mid[q] = ofile[q]
  <2>1. [ofile EXCEPT ![p][d] = g] \in Descriptors
    BY <1>1 DEF Descriptors
  <2> QED  BY <1>1, <2>1 DEF Descriptors
<1>4. FdApart(ofile, mid, p, d)
  BY <1>1, <1>3 DEF FdApart
<1>5. FdApart(mid, ofile', p, e)
  BY <1>1, <1>2, <1>3 DEF FdApart
<1>6. \A f \in Files : Cardinality(HeldIn(mid, f)) = Cardinality(HeldIn(ofile, f)) + One(f, g)
  BY <1>3, <1>4, HeldMoreAll
<1>7. mid[p][e] = None
  BY <1>3
<1>8. \A f \in Files : Cardinality(HeldIn(ofile', f)) = Cardinality(HeldIn(mid, f)) + One(f, h)
  BY <1>2, <1>5, <1>7, HeldMoreAll
<1>9. \A f \in Files : Cardinality(HeldIn(ofile', f))
                         = Cardinality(HeldIn(ofile, f)) + One(f, g) + One(f, h)
  BY <1>6, <1>8
<1> QED  BY <1>2, <1>9 DEF Descriptors

PipeDone(p, d, g, e, h) ==
  /\ pc[p] = "pipefd" /\ own[p][1] = g /\ own[p][2] = h /\ d # e
  /\ ofile[p][d] = None /\ ofile[p][e] = None /\ FdSet2(p, d, g, e, h)
  /\ own' = [own EXCEPT ![p] = <<>>] /\ pc' = [pc EXCEPT ![p] = "user"]
  /\ UNCHANGED <<ret, file, live, iref, ilk, pipe, ff, hip, io>>

LEMMA PipeDoneKeeps ==
  ASSUME Counts, NEW p \in Procs, NEW d \in Fds, NEW e \in Fds, NEW g \in Files, NEW h \in Files,
         PipeDone(p, d, g, e, h)
  PROVE  Counts'
<1>0. TypeOK /\ Places /\ Place(p) /\ Filled /\ RefsExact /\ InodeRefsExact /\ PipeEndsExact
  BY Alive DEF Counts
<1>1. /\ pc[p] = "pipefd" /\ own[p][1] = g /\ own[p][2] = h
      /\ UNCHANGED <<ret, file, live, iref, ilk, pipe, ff, hip, io>>
  BY DEF PipeDone
<1>t. p \in live /\ hip[p] = None /\ Len(own[p]) = 2 /\ own[p] \in Seq(Files)
  BY <1>1, TwoFiles
<1>2. /\ ofile' \in [Procs -> [Fds -> Files \cup {None}]]
      /\ ofile'[p][d] = g /\ ofile'[p][e] = h
      /\ \A c \in Fds : c # d /\ c # e => ofile'[p][c] = ofile[p][c]
      /\ \A q \in Procs : q # p => ofile'[q] = ofile[q]
      /\ \A f \in Files : Cardinality(HeldIn(ofile', f))
                            = Cardinality(HeldIn(ofile, f)) + One(f, g) + One(f, h)
  BY <1>0, FdMore2 DEF PipeDone
<1>3. /\ own \in [Procs -> Seq(Files)] /\ own' \in [Procs -> Seq(Files)]
      /\ own'[p] = <<>> /\ \A q \in Procs : q # p => own'[q] = own[q]
  <2>1. <<>> \in Seq(Files)
    BY EmptySeq
  <2> QED  BY <1>0, <2>1 DEF TypeOK, PipeDone
<1>4. \A f \in Files : Cardinality(OwnedIn(own, f))
                         = Cardinality(OwnedIn(own', f)) + One(f, g) + One(f, h)
  <2>1. PICK mid \in [Procs -> Seq(Files)] : mid[p] = <<g>> /\ \A q \in Procs : q # p => mid[q] = own[q]
    <3>1. <<g>> \in Seq(Files)
      OBVIOUS
    <3>2. [own EXCEPT ![p] = <<g>>] \in [Procs -> Seq(Files)]
      BY <1>3, <3>1
    <3> QED  BY <1>3, <3>2
  <2>2. mid[p] = Append(own'[p], g) /\ Len(own'[p]) <= 1
    BY <1>3, <2>1
  <2>3. \A f \in Files : Cardinality(OwnedIn(mid, f)) = Cardinality(OwnedIn(own', f)) + One(f, g)
    <3>1. OwnGrows(own', mid, p, g)
      BY <1>3, <2>1, <2>2 DEF OwnGrows
    <3> QED  BY <3>1, OwnedGrows
  <2>4. own[p] = Append(mid[p], h) /\ Len(mid[p]) <= 1
    <3>1. /\ Append(mid[p], h) \in Seq(Files) /\ Len(Append(mid[p], h)) = 2
          /\ Append(mid[p], h)[1] = g /\ Append(mid[p], h)[2] = h /\ Len(mid[p]) = 1
      BY <2>1
    <3>2. \A k \in 1..Len(own[p]) : own[p][k] = Append(mid[p], h)[k]
      BY <1>1, <1>t, <3>1
    <3>3. own[p] = Append(mid[p], h)
      BY <1>t, <3>1, <3>2, SeqEqual
    <3> QED  BY <3>1, <3>3
  <2>5. \A f \in Files : Cardinality(OwnedIn(own, f)) = Cardinality(OwnedIn(mid, f)) + One(f, h)
    <3>1. OwnGrows(mid, own, p, h)
      BY <1>3, <2>1, <2>4 DEF OwnGrows
    <3> QED  BY <3>1, OwnedGrows
  <2> QED  BY <2>3, <2>5
<1>5. RefsExact'
  <2>1. ASSUME NEW f \in Files
        PROVE  /\ file'[f].ref \in Nat
               /\ file'[f].ref + Cardinality(HeldIn(ofile, f)) + Cardinality(OwnedIn(own, f))
                    = file[f].ref + Cardinality(HeldIn(ofile', f)) + Cardinality(OwnedIn(own', f))
    <3>1. file'[f].ref = file[f].ref /\ file[f].ref \in Nat
      BY <1>0, <1>1 DEF TypeOK
    <3>2. /\ Cardinality(HeldIn(ofile, f)) \in Nat /\ Cardinality(OwnedIn(own', f)) \in Nat
          /\ One(f, g) \in Nat /\ One(f, h) \in Nat
      BY FiniteIn, FS_CardinalityType DEF One
    <3> QED  BY <1>2, <1>4, <3>1, <3>2
  <2> QED  BY <1>0, <2>1, RefsMove
<1>6. pc'[p] = "user" /\ \A q \in Procs : q # p => pc'[q] = pc[q]
  BY <1>0 DEF TypeOK, PipeDone
<1>7. TypeOK'
  <2>1. pc' \in [Procs -> {"user", "fileclose", "drop", "exit"} \cup InOpen \cup InPipe \cup InIO]
    BY <1>0 DEF TypeOK, PipeDone
  <2> QED  BY <1>0, <1>1, <1>2, <1>3, <2>1 DEF TypeOK
<1>8. Place(p)'
  <2>1. Len(own'[p]) = 0
    BY <1>3
  <2> QED  BY <1>0, <1>1, <1>3, <1>6, <1>t, <2>1 DEF Place, InPipe, InOpen
<1>9. Places'
  BY <1>0, <1>1, <1>2, <1>3, <1>6, <1>8, OthersPlaced
<1>10. ASSUME NEW q \in Procs PROVE FilledBy(q)'
  <2>1. CASE q # p
    BY <1>1, <1>2, <1>3, <1>6, <2>1, OthersFilled
  <2>2. CASE q = p
    <3>1. ASSUME NEW c \in Fds, ofile'[p][c] # None PROVE file'[ofile'[p][c]].type # "NONE"
      <4>1. file[g].type = "PIPE" /\ file[h].type = "PIPE"
        BY <1>0, <1>1 DEF Filled, FilledBy
      <4>2. CASE c = d \/ c = e
        BY <1>1, <1>2, <4>1, <4>2
      <4>3. CASE c # d /\ c # e
        <5>1. ofile'[p][c] = ofile[p][c]
          BY <1>2, <4>3
        <5> QED  BY <1>1, <3>1, <5>1, DescriptorsFilled
      <4> QED  BY <4>2, <4>3
    <3> QED  BY <1>6, <2>2, <3>1, SettledFilled DEF Unfilled
  <2> QED  BY <2>1, <2>2
<1>11. Filled'
  BY <1>0, <1>1, <1>10 DEF Filled
<1>12. InodeRefsExact' /\ PipeEndsExact'
  BY <1>0, <1>1, SameInodes, SamePipes DEF Open
<1> QED  BY <1>5, <1>7, <1>9, <1>11, <1>12 DEF Counts

LEMMA PipeFdKeeps ==
  ASSUME Counts, NEW p \in Procs, PipeFd(p)
  PROVE  Counts'
<1>1. /\ pc[p] = "pipefd" /\ UNCHANGED <<file, live, iref, ilk, pipe, ff, hip, io>> /\ TypeOK
  BY DEF PipeFd, inodes, Counts
<1>2. PICK g \in Files, h \in Files : g = own[p][1] /\ h = own[p][2] /\ p \in live /\ hip[p] = None
  BY <1>1, TwoFiles
<1>3. CASE /\ Cardinality(FreeFds(p)) >= 2
           /\ ofile' = [ofile EXCEPT ![p][Min(FreeFds(p))] = own[p][1],
                                     ![p][Min(FreeFds(p) \ {Min(FreeFds(p))})] = own[p][2]]
           /\ own' = [own EXCEPT ![p] = <<>>] /\ Goto(p, "user") /\ UNCHANGED ret
  <2>1. PICK d \in Fds, e \in Fds : /\ d = Min(FreeFds(p)) /\ e = Min(FreeFds(p) \ {d}) /\ d # e
                                    /\ ofile[p][d] = None /\ ofile[p][e] = None
    BY <1>1, <1>3, FreeFds2
  <2>2. FdSet2(p, d, g, e, h)
    BY <1>2, <1>3, <2>1 DEF FdSet2
  <2>3. PipeDone(p, d, g, e, h)
    BY <1>1, <1>2, <1>3, <2>1, <2>2 DEF PipeDone, Goto
  <2> QED  BY <1>2, <2>1, <2>3, PipeDoneKeeps
<1>4. CASE ofile' = [ofile EXCEPT ![p] = ofile[p]] /\ CloseOwn(p, "user") /\ UNCHANGED own
  <2>1. UNCHANGED ofile
    BY <1>1, <1>4 DEF TypeOK
  <2> QED  BY <1>1, <1>2, <1>4, <2>1, Alive, JumpKeeps DEF CloseOwn, Goto
<1> QED  BY <1>3, <1>4 DEF PipeFd, NoPipeFds

-----------------------------------------------------------------------------
(* fork: the child has a reference for each one of its parent. *)
LEMMA ForkHeld ==
  ASSUME NEW of \in Descriptors, NEW new \in Descriptors, NEW p \in Procs, NEW c \in Procs, NEW f \in Files,
         \A d \in Fds : of[c][d] = None, new[c] = of[p], \A q \in Procs : q # c => new[q] = of[q]
  PROVE  /\ Cardinality({d \in Fds : of[p][d] = f}) \in Nat
         /\ Cardinality(HeldIn(new, f)) = Cardinality(HeldIn(of, f)) + Cardinality({d \in Fds : of[p][d] = f})
<1> DEFINE D == {d \in Fds : of[p][d] = f}
<1>1. IsFiniteSet(HeldIn(of, f)) /\ Cardinality(HeldIn(of, f)) \in Nat
  BY FiniteIn, FS_CardinalityType
<1>2. IsFiniteSet(D) /\ Cardinality(D) \in Nat
  <2>1. 0 \in Int /\ NOFILE - 1 \in Int
    BY FileAssumption
  <2>2. IsFiniteSet(Fds)
    BY <2>1, FS_Interval, Zenon DEF Fds
  <2> QED  BY <2>2, FS_Subset, FS_CardinalityType
<1>3. IsFiniteSet({c}) /\ Cardinality({c}) = 1
  BY FS_Singleton
<1>4. IsFiniteSet({c} \X D) /\ Cardinality({c} \X D) = Cardinality({c}) * Cardinality(D)
  BY <1>2, <1>3, FS_Product
<1>5. Cardinality({c} \X D) = Cardinality(D)
  BY <1>2, <1>3, <1>4
<1>n. f # None
  BY NoneAssumption DEF Files
<1>6. HeldIn(of, f) \cap ({c} \X D) = {}
  BY <1>n DEF HeldIn
<1>7. ASSUME NEW x \in Procs \X Fds
      PROVE  x \in HeldIn(new, f) <=> x \in HeldIn(of, f) \/ x \in {c} \X D
  <2>1. x[1] \in Procs /\ x[2] \in Fds /\ x = <<x[1], x[2]>>
    OBVIOUS
  <2>2. CASE x[1] = c
    BY <1>n, <2>1, <2>2 DEF HeldIn
  <2>3. CASE x[1] # c
    BY <2>1, <2>3 DEF HeldIn
  <2> QED  BY <2>2, <2>3
<1>8. \A x : x \in HeldIn(new, f) \cup HeldIn(of, f) \cup ({c} \X D) => x \in Procs \X Fds
  BY DEF HeldIn
<1>9. HeldIn(new, f) = HeldIn(of, f) \cup ({c} \X D)
  <2> HIDE DEF D
  <2> QED  BY <1>7, <1>8
<1>10. Cardinality(HeldIn(of, f) \cup ({c} \X D)) = Cardinality(HeldIn(of, f)) + Cardinality({c} \X D)
  <2> HIDE DEF D
  <2> QED  BY <1>1, <1>4, <1>6, Joined
<1> QED  BY <1>2, <1>5, <1>9, <1>10

LEMMA ForkKeeps ==
  ASSUME Counts, NEW p \in Procs, NEW c \in Procs, Fork(p, c)
  PROVE  Counts'
<1>0. TypeOK /\ Places /\ Place(c) /\ Filled /\ RefsExact /\ InodeRefsExact /\ PipeEndsExact
  BY Alive DEF Counts
<1>1. /\ p \in live /\ pc[p] = "user" /\ c \notin live /\ live' = live \cup {c}
      /\ UNCHANGED <<iref, ilk, pipe, pc, ret, own, ff, hip, io>>
  BY DEF Fork, AtUser, inodes, call
<1>2. pc[c] = "user" /\ \A d \in Fds : ofile[c][d] = None
  BY <1>0, <1>1 DEF Place
<1>3. /\ ofile \in Descriptors /\ ofile' \in Descriptors
      /\ ofile'[c] = ofile[p] /\ \A q \in Procs : q # c => ofile'[q] = ofile[q]
  <2>1. ofile' = [ofile EXCEPT ![c] = ofile[p]]
    BY DEF Fork
  <2> QED  BY <1>0, <2>1 DEF TypeOK, Descriptors
<1>4. \A f \in Files : /\ FileDups(p, f) \in Nat
                       /\ Cardinality(HeldIn(ofile', f)) = Cardinality(HeldIn(ofile, f)) + FileDups(p, f)
  BY <1>2, <1>3, ForkHeld DEF FileDups
<1>5. ASSUME NEW f \in Files, FileDups(p, f) # 0
      PROVE  file[f].ref >= 1 /\ file[f].type # "NONE"
  <2>1. PICK d \in Fds : ofile[p][d] = f
    <3>1. {d \in Fds : ofile[p][d] = f} # {}
      BY <1>5, FS_EmptySet DEF FileDups
    <3> QED  BY <3>1
  <2>2. Refers(p, f) /\ ofile[p][d] # None
    BY <2>1, NoneAssumption DEF Refers, Files
  <2>3. file[f].ref >= 1
    BY <1>0, <2>2, Counted
  <2>4. file[ofile[p][d]].type # "NONE"
    BY <1>1, <2>1, <2>2, DescriptorsFilled
  <2> QED  BY <2>1, <2>3, <2>4
<1>6. /\ DOMAIN file' = Files
      /\ \A f \in Files : /\ DOMAIN file'[f] = Fields
                          /\ file'[f].type = file[f].type /\ file'[f].obj = file[f].obj
                          /\ file'[f].writable = file[f].writable
                          /\ file'[f].ref = file[f].ref + FileDups(p, f)
  <2>1. file' = [f \in Files |-> [file[f] EXCEPT !.ref = @ + FileDups(p, f)]]
    BY DEF Fork
  <2> QED  BY <1>0, <2>1 DEF TypeOK, Fields
<1>7. \A f \in Files : file[f].ref \in Nat
  BY <1>0 DEF TypeOK
<1>8. RefsExact'
  <2>1. ASSUME NEW f \in Files
        PROVE  /\ file'[f].ref \in Nat
               /\ file'[f].ref + Cardinality(HeldIn(ofile, f)) + Cardinality(OwnedIn(own, f))
                    = file[f].ref + Cardinality(HeldIn(ofile', f)) + Cardinality(OwnedIn(own', f))
    <3>1. Cardinality(HeldIn(ofile, f)) \in Nat /\ Cardinality(OwnedIn(own, f)) \in Nat
      BY FiniteIn, FS_CardinalityType
    <3>2. OwnedIn(own', f) = OwnedIn(own, f)
      BY <1>1
    <3> QED  BY <1>4, <1>6, <1>7, <3>1, <3>2
  <2> QED  BY <1>0, <2>1, RefsMove
<1>9. TypeOK'
  <2>1. \A f \in Files : /\ file'[f].type \in Types /\ file'[f].ref \in Nat
                         /\ file'[f].writable \in BOOLEAN
    BY <1>0, <1>4, <1>6, <1>7 DEF TypeOK
  <2> QED  BY <1>0, <1>1, <1>3, <1>6, <2>1 DEF TypeOK, Descriptors
<1>10. Place(c)'
  BY <1>0, <1>1, <1>2 DEF Place, InPipe, InOpen
<1>11. Places'
  BY <1>0, <1>1, <1>3, <1>10, OthersPlaced
<1>12. ASSUME NEW q \in Procs PROVE FilledBy(q)'
  <2>1. CASE q # c
    <3>1. \A f \in Files : file[f].ref = 1 /\ file[f].type = "NONE" => file'[f].ref = 1
      BY <1>5, <1>6
    <3> QED  BY <1>1, <1>3, <1>6, <2>1, <3>1, OthersFilled
  <2>2. CASE q = c
    <3>1. ASSUME NEW e \in Fds, ofile'[c][e] # None PROVE file'[ofile'[c][e]].type # "NONE"
      <4>1. ofile'[c][e] = ofile[p][e]
        BY <1>3
      <4>2. ofile[p][e] \in Files /\ file[ofile[p][e]].type # "NONE"
        BY <1>1, <3>1, <4>1, DescriptorsFilled
      <4> QED  BY <1>6, <4>1, <4>2
    <3> QED  BY <1>1, <1>2, <2>2, <3>1, SettledFilled DEF Unfilled
  <2> QED  BY <2>1, <2>2
<1>13. Filled'
  <2>1. \A f \in Files : file'[f].ref = 0 => file'[f].type = "NONE"
    BY <1>0, <1>4, <1>6, <1>7 DEF Filled
  <2> QED  BY <1>12, <2>1 DEF Filled
<1>14. InodeRefsExact' /\ PipeEndsExact'
  <2>1. \A f \in Files : file'[f].ref > 0 <=> file[f].ref > 0
    BY <1>4, <1>5, <1>6, <1>7
  <2>2. \A f \in Files : \A type, obj : Open(f, type, obj)' <=> Open(f, type, obj)
    BY <1>6, <2>1 DEF Open
  <2> QED  BY <1>0, <1>1, <1>6, <2>2, SameInodes, SamePipes
<1> QED  BY <1>8, <1>9, <1>11, <1>13, <1>14 DEF Counts

-----------------------------------------------------------------------------
(* At first nothing refers to anything. *)
LEMMA InitCounts ==
  ASSUME Init
  PROVE  Counts
<1>1. TypeOK
  <2>1. <<>> \in Seq(Files)
    BY EmptySeq
  <2>2. live \subseteq Procs
    BY ProcsAssumption DEF Init
  <2>3. \A f \in Files : /\ DOMAIN file[f] = Fields
                         /\ file[f].type \in Types /\ file[f].ref \in Nat
                         /\ file[f].writable \in BOOLEAN
    BY DEF Init, Fields, Types
  <2>4. \A p \in Procs : ff[p].writable \in BOOLEAN /\ DOMAIN io[p] = {"f", "n", "i", "r"}
    BY DEF Init, NoFF, NoIO
  <2>5. /\ own \in [Procs -> Seq(Files)] /\ ofile \in [Procs -> [Fds -> Files \cup {None}]]
        /\ pipe \in [Pipes -> SUBSET {"r", "w"}] /\ hip \in [Procs -> Inodes \cup {None}]
    BY <2>1 DEF Init
  <2>6. iref \in [Inodes -> Int] /\ ilk \in [Inodes -> Procs \cup {None}]
    BY DEF Init
  <2>7. /\ pc \in [Procs -> {"user", "fileclose", "drop", "exit"} \cup InOpen \cup InPipe \cup InIO]
        /\ ret \in [Procs -> {"user", "openfail", "exit"}]
    BY DEF Init
  <2>8. DOMAIN file = Files /\ DOMAIN ff = Procs /\ DOMAIN io = Procs
    BY DEF Init
  <2> QED  BY <2>2, <2>3, <2>4, <2>5, <2>6, <2>7, <2>8 DEF TypeOK
<1>2. Places
  <2>1. Len(<<>>) = 0
    OBVIOUS
  <2> QED  BY <2>1 DEF Init, Places, Place, InOpen, InPipe
<1>3. Cardinality({}) = 0
  BY FS_EmptySet
<1>4. RefsExact
  <2>1. ASSUME NEW f \in Files PROVE Held(f) = {} /\ Owned(f) = {}
    <3>1. f # None /\ Len(<<>>) = 0
      BY NoneAssumption DEF Files
    <3> QED  BY <3>1 DEF Init, Held, Owned
  <2>2. \A f \in Files : file[f].ref = 0
    BY DEF Init
  <2> QED  BY <1>3, <2>1, <2>2 DEF RefsExact
<1>5. Filled
  <2>1. \A p \in Procs : pc[p] = "user" /\ \A d \in Fds : ofile[p][d] = None
    BY DEF Init
  <2>2. \A f \in Files : file[f].type = "NONE"
    BY DEF Init
  <2> QED  BY <2>1, <2>2 DEF Filled, FilledBy, Filling
<1>6. \A f \in Files : file[f].ref = 0
  BY DEF Init
<1>7. \A p \in Procs : hip[p] = None /\ ff[p].type = "NONE"
  BY DEF Init, NoFF
<1>8. InodeRefsExact
  <2>1. ASSUME NEW ip \in Inodes
        PROVE  /\ {f \in Files : Open(f, "INODE", ip)} = {} /\ {p \in Procs : hip[p] = ip} = {}
               /\ {p \in Procs : Dropping(p, "INODE", ip)} = {} /\ iref[ip] = 0
    <3>1. ip # None /\ iref[ip] = 0
      BY NoneAssumption DEF Init
    <3> QED  BY <1>6, <1>7, <3>1 DEF Open, Dropping
  <2> QED  BY <1>3, <2>1 DEF InodeRefsExact
<1>9. PipeEndsExact
  <2>1. ASSUME NEW q \in Pipes, NEW w \in BOOLEAN
        PROVE  /\ {f \in Files : Open(f, "PIPE", q) /\ file[f].writable = w} = {}
               /\ {p \in Procs : Dropping(p, "PIPE", q) /\ ff[p].writable = w} = {}
               /\ End(w) \notin pipe[q]
    <3>1. pipe[q] = {}
      BY DEF Init
    <3> QED  BY <1>6, <1>7, <3>1 DEF Open, Dropping
  <2>2. ASSUME NEW q \in Pipes, NEW w \in BOOLEAN
        PROVE  (IF End(w) \in pipe[q] THEN 1 ELSE 0)
                 = Cardinality({f \in Files : Open(f, "PIPE", q) /\ file[f].writable = w})
                   + Cardinality({p \in Procs : Dropping(p, "PIPE", q) /\ ff[p].writable = w})
    <3>1. /\ Cardinality({f \in Files : Open(f, "PIPE", q) /\ file[f].writable = w}) = 0
          /\ Cardinality({p \in Procs : Dropping(p, "PIPE", q) /\ ff[p].writable = w}) = 0
      BY <1>3, <2>1, Zenon
    <3> QED  BY <2>1, <3>1
  <2> QED  BY <2>2 DEF PipeEndsExact
<1> QED  BY <1>1, <1>2, <1>4, <1>5, <1>8, <1>9 DEF Counts

(* Every step keeps the counts. *)
LEMMA NextCounts ==
  ASSUME Counts, [Next]_vars
  PROVE  Counts'
<1>1. CASE UNCHANGED vars
  <2>1. UNCHANGED <<file, ofile, live, iref, ilk, pipe, pc, ret, own, ff, hip, io>>
    BY <1>1 DEF vars, table, inodes, call
  <2>2. TypeOK' /\ Places'
    BY <2>1 DEF Counts, TypeOK, Places, Place
  <2>3. Filled'
    <3>1. ASSUME NEW p \in Procs PROVE FilledBy(p)'
      BY <2>1, StillFilled
    <3> QED  BY <2>1, <3>1 DEF Counts, Filled
  <2>4. RefsExact' /\ InodeRefsExact' /\ PipeEndsExact'
    BY <2>1, SameRefs, SameInodes, SamePipes DEF Counts, Open
  <2> QED  BY <2>2, <2>3, <2>4 DEF Counts
<1>2. ASSUME NEW p \in Procs, Begin(p)
      PROVE  Counts'
  BY <1>2, OpenLookupKeeps, PipeFile0Keeps, ExitKeeps, ForkKeeps, DupKeeps, CloseKeeps, ReadWriteKeeps
     DEF Begin
<1>3. ASSUME NEW p \in Procs, Step(p)
      PROVE  Counts'
  BY <1>3, FileCloseKeeps, DropKeeps, ClosedKeeps, OpenLockKeeps, OpenAllocKeeps, OpenFdKeeps,
     OpenFailKeeps, OpenInitKeeps, PipeFile1Keeps, PipeKallocKeeps, PipeFdKeeps, ExitCloseKeeps,
     ReadWriteKeeps DEF Step
<1> QED  BY <1>1, <1>2, <1>3 DEF Next

(* What a process in user mode has in its descriptors. *)
LEMMA CountsUsable ==
  ASSUME Counts
  PROVE  DescriptorsUsable
<1>1. ASSUME NEW p \in live, pc[p] = "user", NEW d \in Fds \ FreeFds(p)
      PROVE  file[ofile[p][d]].ref > 0 /\ file[ofile[p][d]].type # "NONE"
  <2>1. p \in Procs /\ d \in Fds /\ ofile[p][d] # None
    BY <1>1 DEF Counts, TypeOK, FreeFds
  <2>2. ofile[p][d] \in Files /\ file[ofile[p][d]].type # "NONE"
    BY <1>1, <2>1, DescriptorsFilled
  <2>3. Refers(p, ofile[p][d])
    BY <2>1 DEF Refers
  <2>4. file[ofile[p][d]].ref >= 1 /\ file[ofile[p][d]].ref \in Nat
    BY <2>1, <2>2, <2>3, Counted DEF Counts, TypeOK
  <2> QED  BY <2>2, <2>4
<1> QED  BY <1>1 DEF DescriptorsUsable

-----------------------------------------------------------------------------
(* The offset: what OffsetShared rests on. *)
(* The smaller and the larger of two numbers. *)
LEMMA MinTwo ==
  ASSUME NEW a \in Int, NEW b \in Int
  PROVE  Min({a, b}) \in {a, b} /\ Min({a, b}) <= a /\ Min({a, b}) <= b
<1>1. \E x \in {a, b} : \A y \in {a, b} : x <= y
  <2>1. CASE a <= b
    BY <2>1
  <2>2. CASE b <= a
    BY <2>2
  <2> QED  BY <2>1, <2>2
<1>2. Min({a, b}) \in {a, b} /\ \A y \in {a, b} : Min({a, b}) <= y
  BY <1>1, Zenon DEF Min
<1> QED  BY <1>2

LEMMA MaxTwo ==
  ASSUME NEW a \in Int, NEW b \in Int
  PROVE  Max({a, b}) \in {a, b} /\ Max({a, b}) >= a /\ Max({a, b}) >= b
<1>1. \E x \in {a, b} : \A y \in {a, b} : x >= y
  <2>1. CASE a >= b
    BY <2>1
  <2>2. CASE b >= a
    BY <2>2
  <2> QED  BY <2>1, <2>2
<1>2. Max({a, b}) \in {a, b} /\ \A y \in {a, b} : Max({a, b}) >= y
  BY <1>1, Zenon DEF Max
<1> QED  BY <1>2

OnInode == {"readlock", "writelock", "readdone", "writedone"}

(* A file that a process transfers is its own as long as the call runs. *)
LEMMA TransferFile ==
  ASSUME Counts, Offsets, NEW p \in Procs, pc[p] \in OnInode
  PROVE  /\ io[p].f \in Files /\ Refers(p, io[p].f) /\ file[io[p].f].type = "INODE"
         /\ file[io[p].f].off \in Nat /\ file[io[p].f].obj \in Inodes
         /\ io[p].n \in Nat /\ io[p].i \in Nat
         /\ DOMAIN file[io[p].f] = Fields /\ DOMAIN io[p] = {"f", "n", "i", "r"}
         /\ hip[p] = None
<1>1. Transfer(p) /\ Place(p)
  BY Alive DEF Offsets
<1>2. /\ io[p].f \in Files /\ \E d \in Fds : ofile[p][d] = io[p].f
      /\ file[io[p].f].type = "INODE" /\ io[p].n \in Nat /\ io[p].i \in Nat
  BY <1>1 DEF Transfer, OnInode, Moving
<1>3. OffsetOK(io[p].f)
  BY <1>2 DEF Offsets
<1>4. hip[p] = None
  BY <1>1 DEF Place, InOpen, OnInode
<1> QED  BY <1>2, <1>3, <1>4 DEF OffsetOK, Refers, Counts, TypeOK

(* The files whose offset a step of p does not concern keep it or are new. *)
Steady(f) == /\ file[f].type = "INODE" /\ file'[f].off = file[f].off /\ file'[f].obj = file[f].obj
             /\ got'[f] = got[f] /\ put'[f] = put[f]
Fresh(p, f) == /\ file'[f].off = 0 /\ file'[f].obj \in Inodes /\ got'[f] = {} /\ put'[f] = {}
               /\ \A q \in Procs : q # p => ~Refers(q, f)

OthersStay(p) == \A q \in Procs : q # p => /\ pc'[q] = pc[q] /\ io'[q] = io[q]
                                           /\ hip'[q] = hip[q] /\ ofile'[q] = ofile[q]

LEMMA CalmOffsets ==
  ASSUME Counts, Offsets, NEW p \in Procs, OthersStay(p), UNCHANGED size,
         DOMAIN got' = Files, DOMAIN put' = Files,
         ~Moving(p), ~Moving(p)',
         \A ip \in Inodes : ilk[ip] # p /\ ilk[ip] # None => ilk'[ip] = ilk[ip],
         \A f \in Files : file'[f].type = "INODE" => Steady(f) \/ Fresh(p, f),
         \A f \in Files, q \in Procs :
           q # p /\ Refers(q, f) /\ file[f].type = "INODE" => file'[f].type = "INODE",
         Transfer(p)'
  PROVE  Offsets'
<1>1. ASSUME NEW q \in Procs, q # p PROVE Moving(q)' <=> Moving(q)
  BY <1>1 DEF OthersStay, Moving
<1>2. ASSUME NEW f \in Files, NEW k, Steady(f)
      PROVE  Spread(f, k)' <=> Spread(f, k)
  BY <1>2 DEF Spread, Steady
<1>3. ASSUME NEW f \in Files PROVE OffsetOK(f)'
  <2> SUFFICES ASSUME file'[f].type = "INODE"
               PROVE  /\ file'[f].off \in Nat /\ file'[f].obj \in Inodes
                      /\ Quiet(f)' => Spread(f, 0)'
    BY DEF OffsetOK
  <2>1. CASE Steady(f)
    <3>1. OffsetOK(f) /\ file[f].type = "INODE"
      BY <2>1 DEF Offsets, Steady
    <3>2. Quiet(f)' => Quiet(f)
      BY <1>1 DEF Quiet, OthersStay
    <3> QED  BY <1>2, <2>1, <3>1, <3>2 DEF OffsetOK, Steady
  <2>2. CASE Fresh(p, f)
    <3>1. /\ file'[f].off = 0 /\ file'[f].obj \in Inodes /\ size'[file'[f].obj] >= 0
          /\ got'[f] \cup put'[f] = {} /\ 0..(0 + 0 - 1) = {}
      BY <2>2, FileAssumption DEF Fresh, Offsets
    <3>2. Spread(f, 0)'
      BY <3>1 DEF Spread
    <3> QED  BY <3>1, <3>2
  <2> QED  BY <2>1, <2>2
<1>4. ASSUME NEW q \in Procs PROVE Transfer(q)'
  <2>1. CASE q = p
    BY <2>1
  <2>2. CASE q # p
    <3>1. pc'[q] = pc[q] /\ io'[q] = io[q] /\ hip'[q] = hip[q] /\ ofile'[q] = ofile[q] /\ Transfer(q)
      BY <2>2 DEF OthersStay, Offsets
    <3>2. hip[q] \in Inodes \cup {None} /\ q # None
      BY NoneAssumption DEF Counts, TypeOK
    <3>3. hip[q] # None /\ pc[q] \notin {"openlock", "openinit"} => ilk'[hip[q]] = q
      BY <2>2, <3>1, <3>2 DEF Transfer
    <3>4. CASE pc[q] \notin OnInode
      BY <3>1, <3>3, <3>4 DEF Transfer, OnInode, Moving
    <3>5. CASE pc[q] \in OnInode
      <4>1. PICK f \in Files : /\ f = io[q].f /\ Refers(q, f) /\ file[f].type = "INODE" /\ file[f].obj \in Inodes
        BY <3>5, TransferFile
      <4>2. f \in Files /\ file'[f].type = "INODE" /\ ~Fresh(p, f)
        BY <2>2, <4>1 DEF Fresh
      <4>3. Steady(f)
        BY <4>2
      <4>4. Moving(q) => Spread(f, Moved(q))' /\ ilk'[file'[f].obj] = q
        <5>1. Moved(q)' = Moved(q)
          BY <3>1 DEF Moved
        <5>2. Moving(q) => Spread(f, Moved(q)) /\ ilk[file[f].obj] = q
          BY <3>1, <4>1 DEF Transfer
        <5>3. Moving(q) => ilk'[file'[f].obj] = q
          BY <2>2, <3>2, <4>1, <4>3, <5>2 DEF Steady
        <5>4. Spread(f, Moved(q))' <=> Spread(f, Moved(q))
          BY <4>3, <5>1 DEF Spread, Steady
        <5> QED  BY <5>2, <5>3, <5>4
      <4>5. /\ io'[q].f = f /\ file'[io'[q].f].type = "INODE"
            /\ (Moving(q)' <=> Moving(q)) /\ Spread(f, Moved(q))' = Spread(io[q].f, Moved(q))'
        BY <1>1, <2>2, <3>1, <4>1, <4>2
      <4> QED  BY <3>1, <3>3, <4>1, <4>4, <4>5 DEF Transfer
    <3> QED  BY <3>4, <3>5
  <2> QED  BY <2>1, <2>2
<1>5. size' \in [Inodes -> 0..MaxSize]
  BY DEF Offsets
<1> QED  BY <1>3, <1>4, <1>5 DEF Offsets

(* A step of a transfer by p, in the lock of the inode ip of the file g. *)
LEMMA MovingOffsets ==
  ASSUME Counts, Offsets, NEW p \in Procs, NEW g \in Files, NEW ip \in Inodes,
         pc[p] \in OnInode, g = io[p].f, ip = file[g].obj,
         OthersStay(p), ilk[ip] \in {None, p},
         \A jp \in Inodes : jp # ip => ilk'[jp] = ilk[jp],
         size' \in [Inodes -> 0..MaxSize], \A jp \in Inodes : size'[jp] >= size[jp],
         DOMAIN got' = Files, DOMAIN put' = Files,
         \A f \in Files : f # g => file'[f] = file[f] /\ got'[f] = got[f] /\ put'[f] = put[f],
         file'[g].type = "INODE", file'[g].obj = ip, file'[g].off \in Nat,
         ~Moving(p)' => Spread(g, 0)',
         Moving(p)' => io'[p].f = g,
         Transfer(p)'
  PROVE  Offsets'
<1>0. \A jp \in Inodes : size[jp] \in Int /\ size'[jp] \in Int
  BY DEF Offsets
<1>1. ASSUME NEW q \in Procs, q # p
      PROVE  /\ pc'[q] = pc[q] /\ io'[q] = io[q] /\ hip'[q] = hip[q] /\ ofile'[q] = ofile[q]
             /\ Transfer(q) /\ (Moving(q)' <=> Moving(q)) /\ q # None
  BY <1>1, NoneAssumption DEF OthersStay, Moving, Offsets
<1>2. ASSUME NEW q \in Procs, q # p, Moving(q)
      PROVE  io[q].f # g
  <2>1. Transfer(q) /\ q # None
    BY <1>1, <1>2
  <2>2. ilk[file[io[q].f].obj] = q
    BY <1>2, <2>1 DEF Transfer
  <2> QED  BY <1>2, <2>1, <2>2
<1>3. ASSUME NEW f \in Files, f # g, file[f].type = "INODE", NEW k \in Nat
      PROVE  Spread(f, k) => Spread(f, k)'
  <2>1. /\ file'[f] = file[f] /\ got'[f] = got[f] /\ put'[f] = put[f]
        /\ file[f].off \in Nat /\ file[f].obj \in Inodes
    BY <1>3 DEF Offsets, OffsetOK
  <2>2. size'[file[f].obj] >= size[file[f].obj] /\ size[file[f].obj] \in Int /\ size'[file[f].obj] \in Int
    BY <1>0, <2>1
  <2>3. file[f].off + k <= size[file[f].obj] => file[f].off + k <= size'[file[f].obj]
    BY <1>3, <2>1, <2>2
  <2> QED  BY <2>1, <2>3 DEF Spread
<1>4. ASSUME NEW f \in Files PROVE OffsetOK(f)'
  <2>1. CASE f = g
    <3>1. Quiet(g)' => ~Moving(p)'
      BY DEF Quiet
    <3> QED  BY <2>1, <3>1 DEF OffsetOK
  <2>2. CASE f # g
    <3>1. file'[f] = file[f] /\ OffsetOK(f)
      BY <2>2 DEF Offsets
    <3>2. Quiet(f)' => Quiet(f)
      BY <1>1, <2>2 DEF Quiet
    <3>3. file[f].type = "INODE" /\ Spread(f, 0) => Spread(f, 0)'
      BY <1>3, <2>2
    <3> QED  BY <3>1, <3>2, <3>3 DEF OffsetOK
  <2> QED  BY <2>1, <2>2
<1>5. ASSUME NEW q \in Procs PROVE Transfer(q)'
  <2>1. CASE q = p
    BY <2>1
  <2>2. CASE q # p
    <3>1. /\ pc'[q] = pc[q] /\ io'[q] = io[q] /\ hip'[q] = hip[q] /\ ofile'[q] = ofile[q]
          /\ Transfer(q) /\ (Moving(q)' <=> Moving(q)) /\ q # None
      BY <1>1, <2>2
    <3>2. hip[q] \in Inodes \cup {None}
      BY DEF Counts, TypeOK
    <3>3. hip[q] # None /\ pc[q] \notin {"openlock", "openinit"} => ilk'[hip[q]] = q
      BY <2>2, <3>1, <3>2 DEF Transfer
    <3>4. CASE pc[q] \notin OnInode
      BY <3>1, <3>3, <3>4 DEF Transfer, OnInode, Moving
    <3>5. CASE pc[q] \in OnInode
      <4>1. PICK f \in Files : f = io[q].f /\ file[f].type = "INODE" /\ file[f].obj \in Inodes
        BY <3>5, TransferFile
      <4>2. f \in Files /\ file'[f].type = "INODE"
        BY <4>1
      <4>3. Moving(q) => Spread(f, Moved(q))' /\ ilk'[file'[f].obj] = q
        <5> SUFFICES ASSUME Moving(q) PROVE Spread(f, Moved(q))' /\ ilk'[file'[f].obj] = q
          OBVIOUS
        <5>1. Moved(q)' = Moved(q) /\ f # g
          BY <1>2, <2>2, <3>1, <4>1 DEF Moved
        <5>2. Spread(f, Moved(q)) /\ ilk[file[f].obj] = q /\ io[q].r \in Int
          BY <3>1, <4>1 DEF Transfer
        <5>3. Moved(q) \in Nat
          BY <5>2 DEF Moved
        <5>4. PICK k \in Nat : k = Moved(q)
          BY <5>3
        <5>5. Spread(f, k)'
          BY <1>3, <4>1, <5>1, <5>2, <5>4
        <5>6. ilk'[file'[f].obj] = q
          BY <2>2, <3>1, <4>1, <5>1, <5>2
        <5> QED  BY <5>1, <5>4, <5>5, <5>6 DEF Spread
      <4>4. io'[q].f = f /\ file'[io'[q].f].type = "INODE"
        BY <3>1, <4>1, <4>2
      <4> QED  BY <3>1, <3>3, <4>1, <4>3, <4>4 DEF Transfer
    <3> QED  BY <3>4, <3>5
  <2> QED  BY <2>1, <2>2
<1> QED  BY <1>4, <1>5 DEF Offsets

LEMMA LockedQuiet ==
  ASSUME Counts, Offsets, NEW p \in Procs, pc[p] \in {"readlock", "writelock"},
         ilk[file[io[p].f].obj] = None
  PROVE  Spread(io[p].f, 0)
<1>1. io[p].f \in Files /\ file[io[p].f].type = "INODE"
  BY TransferFile DEF OnInode
<1>2. ASSUME NEW q \in Procs, io[q].f = io[p].f PROVE ~Moving(q)
  <2>1. Transfer(q) /\ q # None
    BY NoneAssumption DEF Offsets
  <2> QED  BY <1>2, <2>1 DEF Transfer
<1>3. Quiet(io[p].f)
  BY <1>2 DEF Quiet
<1> QED  BY <1>1, <1>3 DEF Offsets, OffsetOK

LEMMA Extended ==
  ASSUME NEW o \in Nat, NEW k \in Nat
  PROVE  0..(o + 0 - 1) \cup o..(o + k - 1) = 0..(o + k - 1)
OBVIOUS

LEMMA ReadIOffsets ==
  ASSUME Counts, Offsets, NEW p \in Procs, ReadI(p)
  PROVE  Offsets'
<1>1. pc[p] = "readlock" /\ TypeOK
  BY DEF ReadI, Counts
<1>2. PICK g \in Files, ip \in Inodes :
        /\ g = io[p].f /\ ip = file[g].obj /\ file[g].type = "INODE" /\ file[g].off \in Nat
        /\ io[p].n \in Nat /\ io[p].i \in Nat /\ DOMAIN io[p] = {"f", "n", "i", "r"} /\ hip[p] = None
        /\ \E d \in Fds : ofile[p][d] = g
  <2>1. \E d \in Fds : ofile[p][d] = io[p].f
    BY <1>1 DEF Offsets, Transfer
  <2> QED  BY <1>1, <2>1, TransferFile DEF OnInode
<1>g. g \in Files /\ ip \in Inodes
  BY <1>2
<1>3. ilk[ip] = None
  BY <1>2 DEF ReadI, ilock
<1>4. Spread(g, 0)
  BY <1>1, <1>2, <1>3, LockedQuiet
<1>5. size[ip] \in 0..MaxSize /\ size[ip] \in Int /\ file[g].off <= size[ip] /\ got[g] \cup put[g] = 0..(file[g].off + 0 - 1)
  BY <1>2, <1>4, <1>g, FileAssumption DEF Offsets, Spread
<1>6. PICK r \in Nat : r = Min({io[p].n, size[ip] - file[g].off}) /\ file[g].off + r <= size[ip]
  <2>1. io[p].n \in Int /\ size[ip] - file[g].off \in Int /\ file[g].off \in Int
    BY <1>2, <1>5
  <2>2. /\ Min({io[p].n, size[ip] - file[g].off}) \in {io[p].n, size[ip] - file[g].off}
        /\ Min({io[p].n, size[ip] - file[g].off}) <= size[ip] - file[g].off
    BY <2>1, MinTwo
  <2>3. PICK r : r = Min({io[p].n, size[ip] - file[g].off})
    OBVIOUS
  <2>4. r \in Nat /\ file[g].off + r <= size[ip]
    BY <1>2, <1>5, <2>1, <2>2, <2>3
  <2> QED  BY <2>3, <2>4
<1>7. /\ ilk' = [ilk EXCEPT ![ip] = p] /\ io' = [io EXCEPT ![p].r = r]
      /\ got' = [got EXCEPT ![g] = @ \cup Span(g, r)] /\ pc' = [pc EXCEPT ![p] = "readdone"]
      /\ UNCHANGED <<file, ofile, size, hip, put>>
  BY <1>2, <1>6 DEF ReadI, Goto, table
<1>8. /\ pc'[p] = "readdone" /\ io'[p].f = g /\ io'[p].n = io[p].n /\ io'[p].i = io[p].i /\ io'[p].r = r
      /\ OthersStay(p)
      /\ ilk'[ip] = p /\ \A jp \in Inodes : jp # ip => ilk'[jp] = ilk[jp]
  BY <1>1, <1>2, <1>7, <1>g DEF TypeOK, OthersStay
<1>9. /\ DOMAIN got' = Files /\ DOMAIN put' = Files
      /\ got'[g] = got[g] \cup Span(g, r) /\ \A f \in Files : f # g => got'[f] = got[f]
  BY SMTT(30), <1>7, <1>g DEF Offsets
<1>10. Spread(g, r)'
  <2>1. got'[g] \cup put'[g] = (got[g] \cup put[g]) \cup Span(g, r)
    BY SMTT(30), <1>7, <1>9
  <2>2. 0..(file[g].off + 0 - 1) \cup Span(g, r) = 0..(file[g].off + r - 1)
    BY <1>2, <1>6, Extended DEF Span
  <2>3. got'[g] \cup put'[g] = 0..(file[g].off + r - 1)
    BY <1>5, <2>1, <2>2
  <2> QED  BY <1>2, <1>6, <1>7, <2>3 DEF Spread
<1>11. Moving(p)' /\ Moved(p)' = r
  BY <1>6, <1>8 DEF Moving, Moved
<1>12. Transfer(p)'
  <2>1. Spread(io[p].f, Moved(p))'
    BY <1>8, <1>10, <1>11 DEF Spread
  <2>2. ilk'[file'[io'[p].f].obj] = p /\ file'[io'[p].f].type = "INODE" /\ io'[p].f \in Files
    BY <1>2, <1>7, <1>8, <1>g
  <2>5. UNCHANGED <<hip, ofile>>
    BY <1>7
  <2>3. hip'[p] = None /\ (\E d \in Fds : ofile'[p][d] = io'[p].f) /\ io'[p].r \in Int
    BY <1>2, <1>6, <1>8, <2>5
  <2>4. io'[p].n \in Nat /\ io'[p].i \in Nat /\ pc'[p] = "readdone"
    BY <1>2, <1>8
  <2> QED  BY <2>1, <2>2, <2>3, <2>4 DEF Transfer, Moving
<1>13. /\ size' \in [Inodes -> 0..MaxSize] /\ \A jp \in Inodes : size'[jp] >= size[jp]
  BY <1>7 DEF Offsets
<1> QED  BY <1>1, <1>2, <1>3, <1>7, <1>8, <1>9, <1>11, <1>12, <1>13, <1>g, MovingOffsets DEF OnInode

LEMMA WriteIOffsets ==
  ASSUME Counts, Offsets, NEW p \in Procs, WriteI(p)
  PROVE  Offsets'
<1>1. pc[p] = "writelock" /\ TypeOK
  BY DEF WriteI, Counts
<1>2. PICK g \in Files, ip \in Inodes :
        /\ g = io[p].f /\ ip = file[g].obj /\ file[g].type = "INODE" /\ file[g].off \in Nat
        /\ io[p].n \in Nat /\ io[p].i \in Nat /\ DOMAIN io[p] = {"f", "n", "i", "r"} /\ hip[p] = None
        /\ (\E d \in Fds : ofile[p][d] = g) /\ io[p].i < io[p].n
  <2>1. (\E d \in Fds : ofile[p][d] = io[p].f) /\ io[p].i < io[p].n
    BY <1>1 DEF Offsets, Transfer
  <2> QED  BY <1>1, <2>1, TransferFile DEF OnInode
<1>g. g \in Files /\ ip \in Inodes
  BY <1>2
<1>3. ilk[ip] = None
  BY <1>2 DEF WriteI, ilock
<1>4. Spread(g, 0)
  BY <1>1, <1>2, <1>3, LockedQuiet
<1>5. size[ip] \in 0..MaxSize /\ size[ip] \in Int /\ file[g].off <= size[ip] /\ got[g] \cup put[g] = 0..(file[g].off + 0 - 1)
  BY <1>2, <1>4, <1>g, FileAssumption DEF Offsets, Spread
<1>6. PICK k \in Nat : k = Min({io[p].n - io[p].i, Chunk}) /\ k > 0
  <2>1. io[p].n - io[p].i \in Int /\ Chunk \in Int /\ io[p].n - io[p].i > 0 /\ Chunk > 0
    BY <1>2, FileAssumption
  <2>2. Min({io[p].n - io[p].i, Chunk}) \in {io[p].n - io[p].i, Chunk}
    BY <2>1, MinTwo
  <2>3. PICK k : k = Min({io[p].n - io[p].i, Chunk})
    OBVIOUS
  <2>4. k \in Nat /\ k > 0
    BY <2>1, <2>2, <2>3
  <2> QED  BY <2>3, <2>4
<1>7. /\ ilk' = [ilk EXCEPT ![ip] = p] /\ pc' = [pc EXCEPT ![p] = "writedone"]
      /\ UNCHANGED <<file, ofile, hip, got>>
  BY <1>2 DEF WriteI, Goto, table
<1>8. \/ /\ file[g].off + k <= MaxSize
         /\ size' = [size EXCEPT ![ip] = Max({@, file[g].off + k})]
         /\ io' = [io EXCEPT ![p].r = k]
         /\ put' = [put EXCEPT ![g] = @ \cup Span(g, k)]
      \/ /\ io' = [io EXCEPT ![p].r = -1]
         /\ UNCHANGED <<size, put>>
  BY <1>2, <1>6 DEF WriteI
<1>9. PICK r \in Int : io' = [io EXCEPT ![p].r = r] /\ (r = k \/ r = -1)
  <2>1. k \in Int /\ -1 \in Int
    BY <1>6
  <2> QED  BY <1>8, <2>1
<1>10. /\ pc'[p] = "writedone" /\ io'[p].f = g /\ io'[p].n = io[p].n /\ io'[p].i = io[p].i /\ io'[p].r = r
       /\ OthersStay(p)
       /\ ilk'[ip] = p /\ \A jp \in Inodes : jp # ip => ilk'[jp] = ilk[jp]
  BY <1>1, <1>2, <1>7, <1>9, <1>g DEF TypeOK, OthersStay
<1>11. CASE /\ file[g].off + k <= MaxSize
            /\ size' = [size EXCEPT ![ip] = Max({@, file[g].off + k})]
            /\ io' = [io EXCEPT ![p].r = k]
            /\ put' = [put EXCEPT ![g] = @ \cup Span(g, k)]
  <2>1. /\ DOMAIN got' = Files /\ DOMAIN put' = Files
        /\ put'[g] = put[g] \cup Span(g, k) /\ \A f \in Files : f # g => put'[f] = put[f]
    BY <1>7, <1>11, <1>g DEF Offsets
  <2>2. PICK m \in 0..MaxSize : m = Max({size[ip], file[g].off + k}) /\ m >= size[ip] /\ m >= file[g].off + k
    <3>1. size[ip] \in Int /\ file[g].off + k \in Int /\ MaxSize \in Nat
      BY <1>2, <1>5, <1>6, FileAssumption
    <3>2. /\ Max({size[ip], file[g].off + k}) \in {size[ip], file[g].off + k}
          /\ Max({size[ip], file[g].off + k}) >= size[ip] /\ Max({size[ip], file[g].off + k}) >= file[g].off + k
      BY <3>1, MaxTwo
    <3>3. PICK m : m = Max({size[ip], file[g].off + k})
      OBVIOUS
    <3>5. m \in {size[ip], file[g].off + k} /\ m >= size[ip] /\ m >= file[g].off + k
      BY <3>2, <3>3
    <3>4. m \in 0..MaxSize /\ m >= size[ip] /\ m >= file[g].off + k
      <4>1. file[g].off + k \in 0..MaxSize
        BY <1>2, <1>6, <1>11, <3>1
      <4> QED  BY <1>5, <3>5, <4>1
    <3> QED  BY <3>3, <3>4
  <2>3. size' = [size EXCEPT ![ip] = m] /\ size \in [Inodes -> 0..MaxSize]
    BY <1>11, <2>2 DEF Offsets
  <2>4. /\ size' \in [Inodes -> 0..MaxSize] /\ size'[ip] = m
        /\ \A jp \in Inodes : jp # ip => size'[jp] = size[jp]
    BY <2>2, <2>3
  <2>5. \A jp \in Inodes : size'[jp] >= size[jp]
    <3>1. \A jp \in Inodes : size[jp] \in Int
      BY SMTT(30), <2>3, FileAssumption
    <3> QED  BY <2>2, <2>4, <3>1
  <2>6. Spread(g, k)'
    <3>1. got'[g] \cup put'[g] = (got[g] \cup put[g]) \cup Span(g, k)
      BY <1>7, <2>1
    <3>2. got'[g] \cup put'[g] = 0..(file[g].off + k - 1)
      BY <1>2, <1>5, <1>6, <3>1, Extended DEF Span
    <3> QED  BY <1>2, <1>7, <2>2, <2>4, <3>2 DEF Spread
  <2>7. io'[p].r = k
    BY <1>1, <1>2, <1>11 DEF TypeOK
  <2>8. Moving(p)' /\ Moved(p)' = k
    BY <1>6, <1>10, <2>7 DEF Moving, Moved
  <2>9. Spread(io[p].f, Moved(p))'
    BY <1>10, <2>6, <2>8 DEF Spread
  <2>10. Transfer(p)'
    BY <1>2, <1>6, <1>7, <1>10, <2>7, <2>9 DEF Transfer, Moving
  <2> QED  BY <1>1, <1>2, <1>3, <1>7, <1>10, <1>g, <2>1, <2>4, <2>5, <2>8, <2>10, MovingOffsets DEF OnInode
<1>12. CASE io' = [io EXCEPT ![p].r = -1] /\ UNCHANGED <<size, put>>
  <2>1. io'[p].r = -1
    BY <1>1, <1>2, <1>12 DEF TypeOK
  <2>2. Moving(p)' /\ Moved(p)' = 0
    BY <1>10, <2>1 DEF Moving, Moved
  <2>3. Spread(io[p].f, Moved(p))'
    BY <1>4, <1>7, <1>10, <1>12, <2>2 DEF Spread
  <2>4. Transfer(p)'
    BY <1>2, <1>7, <1>10, <2>1, <2>3 DEF Transfer, Moving
  <2>5. /\ size' \in [Inodes -> 0..MaxSize] /\ DOMAIN got' = Files /\ DOMAIN put' = Files
        /\ \A jp \in Inodes : size'[jp] >= size[jp]
    BY <1>7, <1>12 DEF Offsets
  <2> QED  BY <1>1, <1>2, <1>3, <1>7, <1>10, <1>12, <1>g, <2>2, <2>4, <2>5, MovingOffsets DEF OnInode
<1> QED  BY <1>8, <1>11, <1>12

LEMMA SameOffsets ==
  ASSUME Offsets, UNCHANGED <<file, ofile, ilk, size, pc, hip, io, got, put>>
  PROVE  Offsets'
<1>1. ASSUME NEW f \in Files PROVE OffsetOK(f)'
  BY DEF Offsets, OffsetOK, Quiet, Moving, Spread
<1>2. ASSUME NEW p \in Procs PROVE Transfer(p)'
  BY DEF Offsets, Transfer, Moving, Moved, Spread
<1> QED  BY <1>1, <1>2 DEF Offsets

(* The transfer that p has made, before it advances the offset. *)
LEMMA MovingFile ==
  ASSUME Counts, Offsets, NEW p \in Procs, Moving(p)
  PROVE  \E g \in Files, ip \in Inodes :
           /\ g = io[p].f /\ ip = file[g].obj /\ file[g].type = "INODE" /\ file[g].off \in Nat
           /\ io[p].n \in Nat /\ io[p].i \in Nat /\ io[p].r \in Int /\ hip[p] = None
           /\ (\E d \in Fds : ofile[p][d] = g)
           /\ ilk[ip] = p /\ Spread(g, Moved(p)) /\ DOMAIN io[p] = {"f", "n", "i", "r"}
<1>1. /\ io[p].f \in Files /\ file[io[p].f].type = "INODE" /\ file[io[p].f].off \in Nat
      /\ file[io[p].f].obj \in Inodes /\ io[p].n \in Nat /\ io[p].i \in Nat /\ hip[p] = None
      /\ DOMAIN io[p] = {"f", "n", "i", "r"}
  BY TransferFile DEF Moving, OnInode
<1>2. /\ \E d \in Fds : ofile[p][d] = io[p].f
      /\ ilk[file[io[p].f].obj] = p /\ io[p].r \in Int /\ Spread(io[p].f, Moved(p))
  BY DEF Offsets, Transfer
<1> QED  BY <1>1, <1>2

LEMMA ReadDoneOffsets ==
  ASSUME Counts, Offsets, NEW p \in Procs, ReadDone(p)
  PROVE  Offsets'
<1>1. pc[p] = "readdone" /\ Moving(p) /\ TypeOK /\ UNCHANGED <<ofile, size, hip, got, put>>
  BY DEF ReadDone, Counts, Moving, history
<1>2. PICK g \in Files, ip \in Inodes :
        /\ g = io[p].f /\ ip = file[g].obj /\ file[g].type = "INODE" /\ file[g].off \in Nat
        /\ io[p].n \in Nat /\ io[p].i \in Nat /\ io[p].r \in Int /\ hip[p] = None
        /\ (\E d \in Fds : ofile[p][d] = g)
        /\ ilk[ip] = p /\ Spread(g, Moved(p)) /\ DOMAIN io[p] = {"f", "n", "i", "r"}
  BY <1>1, MovingFile
<1>g. g \in Files /\ ip \in Inodes
  BY <1>2
<1>3. CASE UNCHANGED <<file, ilk, io, pc>>
  BY <1>1, <1>3, SameOffsets
<1>4. CASE /\ io[p].r > 0
           /\ file' = [file EXCEPT ![g].off = @ + io[p].r, ![g].read_bytes = @ + io[p].n]
           /\ ilk' = [ilk EXCEPT ![ip] = None]
           /\ io' = [io EXCEPT ![p] = NoIO]
           /\ pc' = [pc EXCEPT ![p] = "user"]
  <2>1. /\ file'[g].type = "INODE" /\ file'[g].obj = ip /\ file'[g].off = file[g].off + io[p].r
        /\ \A f \in Files : f # g => file'[f] = file[f]
    BY <1>1, <1>2, <1>4, <1>g DEF TypeOK, Fields
  <2>2. /\ pc'[p] = "user" /\ OthersStay(p) /\ \A jp \in Inodes : jp # ip => ilk'[jp] = ilk[jp]
    BY <1>1, <1>4 DEF TypeOK, OthersStay
  <2>3. ~Moving(p)' /\ Transfer(p)'
    BY <1>1, <1>2, <2>2 DEF Moving, Transfer
  <2>4. Spread(g, 0)'
    <3>1. Moved(p) = io[p].r
      BY <1>4 DEF Moved
    <3>2. /\ got[g] \cup put[g] = 0..(file[g].off + io[p].r - 1)
          /\ file[g].off + io[p].r <= size[ip]
      BY <1>2, <3>1 DEF Spread
    <3>3. /\ file'[g].off + 0 = file[g].off + io[p].r
          /\ file'[g].off + 0 - 1 = file[g].off + io[p].r - 1
      BY <1>2, <2>1
    <3>4. got'[g] \cup put'[g] = got[g] \cup put[g] /\ size'[file'[g].obj] = size[ip]
      BY <1>1, <2>1
    <3>5. /\ got'[g] \cup put'[g] = 0..(file'[g].off + 0 - 1)
          /\ file'[g].off + 0 <= size'[file'[g].obj]
      BY <3>2, <3>3, <3>4
    <3> QED  BY <3>5 DEF Spread
  <2>5. file'[g].off \in Nat
    BY <1>2, <1>4, <2>1
  <2>6. /\ size' \in [Inodes -> 0..MaxSize] /\ DOMAIN got' = Files /\ DOMAIN put' = Files
        /\ \A jp \in Inodes : size'[jp] >= size[jp]
    BY <1>1 DEF Offsets
  <2> QED  BY <1>1, <1>2, <1>g, <2>1, <2>2, <2>3, <2>4, <2>5, <2>6, MovingOffsets DEF OnInode
<1> QED  BY <1>2, <1>3, <1>4 DEF ReadDone, Goto

LEMMA WriteDoneOffsets ==
  ASSUME Counts, Offsets, NEW p \in Procs, WriteDone(p)
  PROVE  Offsets'
<1>1. pc[p] = "writedone" /\ Moving(p) /\ TypeOK /\ UNCHANGED <<ofile, size, hip, got, put>>
  BY DEF WriteDone, Counts, Moving, history
<1>2. PICK g \in Files, ip \in Inodes :
        /\ g = io[p].f /\ ip = file[g].obj /\ file[g].type = "INODE" /\ file[g].off \in Nat
        /\ io[p].n \in Nat /\ io[p].i \in Nat /\ io[p].r \in Int /\ hip[p] = None
        /\ (\E d \in Fds : ofile[p][d] = g)
        /\ ilk[ip] = p /\ Spread(g, Moved(p)) /\ DOMAIN io[p] = {"f", "n", "i", "r"}
  BY <1>1, MovingFile
<1>g. g \in Files /\ ip \in Inodes
  BY <1>2
<1>3. ilk' = [ilk EXCEPT ![ip] = None]
  BY <1>2 DEF WriteDone, LockAfterTurn
<1>4. /\ size' \in [Inodes -> 0..MaxSize] /\ DOMAIN got' = Files /\ DOMAIN put' = Files
      /\ \A jp \in Inodes : size'[jp] >= size[jp]
      /\ \A jp \in Inodes : jp # ip => ilk'[jp] = ilk[jp]
  BY <1>1, <1>3 DEF Offsets, TypeOK
<1>5. CASE /\ io[p].r > 0
           /\ file' = [file EXCEPT ![g].off = @ + io[p].r]
           /\ io' = [io EXCEPT ![p].i = io[p].i + io[p].r]
           /\ pc' = [pc EXCEPT ![p] = IF io[p].i + io[p].r < io[p].n THEN "writelock" ELSE "writecount"]
  <2>1. /\ file'[g].type = "INODE" /\ file'[g].obj = ip /\ file'[g].off = file[g].off + io[p].r
        /\ \A f \in Files : f # g => file'[f] = file[f]
    BY <1>1, <1>2, <1>5, <1>g DEF TypeOK, Fields
  <2>2. /\ pc'[p] = "writecount" \/ (pc'[p] = "writelock" /\ io[p].i + io[p].r < io[p].n)
        /\ OthersStay(p)
        /\ io'[p].f = g /\ io'[p].n = io[p].n /\ io'[p].i = io[p].i + io[p].r
    BY <1>1, <1>2, <1>5 DEF TypeOK, OthersStay
  <2>3. ~Moving(p)'
    BY <2>2 DEF Moving
  <2>4. Spread(g, 0)'
    <3>1. Moved(p) = io[p].r
      BY <1>5 DEF Moved
    <3>2. /\ got[g] \cup put[g] = 0..(file[g].off + io[p].r - 1)
          /\ file[g].off + io[p].r <= size[ip]
      BY <1>2, <3>1 DEF Spread
    <3>3. /\ file'[g].off + 0 = file[g].off + io[p].r
          /\ file'[g].off + 0 - 1 = file[g].off + io[p].r - 1
      BY <1>2, <2>1
    <3>4. got'[g] \cup put'[g] = got[g] \cup put[g] /\ size'[file'[g].obj] = size[ip]
      BY <1>1, <2>1
    <3>5. /\ got'[g] \cup put'[g] = 0..(file'[g].off + 0 - 1)
          /\ file'[g].off + 0 <= size'[file'[g].obj]
      BY <3>2, <3>3, <3>4
    <3> QED  BY <3>5 DEF Spread
  <2>5. file'[g].off \in Nat /\ io'[p].i \in Nat /\ io'[p].n \in Nat
    BY <1>2, <1>5, <2>1, <2>2
  <2>6. Transfer(p)'
    <3>1. hip'[p] = None /\ \E d \in Fds : ofile'[p][d] = io'[p].f
      BY <1>1, <1>2, <2>2
    <3>2. file'[io'[p].f].type = "INODE" /\ io'[p].f \in Files
      BY <1>g, <2>1, <2>2
    <3>3. pc'[p] = "writelock" => io'[p].i < io'[p].n
      BY <2>2
    <3> QED  BY <2>3, <2>5, <3>1, <3>2, <3>3 DEF Transfer
  <2> QED  BY <1>1, <1>2, <1>4, <1>g, <2>1, <2>2, <2>3, <2>4, <2>5, <2>6, MovingOffsets DEF OnInode
<1>6. CASE /\ io[p].r < 0 /\ pc' = [pc EXCEPT ![p] = "writecount"] /\ UNCHANGED <<file, io>>
  <2>1. pc'[p] = "writecount" /\ OthersStay(p)
    BY <1>1, <1>6 DEF TypeOK, OthersStay
  <2>2. ~Moving(p)' /\ Transfer(p)'
    BY <1>1, <1>2, <2>1 DEF Moving, Transfer
  <2>3. Spread(g, 0)'
    <3>1. Moved(p) = 0
      BY <1>2, <1>6 DEF Moved
    <3> QED  BY <1>1, <1>2, <1>6, <3>1 DEF Spread
  <2> QED  BY <1>1, <1>2, <1>4, <1>6, <1>g, <2>1, <2>2, <2>3, MovingOffsets DEF OnInode
<1> QED  BY <1>2, <1>5, <1>6 DEF WriteDone, Goto

(* The steps of p that transfer nothing: p frees no file that others use.  *)
DataKept(p) ==
  /\ \A f \in Files : file'[f].type = "INODE" =>
       file[f].type = "INODE" /\ file'[f].off = file[f].off /\ file'[f].obj = file[f].obj
  /\ \A f \in Files, q \in Procs :
       q # p /\ Refers(q, f) /\ file[f].type = "INODE" => file'[f].type = "INODE"

LEMMA SameData ==
  ASSUME NEW p, \A f \in Files : /\ file'[f].type = file[f].type /\ file'[f].off = file[f].off
                                 /\ file'[f].obj = file[f].obj
  PROVE  DataKept(p)
BY DEF DataKept

LEMMA CalmStep ==
  ASSUME Counts, Offsets, NEW p \in Procs, NEW l, l \notin OnInode, ~Moving(p),
         pc' = [pc EXCEPT ![p] = l], UNCHANGED <<size, got, put>>,
         \A q \in Procs : q # p => io'[q] = io[q] /\ hip'[q] = hip[q] /\ ofile'[q] = ofile[q],
         DataKept(p),
         \A ip \in Inodes : ilk[ip] # p /\ ilk[ip] # None => ilk'[ip] = ilk[ip],
         \/ hip'[p] = None \/ l \in {"openlock", "openinit"} \/ ilk'[hip'[p]] = p
         \/ hip'[p] = hip[p] /\ ilk' = ilk /\ pc[p] \notin {"openlock", "openinit"}
  PROVE  Offsets'
<1>1. pc'[p] = l /\ \A q \in Procs : q # p => pc'[q] = pc[q]
  BY DEF Counts, TypeOK
<1>2. OthersStay(p)
  BY <1>1 DEF OthersStay
<1>3. ~Moving(p)' /\ pc'[p] \notin OnInode
  BY <1>1 DEF Moving, OnInode
<1>4. Transfer(p)'
  <2>1. Transfer(p)
    BY DEF Offsets
  <2>2. hip'[p] # None /\ pc'[p] \notin {"openlock", "openinit"} => ilk'[hip'[p]] = p
    BY <1>1, <2>1 DEF Transfer
  <2> QED  BY <1>3, <2>2 DEF Transfer, OnInode
<1>5. \A f \in Files : file'[f].type = "INODE" => Steady(f)
  BY DEF DataKept, Steady
<1>6. DOMAIN got' = Files /\ DOMAIN put' = Files
  BY DEF Offsets
<1> QED  BY <1>2, <1>3, <1>4, <1>5, <1>6, CalmOffsets DEF DataKept

LEMMA FileCloseOffsets ==
  ASSUME Counts, Offsets, NEW p \in Procs, FileClose(p)
  PROVE  Offsets'
<1>0. TypeOK /\ Places /\ RefsExact
  BY DEF Counts
<1>1. /\ pc[p] = "fileclose" /\ own[p] # <<>>
      /\ UNCHANGED <<ofile, ilk, size, hip, io, got, put>>
  BY DEF FileClose, inodes, history
<1>2. PICK g \in Files : g = Head(own[p]) /\ g = own[p][1] /\ Refers(p, g)
  <2>1. own[p] \in Seq(Files)
    BY <1>0 DEF TypeOK
  <2>2. Head(own[p]) = own[p][1] /\ own[p][1] \in Files /\ 1 \in 1..Len(own[p])
    BY <1>1, <2>1
  <2> QED  BY <2>2 DEF Refers
<1>g. g \in Files
  BY <1>2
<1>3. ~Moving(p)
  BY <1>1 DEF Moving
<1>4. CASE file[g].ref > 1
  <2>1. file' = [file EXCEPT ![g].ref = @ - 1] /\ UNCHANGED pc
    BY <1>2, <1>4 DEF FileClose
  <2>2. \A f \in Files : /\ file'[f].type = file[f].type /\ file'[f].off = file[f].off
                         /\ file'[f].obj = file[f].obj
    BY <1>0, <2>1 DEF TypeOK, Fields
  <2>3. DataKept(p)
    BY <2>2, SameData
  <2>4. pc' = [pc EXCEPT ![p] = "fileclose"]
    BY <1>0, <1>1, <2>1 DEF TypeOK
  <2> QED  BY <1>1, <1>3, <2>3, <2>4, CalmStep DEF OnInode
<1>5. CASE ~(file[g].ref > 1)
  <2>1. file' = [file EXCEPT ![g] = Freed(@)] /\ pc' = [pc EXCEPT ![p] = "drop"]
    BY <1>2, <1>5 DEF FileClose, Goto
  <2>2. file'[g].type = "NONE" /\ \A f \in Files : f # g => file'[f] = file[f]
    BY <1>0, <1>g, <2>1 DEF TypeOK, Fields, Freed
  <2>3. \A q \in Procs : q # p => ~Refers(q, g)
    <3>1. file[g].ref \in Nat
      BY <1>0, <1>g DEF TypeOK
    <3>2. \A q \in Procs : q # p /\ Refers(q, g) => file[g].ref >= 2
      BY <1>0, <1>2, <1>g, Counted
    <3> QED  BY <1>5, <3>1, <3>2
  <2>4. DataKept(p)
    BY <2>2, <2>3 DEF DataKept
  <2> QED  BY <1>1, <1>3, <2>1, <2>4, CalmStep DEF OnInode
<1> QED  BY <1>4, <1>5

LEMMA AllocOffsets ==
  ASSUME Counts, Offsets, NEW p \in Procs, filealloc(p), NEW l,
         \/ pc[p] = "openalloc" /\ l = "openfd"
         \/ pc[p] = "user" /\ l = "pipefile1"
         \/ pc[p] = "pipefile1" /\ l = "pipekalloc",
         pc' = [pc EXCEPT ![p] = l],
         UNCHANGED <<ofile, ilk, size, hip, io, got, put>>
  PROVE  Offsets'
<1>1. PICK g \in Files : file' = [file EXCEPT ![g].ref = 1]
  BY AllocFile
<1>2. \A f \in Files : /\ file'[f].type = file[f].type /\ file'[f].off = file[f].off
                       /\ file'[f].obj = file[f].obj
  BY <1>1 DEF Counts, TypeOK, Fields
<1>3. DataKept(p)
  BY <1>2, SameData
<1>4. ~Moving(p)
  BY DEF Moving
<1> QED  BY <1>3, <1>4, CalmStep DEF OnInode

(* The steps of fileclose, open, pipe, dup, fork, close and exit in which  *)
(* no file changes.                                                        *)
LEMMA IdleOffsets ==
  ASSUME Counts, Offsets, NEW p \in Procs,
         \/ Drop(p) \/ Closed(p) \/ OpenLock(p) \/ OpenFd(p) \/ OpenFail(p) \/ PipeFd(p)
         \/ Exit(p) \/ ExitClose(p) \/ (\E ip \in Inodes : OpenLookup(p, ip))
         \/ \E d \in Fds : Close(p, d)
  PROVE  Offsets'
<1>0. TypeOK /\ Transfer(p) /\ Place(p) /\ p # None
  BY Alive, NoneAssumption DEF Counts, Offsets
<1>1. UNCHANGED file => DataKept(p)
  BY SameData
<1>2. pc[p] \notin OnInode => ~Moving(p)
  BY DEF Moving, OnInode
<1>3. hip \in [Procs -> Inodes \cup {None}] /\ ilk \in [Inodes -> Procs \cup {None}]
      /\ ofile \in [Procs -> [Fds -> Files \cup {None}]] /\ DOMAIN io = Procs
  BY <1>0 DEF TypeOK
<1> USE DEF Goto, CloseOwn, OnInode
<1>4. CASE Drop(p)
  BY <1>1, <1>2, <1>4, CalmStep DEF Drop, table, history
<1>5. CASE Closed(p)
  <2>1. ret[p] \notin OnInode
    BY Alive
  <2> QED  BY <1>1, <1>2, <1>5, <2>1, CalmStep DEF Closed, table, history, inodes
<1>6. CASE OpenLock(p)
  <2>1. /\ pc[p] = "openlock" /\ ilk[hip[p]] = None /\ UNCHANGED <<file, ofile, size, io, got, put>>
    BY <1>6 DEF OpenLock, ilock, table, history
  <2>h. hip[p] \in Inodes
    BY <1>0, <1>3, <2>1 DEF Place, InOpen
  <2>2. CASE ilk' = [ilk EXCEPT ![hip[p]] = p] /\ pc' = [pc EXCEPT ![p] = "openalloc"] /\ UNCHANGED hip
    <3>1. /\ ilk'[hip'[p]] = p /\ \A ip \in Inodes : ilk[ip] # p /\ ilk[ip] # None => ilk'[ip] = ilk[ip]
      BY <1>3, <2>1, <2>2, <2>h
    <3> QED  BY <1>1, <1>2, <2>1, <2>2, <3>1, CalmStep
  <2>3. CASE hip' = [hip EXCEPT ![p] = None] /\ pc' = [pc EXCEPT ![p] = "user"] /\ UNCHANGED ilk
    <3>1. hip'[p] = None /\ \A q \in Procs : q # p => hip'[q] = hip[q]
      BY <1>3, <2>3
    <3> QED  BY <1>1, <1>2, <2>1, <2>3, <3>1, CalmStep
  <2> QED  BY <1>6, <2>2, <2>3 DEF OpenLock
<1>7. CASE OpenFd(p)
  <2>1. pc[p] = "openfd" /\ UNCHANGED <<file, size, hip, got, put>>
    BY <1>7 DEF OpenFd, history
  <2>2. CASE /\ ofile' = [ofile EXCEPT ![p][Min(FreeFds(p))] = Head(own[p])]
             /\ io' = [io EXCEPT ![p].f = Head(own[p])] /\ ilk' = [ilk EXCEPT ![hip[p]] = None]
             /\ pc' = [pc EXCEPT ![p] = "openinit"]
    <3>1. /\ \A q \in Procs : q # p => io'[q] = io[q] /\ ofile'[q] = ofile[q]
      BY <1>3, <2>2
    <3>2. ilk[hip[p]] = p
      BY <1>0, <2>1 DEF Transfer, Place, InOpen
    <3>3. \A ip \in Inodes : ilk[ip] # p /\ ilk[ip] # None => ilk'[ip] = ilk[ip]
      BY <1>3, <2>2, <3>2
    <3> QED  BY <1>1, <1>2, <2>1, <2>2, <3>1, <3>3, CalmStep
  <2>3. CASE pc' = [pc EXCEPT ![p] = "fileclose"] /\ UNCHANGED <<ofile, io, ilk>>
    BY <1>1, <1>2, <2>1, <2>3, CalmStep
  <2> QED  BY <1>7, <2>2, <2>3 DEF OpenFd
<1>8. CASE OpenFail(p)
  <2>1. /\ pc[p] = "openfail" /\ UNCHANGED <<file, ofile, size, io, got, put>>
        /\ ilk' = [ilk EXCEPT ![hip[p]] = None] /\ hip' = [hip EXCEPT ![p] = None]
        /\ pc' = [pc EXCEPT ![p] = "user"]
    BY <1>8 DEF OpenFail, table, history
  <2>2. ilk[hip[p]] = p
    BY <1>0, <2>1 DEF Transfer, Place, InOpen
  <2>3. /\ hip'[p] = None /\ \A q \in Procs : q # p => hip'[q] = hip[q]
        /\ \A ip \in Inodes : ilk[ip] # p /\ ilk[ip] # None => ilk'[ip] = ilk[ip]
    BY <1>3, <2>1, <2>2
  <2> QED  BY <1>1, <1>2, <2>1, <2>3, CalmStep
<1>9. CASE PipeFd(p)
  <2>1. /\ pc[p] = "pipefd" /\ UNCHANGED <<file, ilk, size, hip, io, got, put>>
        /\ pc' = [pc EXCEPT ![p] = "user"] \/ pc' = [pc EXCEPT ![p] = "fileclose"]
    BY <1>9 DEF PipeFd, inodes, history
  <2>2. \A q \in Procs : q # p => ofile'[q] = ofile[q]
    BY <1>3, <1>9 DEF PipeFd
  <2> QED  BY <1>1, <1>2, <2>1, <2>2, CalmStep
<1>10. CASE Exit(p)
  BY <1>1, <1>2, <1>10, CalmStep DEF Exit, AtUser, table, inodes, history
<1>11. CASE ExitClose(p)
  <2>1. /\ pc[p] = "exit" /\ UNCHANGED <<file, ilk, size, hip, io, got, put>>
        /\ pc' = [pc EXCEPT ![p] = "user"] \/ pc' = [pc EXCEPT ![p] = "fileclose"]
    BY <1>11 DEF ExitClose, inodes, history
  <2>2. \A q \in Procs : q # p => ofile'[q] = ofile[q]
    BY <1>3, <1>11 DEF ExitClose
  <2> QED  BY <1>1, <1>2, <2>1, <2>2, CalmStep
<1>12. ASSUME NEW ip \in Inodes, OpenLookup(p, ip) PROVE Offsets'
  <2>1. /\ pc[p] = "user" /\ UNCHANGED <<file, ofile, ilk, size, io, got, put>>
        /\ hip' = [hip EXCEPT ![p] = ip] /\ pc' = [pc EXCEPT ![p] = "openlock"]
    BY <1>12 DEF OpenLookup, AtUser, table, history
  <2>2. \A q \in Procs : q # p => hip'[q] = hip[q]
    BY <1>3, <2>1
  <2> QED  BY <1>1, <1>2, <2>1, <2>2, CalmStep
<1>13. ASSUME NEW d \in Fds, Close(p, d) PROVE Offsets'
  <2>1. /\ pc[p] = "user" /\ UNCHANGED <<file, ilk, size, hip, io, got, put>>
        /\ ofile' = [ofile EXCEPT ![p][d] = None] /\ pc' = [pc EXCEPT ![p] = "fileclose"]
    BY <1>13 DEF Close, AtUser, inodes, history
  <2>2. \A q \in Procs : q # p => ofile'[q] = ofile[q]
    BY <1>3, <2>1
  <2> QED  BY <1>1, <1>2, <2>1, <2>2, CalmStep
<1> QED  BY <1>4, <1>5, <1>6, <1>7, <1>8, <1>9, <1>10, <1>11, <1>12, <1>13

LEMMA AllocsOffsets ==
  ASSUME Counts, Offsets, NEW p \in Procs, OpenAlloc(p) \/ PipeFile0(p) \/ PipeFile1(p)
  PROVE  Offsets'
<1>1. UNCHANGED <<ofile, ilk, size, hip, io, got, put>>
  BY DEF OpenAlloc, PipeFile0, PipeFile1, inodes, history
<1>2. CASE filealloc(p)
  <2>1. PICK l : /\ pc' = [pc EXCEPT ![p] = l]
                 /\ \/ pc[p] = "openalloc" /\ l = "openfd"
                    \/ pc[p] = "user" /\ l = "pipefile1"
                    \/ pc[p] = "pipefile1" /\ l = "pipekalloc"
    <3>1. CASE OpenAlloc(p)
      BY <1>2, <3>1 DEF OpenAlloc, filealloc, Goto
    <3>2. CASE PipeFile0(p)
      BY <3>2 DEF PipeFile0, AtUser, Goto
    <3>3. CASE PipeFile1(p)
      BY <1>2, <3>3 DEF PipeFile1, filealloc, Goto
    <3> QED  BY <3>1, <3>2, <3>3
  <2> QED  BY <1>1, <1>2, <2>1, AllocOffsets
<1>3. CASE ~filealloc(p)
  <2>1. /\ UNCHANGED file /\ pc[p] \in {"openalloc", "pipefile1"}
        /\ pc' = [pc EXCEPT ![p] = "openfail"] \/ pc' = [pc EXCEPT ![p] = "fileclose"]
    BY <1>3 DEF OpenAlloc, PipeFile0, PipeFile1, CloseOwn, Goto
  <2>2. DataKept(p) /\ ~Moving(p)
    BY <2>1, SameData DEF Moving
  <2> QED  BY <1>1, <2>1, <2>2, CalmStep DEF OnInode
<1> QED  BY <1>2, <1>3

LEMMA OpenInitOffsets ==
  ASSUME Counts, Offsets, NEW p \in Procs, NEW r, NEW w, OpenInit(p, r, w)
  PROVE  Offsets'
<1>0. TypeOK /\ Place(p) /\ Filled
  BY Alive DEF Counts
<1>1. /\ pc[p] = "openinit" /\ hip' = [hip EXCEPT ![p] = None] /\ io' = [io EXCEPT ![p] = NoIO]
      /\ pc' = [pc EXCEPT ![p] = "user"] /\ UNCHANGED <<ofile, ilk, size>>
  BY DEF OpenInit, Goto, inodes
<1>2. PICK g \in Files : g = io[p].f /\ g \in Filling(p)
  BY <1>0, <1>1 DEF Filled, FilledBy, Filling
<1>g. g \in Files
  BY <1>2
<1>3. \A q \in Procs : q # p => ~Refers(q, g)
  BY <1>2, FillingAlone
<1>4. /\ file' = [file EXCEPT ![g].type = "INODE", ![g].obj = hip[p], ![g].off = 0,
                              ![g].readable = r, ![g].writable = w]
      /\ got' = [got EXCEPT ![g] = {}] /\ put' = [put EXCEPT ![g] = {}]
  BY <1>2 DEF OpenInit
<1>5. hip[p] \in Inodes
  BY <1>0, <1>1 DEF Place, InOpen, TypeOK
<1>6. /\ file'[g].off = 0 /\ file'[g].obj \in Inodes /\ file'[g].type = "INODE"
      /\ \A f \in Files : f # g => file'[f] = file[f]
  BY <1>0, <1>4, <1>5, <1>g DEF TypeOK, Fields
<1>7. /\ DOMAIN got' = Files /\ DOMAIN put' = Files /\ got'[g] = {} /\ put'[g] = {}
      /\ \A f \in Files : f # g => got'[f] = got[f] /\ put'[f] = put[f]
  BY <1>4, <1>g DEF Offsets
<1>8. \A f \in Files : file'[f].type = "INODE" => Steady(f) \/ Fresh(p, f)
  BY <1>3, <1>6, <1>7 DEF Steady, Fresh
<1>9. pc'[p] = "user" /\ hip'[p] = None /\ OthersStay(p)
  BY <1>0, <1>1 DEF TypeOK, OthersStay
<1>10. ~Moving(p) /\ ~Moving(p)' /\ Transfer(p)'
  BY <1>1, <1>9 DEF Moving, Transfer
<1>11. \A f \in Files, q \in Procs :
         q # p /\ Refers(q, f) /\ file[f].type = "INODE" => file'[f].type = "INODE"
  BY <1>3, <1>6
<1> QED  BY <1>1, <1>7, <1>8, <1>9, <1>10, <1>11, CalmOffsets

LEMMA PipeKallocOffsets ==
  ASSUME Counts, Offsets, NEW p \in Procs, PipeKalloc(p)
  PROVE  Offsets'
<1>1. /\ pc[p] = "pipekalloc" /\ UNCHANGED <<ofile, ilk, size, hip, io, got, put>>
      /\ pc' = [pc EXCEPT ![p] = "pipefd"] \/ pc' = [pc EXCEPT ![p] = "fileclose"]
  BY DEF PipeKalloc, CloseOwn, Goto, inodes, history
<1>2. PICK g \in Files, h \in Files : g = own[p][1] /\ h = own[p][2] /\ Filling(p) = {g, h}
  BY <1>1, TwoFiles
<1>3. file[g].type = "NONE" /\ file[h].type = "NONE"
  BY <1>2, FillingAlone
<1>4. DataKept(p)
  <2>1. CASE UNCHANGED file
    BY <2>1, SameData
  <2>2. CASE file' # file
    <3>1. PICK q \in Pipes :
            file' = [f \in Files |->
                       IF f = own[p][1]
                       THEN [file[f] EXCEPT !.type = "PIPE", !.obj = q, !.readable = TRUE, !.writable = FALSE]
                       ELSE IF f = own[p][2]
                       THEN [file[f] EXCEPT !.type = "PIPE", !.obj = q, !.readable = FALSE, !.writable = TRUE]
                       ELSE file[f]]
      BY <2>2 DEF PipeKalloc
    <3>2. /\ file'[g].type = "PIPE" /\ file'[h].type = "PIPE"
          /\ \A f \in Files : f # g /\ f # h => file'[f] = file[f]
      BY ZenonT(40), <1>2, <3>1 DEF Counts, TypeOK, Fields
    <3> QED  BY SMTT(30), <1>3, <3>2 DEF DataKept
  <2> QED  BY <2>1, <2>2
<1>5. ~Moving(p)
  BY <1>1 DEF Moving
<1> QED  BY SMTT(30), <1>1, <1>4, <1>5, CalmStep DEF OnInode

LEMMA DupForkOffsets ==
  ASSUME Counts, Offsets, NEW p \in Procs,
         (\E d \in Fds : Dup(p, d)) \/ (\E c \in Procs : Fork(p, c))
  PROVE  Offsets'
<1>1. pc[p] = "user" /\ UNCHANGED <<pc, ilk, size, hip, io, got, put>>
  BY DEF Dup, Fork, AtUser, inodes, history, call
<1>2. \A f \in Files : /\ file'[f].type = file[f].type /\ file'[f].off = file[f].off
                       /\ file'[f].obj = file[f].obj
  <2>1. DOMAIN file = Files /\ \A f \in Files : DOMAIN file[f] = Fields
    BY DEF Counts, TypeOK
  <2>2. CASE \E d \in Fds : Dup(p, d)
    BY <2>1, <2>2 DEF Dup, Fields
  <2>3. CASE \E c \in Procs : Fork(p, c)
    BY <2>1, <2>3 DEF Fork, Fields
  <2> QED  BY <2>2, <2>3
<1>3. PICK c \in Procs : /\ pc[c] = "user"
                         /\ \A q \in Procs : q # c => ofile'[q] = ofile[q]
  <2>1. ofile \in [Procs -> [Fds -> Files \cup {None}]]
    BY DEF Counts, TypeOK
  <2>2. CASE \E d \in Fds : Dup(p, d)
    BY <1>1, <2>1, <2>2 DEF Dup
  <2>3. ASSUME NEW c \in Procs, Fork(p, c)
        PROVE  pc[c] = "user" /\ \A q \in Procs : q # c => ofile'[q] = ofile[q]
    <3>1. c \notin live /\ Place(c)
      BY <2>3, Alive DEF Fork
    <3> QED  BY <2>1, <2>3, <3>1 DEF Fork, Place
  <2> QED  BY <2>2, <2>3
<1>4. DataKept(c)
  BY <1>2, SameData
<1>5. pc' = [pc EXCEPT ![c] = "user"] /\ ~Moving(c)
  BY <1>1, <1>3 DEF Counts, TypeOK, Moving
<1> QED  BY <1>1, <1>3, <1>4, <1>5, CalmStep DEF OnInode

LEMMA CountOffsets ==
  ASSUME Counts, Offsets, NEW p \in Procs, ReadCount(p) \/ WriteCount(p) \/ WriteStore(p)
  PROVE  Offsets'
<1>0. DOMAIN io = Procs /\ DOMAIN file = Files /\ \A f \in Files : DOMAIN file[f] = Fields
  BY DEF Counts, TypeOK
<1>1. /\ pc[p] \in {"readcount", "writecount", "writestore"}
      /\ pc' = [pc EXCEPT ![p] = "user"] \/ pc' = [pc EXCEPT ![p] = "writestore"]
      /\ UNCHANGED <<ofile, ilk, size, hip, got, put>>
  BY DEF ReadCount, WriteCount, WriteStore, Goto, inodes, history, table
<1>2. \A q \in Procs : q # p => io'[q] = io[q]
  BY <1>0 DEF ReadCount, WriteCount, WriteStore
<1>3. \A f \in Files : /\ file'[f].type = file[f].type /\ file'[f].off = file[f].off
                       /\ file'[f].obj = file[f].obj
  BY <1>0 DEF ReadCount, WriteCount, WriteStore, table, Fields
<1>4. DataKept(p) /\ ~Moving(p)
  BY <1>1, <1>3, SameData DEF Moving
<1> QED  BY <1>1, <1>2, <1>4, CalmStep DEF OnInode

LEMMA ReadWriteOffsets ==
  ASSUME Counts, Offsets, NEW p \in Procs, NEW d \in Fds, NEW n \in Lengths, Read(p, d, n) \/ Write(p, d, n)
  PROVE  Offsets'
<1>0. TypeOK /\ Place(p) /\ n \in Nat
  BY Alive, FileAssumption DEF Counts
<1>1. PICK g \in Files : g = ofile[p][d]
  BY <1>0 DEF TypeOK, Read, Write, Call
<1>2. PICK l : /\ pc' = [pc EXCEPT ![p] = l] /\ io' = [io EXCEPT ![p] = [f |-> g, n |-> n, i |-> 0, r |-> 0]]
               /\ pc[p] = "user" /\ UNCHANGED <<file, ofile, ilk, size, hip, got, put>>
               /\ \/ l \in {"readcount", "writecount"}
                  \/ l = "readlock" /\ file[g].type = "INODE"
                  \/ l = "writelock" /\ file[g].type = "INODE" /\ n > 0
  <2>1. CASE Read(p, d, n)
    BY <1>1, <2>1 DEF Read, Call, AtUser, Goto, table, inodes
  <2>2. CASE Write(p, d, n)
    BY <1>1, <2>2 DEF Write, Call, AtUser, Goto, table, inodes
  <2> QED  BY <2>1, <2>2
<1>3. /\ pc'[p] = l /\ io'[p] = [f |-> g, n |-> n, i |-> 0, r |-> 0] /\ OthersStay(p)
  BY <1>0, <1>2 DEF TypeOK, OthersStay
<1>4. ~Moving(p) /\ ~Moving(p)' /\ hip'[p] = None
  BY <1>0, <1>2, <1>3 DEF Moving, Place, InOpen
<1>5. io'[p].f = g /\ io'[p].n = n /\ io'[p].i = 0 /\ \E e \in Fds : ofile'[p][e] = g
  BY <1>1, <1>2, <1>3
<1>6. Transfer(p)'
  BY <1>0, <1>1, <1>2, <1>3, <1>4, <1>5 DEF Transfer
<1>7. \A f \in Files : file'[f].type = "INODE" => Steady(f)
  BY <1>2 DEF Steady
<1>8. DOMAIN got' = Files /\ DOMAIN put' = Files
  BY <1>2 DEF Offsets
<1> QED  BY <1>2, <1>3, <1>4, <1>6, <1>7, <1>8, CalmOffsets

LEMMA InitOffsets ==
  ASSUME Init
  PROVE  Offsets
<1>1. size \in [Inodes -> 0..MaxSize] /\ DOMAIN got = Files /\ DOMAIN put = Files
  <2>1. 1 \in 0..MaxSize
    BY FileAssumption
  <2> QED  BY <2>1 DEF Init
<1>2. \A f \in Files : file[f].type = "NONE"
  BY DEF Init
<1>3. \A p \in Procs : pc[p] = "user" /\ hip[p] = None
  BY DEF Init
<1> QED  BY <1>1, <1>2, <1>3 DEF Offsets, OffsetOK, Transfer, Moving

LEMMA NextOffsets ==
  ASSUME Counts, Offsets, [Next]_vars
  PROVE  Offsets'
<1>1. CASE UNCHANGED vars
  BY <1>1, SameOffsets DEF vars, table, inodes, call, history
<1>2. ASSUME NEW p \in Procs, Begin(p)
      PROVE  Offsets'
  BY <1>2, IdleOffsets, AllocsOffsets, DupForkOffsets, ReadWriteOffsets DEF Begin
<1>3. ASSUME NEW p \in Procs, Step(p)
      PROVE  Offsets'
  BY <1>3, FileCloseOffsets, IdleOffsets, AllocsOffsets, OpenInitOffsets, PipeKallocOffsets,
     CountOffsets, ReadIOffsets, ReadDoneOffsets, WriteIOffsets, WriteDoneOffsets DEF Step
<1> QED  BY <1>1, <1>2, <1>3 DEF Next

(* In every state, file->ref is the number of descriptors and calls that   *)
(* refer to the file, inode->ref the number of files, lookups and closes   *)
(* in progress that refer to the inode, an end of a pipe is open exactly   *)
(* while there is one file for it, and the descriptors of a process in     *)
(* user mode name files that are open and filled in: filealloc, filedup,   *)
(* fileclose and the error paths of sys_open and sys_pipe neither leak a   *)
(* reference nor drop one twice, whatever the processes do meanwhile.      *)
(* The bytes that went through a file are those before its offset, and     *)
(* those that the holder of the inode's lock has moved but not counted.    *)
THEOREM Invariance == Spec => []IInv
<1>1. Init => Counts /\ Offsets
  BY InitCounts, InitOffsets
<1>2. Counts /\ Offsets /\ [Next]_vars => Counts' /\ Offsets'
  BY NextCounts, NextOffsets
<1>3. Counts /\ Offsets => IInv
  BY CountsUsable DEF Counts, IInv
<1> QED  BY <1>1, <1>2, <1>3, PTL DEF Spec

LEMMA SharedOffset ==
  ASSUME IInv
  PROVE  OffsetShared
<1>1. ASSUME NEW f \in Files, file[f].type = "INODE", Quiet(f)
      PROVE  /\ file[f].off = Cardinality(got[f] \cup put[f])
             /\ file[f].off <= size[file[f].obj]
  <2>1. Spread(f, 0) /\ file[f].off \in Nat
    BY <1>1 DEF IInv, Offsets, OffsetOK
  <2>2. got[f] \cup put[f] = 0..(file[f].off - 1) /\ file[f].off <= size[file[f].obj]
    BY <2>1 DEF Spread
  <2>3. PICK n \in Nat : n = file[f].off
    BY <2>1
  <2>4. Cardinality(0..(n - 1)) = n
    <3>1. 0 \in Int /\ n - 1 \in Int
      BY <2>3
    <3>2. Cardinality(0..(n - 1)) = IF 0 > n - 1 THEN 0 ELSE (n - 1) - 0 + 1
      BY <3>1, FS_Interval
    <3> QED  BY <2>3, <3>2
  <2> QED  BY <2>2, <2>3, <2>4
<1>2. \A f \in Files : (\A p \in Procs : io[p].f = f => pc[p] \notin {"readdone", "writedone"}) => Quiet(f)
  BY DEF Quiet, Moving
<1>3. \A ip \in Inodes : size[ip] \in 0..MaxSize
  BY DEF IInv, Offsets
<1> QED  BY <1>1, <1>2, <1>3 DEF OffsetShared

(* Processes that share an open file share its offset: through fileread    *)
(* and filewrite every byte is transferred once, in order and without      *)
(* gaps, within the file and within MAXFILE, although readi and writei may *)
(* sleep between the read of the offset and its change.                    *)
THEOREM SharedOffsets == Spec => []OffsetShared
<1>1. IInv => OffsetShared
  BY SharedOffset
<1> QED  BY <1>1, Invariance, PTL
=============================================================================
