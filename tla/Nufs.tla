-------------------------------- MODULE Nufs --------------------------------
(***************************************************************************)
(* The FUSE file system of hw10: nufsmount.c over storage.c, directory.c,  *)
(* inode.c, pages.c and bitmap.c.  It is mounted with -s, so a callback    *)
(* runs alone and is one step.  The image is a record: bitmaps of pages    *)
(* and inodes, the inode table, and the contents of pages as slots of a    *)
(* directory entry (or of an int of an indirect page, in field inum).      *)
(* Sizes and offsets are in slots.  A call gets a path that the kernel has *)
(* looked up with getattr, which is external.  The table of the code goes  *)
(* on in page 1 with inode 168, and its bitmap of pages has 8 ints: the    *)
(* model has the inodes of page 0 and the pages of the first int.          *)
(***************************************************************************)
EXTENDS Integers, Sequences, FiniteSets, FiniteSetsExt, SequencesExt

CONSTANTS
  INODE_COUNT,  \* inodes are 0..INODE_COUNT-1, 0 is the root, all in page 0
  PAGE_COUNT,   \* pages are 0..PAGE_COUNT-1, 0 and 1 are reserved
  ENTS,         \* slots of a page
  Paths,        \* the paths programs use, as sequences of names
  Sizes         \* the sizes they truncate and write to

ASSUME NufsAssumption ==
  /\ INODE_COUNT \in 1..168 /\ PAGE_COUNT \in 3..31 /\ ENTS \in Nat \ {0}
  /\ Sizes \subseteq Nat
  /\ \A p \in Paths : p # <<>>

VARIABLES
  img,    \* the image: used, ibm, inode, page
  files,  \* history: what the calls made and have not removed, paths with their inodes
  over    \* history: data have been written over a directory

nufsVars == <<img, files, over>>

InodeNums == 0..(INODE_COUNT - 1)
Pages == 0..(PAGE_COUNT - 1)
Slots == 0..(ENTS - 1)
NOENT == -1
Empty == [name |-> "", inum |-> 0]

(* a slot of a file's data: read as an entry or an int it is a name that   *)
(* nobody uses and a number beyond all inodes and pages                    *)
Data == [name |-> "data", inum |-> INODE_COUNT + PAGE_COUNT]
BlankInode == [refs |-> 0, dir |-> FALSE, size |-> 0, dptrs |-> [i \in 0..1 |-> 0], iptr |-> 0]

-----------------------------------------------------------------------------
(* bitmap.c: a bitmap is the set of its ones *)
bitmap_get(bm, n) == n \in bm
bitmap_set(bm, n, val) == IF val THEN bm \cup {n} ELSE bm \ {n}

(* pages.c: the first page not in use, or -1, here PAGE_COUNT *)
alloc_page(s) == Min({p \in Pages : ~bitmap_get(s.used, p)} \cup {PAGE_COUNT})
free_page(s, p) == [s EXCEPT !.used = bitmap_set(@, p, FALSE)]

(* int f of page iptr; page 0 begins with the bitmap of pages, of which    *)
(* only the first int is not 0                                             *)
Word(s, iptr, f) == IF iptr # 0 THEN s.page[iptr][f].inum
                    ELSE IF f = 0 THEN SumSet({2^p : p \in s.used}) ELSE 0
SetWord(s, iptr, f, v) ==
  IF iptr # 0 THEN [s EXCEPT !.page[iptr][f].inum = v]
              ELSE [s EXCEPT !.used = IF f = 0 THEN {} ELSE @]

inode_get_pnum(s, i, f) == IF f < 2 THEN s.inode[i].dptrs[f]
                                    ELSE Word(s, s.inode[i].iptr, f - 2)

(* the pages before the first one that is missing *)
pages_owned(s, i) == Min({f \in 0..(ENTS + 1) : inode_get_pnum(s, i, f) <= 0} \cup {ENTS + 2})
Lacks(s, i, size) == pages_owned(s, i) * ENTS < size
Exceeds(s, i, size) == pages_owned(s, i) * ENTS > size

(* A loop turns an image and a return value, "go" until it returns.  A     *)
(* turn of grow_inode puts a new page where Put(s, p) says, if need.       *)
Go(s) == [s |-> s, rv |-> "go"]
Grow(r, i, size, need, Put(_, _)) ==
  IF r.rv # "go" THEN r
  ELSE IF need /\ r.s.used = Pages THEN [r EXCEPT !.rv = "full"]
  ELSE LET p == alloc_page(r.s)
           t == IF need THEN Put([r.s EXCEPT !.used = bitmap_set(@, p, TRUE)], p) ELSE r.s
       IN  [s |-> t, rv |-> IF Lacks(t, i, size) THEN "go" ELSE "ok"]

(* grow_inode: two direct pages, then an indirect page and the pages in it *)
grow_inode(s, i, size) ==
  LET Direct(r, f) == Grow(r, i, size, Lacks(r.s, i, size) /\ r.s.inode[i].dptrs[f] <= 0,
                           LAMBDA t, p : [t EXCEPT !.inode[i].dptrs[f] = p])
      Indirect(r) == Grow(r, i, size, r.s.inode[i].iptr = 0,
                          LAMBDA t, p : [t EXCEPT !.inode[i].iptr = p])
      Listed(r, f) == Grow(r, i, size, Lacks(r.s, i, size),
                           LAMBDA t, p : SetWord(t, t.inode[i].iptr, f - 1, p))
  IN  FoldLeft(Listed, Indirect(FoldLeft(Direct, Go(s), <<0, 1>>)), [f \in 1..ENTS |-> f])

Shrink(r, i, size, t) ==
  IF r.rv # "go" THEN r
  ELSE LET u == IF Exceeds(r.s, i, size) THEN t ELSE r.s
       IN  [s |-> u, rv |-> IF Exceeds(u, i, size) THEN "go" ELSE "ok"]

(* shrink_inode: the last page of the indirect page again and again, the   *)
(* indirect page itself, the direct pages                                  *)
shrink_inode(s, i, size) ==
  LET Listed(r, f) ==
        LET q == r.s.inode[i].iptr
            last == pages_owned(r.s, i) - 3
        IN  Shrink(r, i, size, SetWord(free_page(r.s, Word(r.s, q, last)), q, last, 0))
      Indirect(r) ==
        IF r.rv # "go" THEN r
        ELSE LET q == r.s.inode[i].iptr
             IN  Go([(IF q = 0 THEN r.s ELSE free_page(r.s, q)) EXCEPT !.inode[i].iptr = 0])
      Direct(r, f) ==
        LET p == r.s.inode[i].dptrs[f]
        IN  Shrink(r, i, size, IF p > 0 THEN [free_page(r.s, p) EXCEPT !.inode[i].dptrs[f] = 0] ELSE r.s)
  IN  FoldLeft(Direct, Indirect(FoldLeft(Listed, Go(s), [f \in 1..(pages_owned(s, i) - 2) |-> f])),
               <<1, 0>>)

-----------------------------------------------------------------------------
(* inode.c: the first free inode *)
UnusedInodes(s) == {i \in InodeNums : ~bitmap_get(s.ibm, i)}
alloc_inode(s, dir) ==
  LET i == Min(UnusedInodes(s))
  IN  [s EXCEPT !.ibm = bitmap_set(@, i, TRUE), !.inode[i] = [BlankInode EXCEPT !.dir = dir]]

(* the last entry of an inode is gone: pages and inode are given back *)
free_inodeMutant(s, i) ==
  LET t == [s EXCEPT !.inode[i].refs = @ - 1]
  IN  IF t.inode[i].refs # 0 THEN t ELSE [t EXCEPT !.inode[i] = BlankInode, !.ibm = @ \ {i}]
free_inode(s, i) ==
  LET t == [s EXCEPT !.inode[i].refs = @ - 1]
  IN  IF t.inode[i].refs # 0 THEN t
      ELSE [shrink_inode(t, i, 0).s EXCEPT !.inode[i] = BlankInode, !.ibm = bitmap_set(@, i, FALSE)]

-----------------------------------------------------------------------------
(* directory.c: the entries of directory d are in its first page *)
DirEntries(s, d) == s.page[s.inode[d].dptrs[0]]
SlotOf(s, d, name) == {k \in Slots : DirEntries(s, d)[k].name = name}

directory_init(s) ==
  LET t == alloc_inode(s, TRUE)
  IN  grow_inode(t, Min(UnusedInodes(s)), ENTS).s

directory_lookup(s, d, name) ==
  IF SlotOf(s, d, name) = {} THEN NOENT ELSE DirEntries(s, d)[Min(SlotOf(s, d, name))].inum

(* "/a" is split into "" and "a": the walk starts with the first empty     *)
(* entry of the root                                                       *)
s_split(path) == <<"">> \o path
tree_lookup(s, path) ==
  LET Turn(i, name) == IF i < 0 THEN i ELSE directory_lookup(s, i, name)
  IN  FoldLeft(Turn, 0, s_split(path))

(* strncpy keeps 59 bytes of a name of 60 *)
strncpy(name) == IF name = "name60" THEN "name59" ELSE name

directory_put(s, d, name, i) ==
  LET free == SlotOf(s, d, "")
  IN  IF directory_lookup(s, d, name) > 0 \/ free = {}
        THEN [s |-> s, rv |-> "failed"]
        ELSE [s |-> [s EXCEPT !.page[s.inode[d].dptrs[0]][Min(free)] = [name |-> strncpy(name), inum |-> i],
                              !.inode[i].refs = @ + 1],
              rv |-> "ok"]

(* An empty entry must have inode number 0.  A rename that fills the root  *)
(* no longer finds the directory of the old name: get_inode(-ENOENT) then  *)
(* points into the bitmaps, which hold no such name.                       *)
directory_delete(s, d, name) ==
  IF d < 0 \/ SlotOf(s, d, name) = {} THEN s
  ELSE LET k == Min(SlotOf(s, d, name))
           i == DirEntries(s, d)[k].inum
       IN  free_inode([s EXCEPT !.page[s.inode[d].dptrs[0]][k] = Empty], i)

directory_list(s, d) == {DirEntries(s, d)[k].name : k \in Slots} \ {""}

-----------------------------------------------------------------------------
(* storage.c *)
dirname(path) == Front(path)
basename(path) == Last(path)

storage_mknod(s, path, dir) ==
  IF tree_lookup(s, path) # NOENT THEN [s |-> s, rv |-> "failed"]
  ELSE LET i == Min(UnusedInodes(s))
           t == IF dir THEN directory_init(s) ELSE alloc_inode(s, FALSE)
       IN  directory_put(t, tree_lookup(t, dirname(path)), basename(path), i)

storage_unlink(s, path) == directory_delete(s, tree_lookup(s, dirname(path)), basename(path))

storage_link(s, from, to) ==
  IF tree_lookup(s, from) < 0 \/ tree_lookup(s, to) > 0 \/ tree_lookup(s, dirname(to)) < 0
    THEN [s |-> s, rv |-> "failed"]
    ELSE directory_put(s, tree_lookup(s, dirname(to)), basename(to), tree_lookup(s, from))

storage_rename(s, from, to) ==
  LET r == storage_link(s, from, to)
  IN  IF r.rv = "ok" THEN [r EXCEPT !.s = storage_unlink(@, from)] ELSE r

(* The size is set whatever happened to the pages.  With the size it has   *)
(* already the return value is not initialised.                            *)
storage_truncate(s, i, size) ==
  LET r == IF s.inode[i].size > size THEN shrink_inode(s, i, size)
           ELSE IF s.inode[i].size < size THEN grow_inode(s, i, size)
           ELSE Go(s)
  IN  [r EXCEPT !.s.inode[i].size = size]

(* The data go to the page that has the number of the inode, whoever owns  *)
(* it, and on into the pages after it: inode 2 has the root's page.        *)
WrittenTo(i, offset, size) == (i * ENTS + offset)..(i * ENTS + offset + size - 1)
storage_write(s, i, offset, size) ==
  [s EXCEPT !.page = [p \in Pages |-> [k \in Slots |->
     IF p * ENTS + k \in WrittenTo(i, offset, size) THEN Data ELSE s.page[p][k]]]]

(* the inodes that readdir asks getattr for, one for each name it lists *)
nufs_readdir(s, path) ==
  {tree_lookup(s, Append(path, name)) : name \in directory_list(s, tree_lookup(s, path))}

-----------------------------------------------------------------------------
(* nufstool new: pages_init and directory_init *)
NufsInit ==
  /\ img = directory_init([used |-> {0, 1}, ibm |-> {}, inode |-> [i \in InodeNums |-> BlankInode],
                           page |-> [p \in Pages |-> [k \in Slots |-> Empty]]])
  /\ files = {}
  /\ over = FALSE

(* What the kernel looks up before it calls: the parent is a directory;    *)
(* the file is there and is none.                                          *)
NufsDirs == {i \in img.ibm : img.inode[i].dir}
IsDir(path) == tree_lookup(img, path) >= 0 /\ img.inode[tree_lookup(img, path)].dir
IsFile(path) == tree_lookup(img, path) > 0 /\ ~img.inode[tree_lookup(img, path)].dir
InDir(path) == \A n \in 0..(Len(path) - 1) : IsDir(SubSeq(path, 1, n))

(* bound: inodes, and pages for directories, do not run out (the code does *)
(* not look at the -1 of alloc_inode and grow_inode)                       *)
nufs_mknod(path, dir) ==
  /\ InDir(path) /\ UnusedInodes(img) # {} /\ (dir => img.used # Pages)
  /\ LET r == storage_mknod(img, path, dir)
     IN  /\ img' = r.s
         /\ files' = files \cup (IF r.rv = "ok" THEN {[path |-> path, inum |-> Min(UnusedInodes(img))]} ELSE {})
  /\ UNCHANGED over

nufs_unlink(path) ==
  /\ InDir(path) /\ IsFile(path)
  /\ img' = storage_unlink(img, path)
  /\ files' = {f \in files : f.path # path}
  /\ UNCHANGED over

(* the kernel moves no directory below itself *)
Moved(path, from, to) ==
  IF IsPrefix(from, path) THEN to \o SubSeq(path, Len(from) + 1, Len(path)) ELSE path
nufs_rename(from, to) ==
  /\ InDir(from) /\ InDir(to) /\ (IsFile(from) \/ IsDir(from))
  /\ ~IsPrefix(from, to)
  /\ LET r == storage_rename(img, from, to)
     IN  /\ img' = r.s
         /\ files' = IF r.rv = "ok" THEN {[f EXCEPT !.path = Moved(@, from, to)] : f \in files} ELSE files
  /\ UNCHANGED over

nufs_truncate(path, size) ==
  /\ InDir(path) /\ IsFile(path)
  /\ img' = storage_truncate(img, tree_lookup(img, path), size).s
  /\ UNCHANGED <<files, over>>

(* A write truncates first, and ends if that failed or left no result.     *)
(* Bound: it does not run past the end of the image.                       *)
nufs_write(path, offset, size) ==
  /\ InDir(path) /\ IsFile(path) /\ size > 0
  /\ LET i == tree_lookup(img, path)
         r == storage_truncate(img, i, offset + size)
     IN  \/ /\ r.rv # "full" /\ i * ENTS + offset + size <= PAGE_COUNT * ENTS
            /\ img' = storage_write(r.s, i, offset, size)
            /\ over' = (over \/ \E d \in NufsDirs, w \in WrittenTo(i, offset, size) : w \div ENTS = img.inode[d].dptrs[0])
         \/ /\ r.rv # "ok"
            /\ img' = r.s
            /\ UNCHANGED over
  /\ UNCHANGED files

(* nufsmount's main: pages_init without create *)
Mount == img' = [img EXCEPT !.used = @ \cup {0, 1}] /\ UNCHANGED <<files, over>>

NufsNext ==
  \/ \E path \in Paths, dir \in BOOLEAN : nufs_mknod(path, dir)
  \/ \E path \in Paths : nufs_unlink(path)
  \/ \E from, to \in Paths : nufs_rename(from, to)
  \/ \E path \in Paths, size \in Sizes : nufs_truncate(path, size)
  \/ \E path \in Paths, offset \in Sizes, size \in Sizes :
       offset + size \in Sizes /\ nufs_write(path, offset, size)
  \/ Mount

NufsSpec == NufsInit /\ [][NufsNext]_nufsVars

-----------------------------------------------------------------------------
NufsTypeOK ==
  /\ img.used \subseteq Pages /\ img.ibm \subseteq InodeNums
  /\ \A i \in InodeNums : /\ img.inode[i].refs \in Nat /\ img.inode[i].size \in Nat
                          /\ img.inode[i].dir \in BOOLEAN
                          /\ \A f \in 0..1 : img.inode[i].dptrs[f] \in Pages
                          /\ img.inode[i].iptr \in Pages
  /\ \A f \in files : f.inum \in InodeNums
  /\ over \in BOOLEAN

Named(i) == {x \in NufsDirs \X Slots : LET e == DirEntries(img, x[1])[x[2]]
                                   IN  e.name \notin {"", Data.name} /\ e.inum = i}

(* In whatever order files are made, renamed and removed no inode has      *)
(* fewer references than entries, so that none is freed that has a name,   *)
(* and it has no more unless entries were lost under a file's data; an     *)
(* inode that is named is allocated, and an empty entry has number 0,      *)
(* without which no path would be found.                                   *)
NufsRefsExact ==
  /\ \A i \in InodeNums : LET n == img.inode[i].refs - Cardinality(Named(i))
                       IN  IF over THEN n >= 0 ELSE n = 0
  /\ \A i \in InodeNums : Named(i) # {} => i \in img.ibm \ {0}
  /\ \A d \in NufsDirs, k \in Slots : DirEntries(img, d)[k].name = "" => DirEntries(img, d)[k] = Empty

Owns(i) == LET q == img.inode[i].iptr
           IN  ({img.inode[i].dptrs[f] : f \in 0..1} \cup {q}
                 \cup (IF q = 0 THEN {} ELSE {img.page[q][k].inum : k \in Slots})) \ {0}

(* As long as no file is larger than a page: no page belongs to two inodes,*)
(* and the bitmap marks the pages of inodes and the two reserved pages, no *)
(* more and no fewer, after every truncate, write, unlink and failed mknod.*)
PagesExact == (\A n \in Sizes : n <= ENTS) =>
  /\ img.used = {0, 1} \cup UNION {Owns(i) : i \in InodeNums}
  /\ \A i, j \in InodeNums : i # j => Owns(i) \cap Owns(j) = {}

(* The types, and what must be exact after every sequence of callbacks. *)
NufsInv == NufsTypeOK /\ PagesExact /\ NufsRefsExact

(* "assert(rv == 0)", twice in readdir: the directory, which for the root  *)
(* the kernel need not look up, is found, and so is every name it lists.   *)
NamesResolve ==
  \A p \in {<<>>} \cup {q \in Paths : IsDir(q)} :
    tree_lookup(img, p) >= 0 /\ nufs_readdir(img, p) \subseteq img.ibm

(* "one.txt is in the directory" after two.txt was written, test.pl: what  *)
(* mknod made and nobody removed is found under its name.                  *)
FilesKept == \A f \in files : tree_lookup(img, f.path) = f.inum

(* "page 0 = 256 inodes", DESIGN: the page that holds the bitmaps and the  *)
(* inodes is never free for a file or a directory.                         *)
PageZeroReserved == 0 \in img.used
=============================================================================
