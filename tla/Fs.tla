--------------------------------- MODULE Fs ---------------------------------
(***************************************************************************)
(* The inode layer of xv6, fs.c, under the system calls of sysfile.c that  *)
(* look up and change directories: open, mkdir, mknod, link, unlink, chdir,*)
(* with write and close of an open file.                                   *)
(*                                                                         *)
(* A step of a process runs from where it gets an inode's sleep lock to    *)
(* the next place where it may have to wait for one; what it reads and     *)
(* writes in between is protected by the locks it holds.  iput is three    *)
(* steps, so that another process may look the inode up between the test   *)
(* for the last reference, the free, and the decrement.                    *)
(*                                                                         *)
(* The icache has at most one slot with ref > 0 for an inode number, under *)
(* icache.lock, so slots are indexed by inode numbers; k.ic is the copy in *)
(* memory and k.di the one on disk.  Device numbers, sizes and the order of*)
(* directory entries are left out; the log makes a call atomic against     *)
(* crashes and is modelled in Log.                                         *)
(***************************************************************************)
EXTENDS Integers, Sequences, FiniteSets, FiniteSetsExt, Functions

CONSTANTS
  Procs,       \* the processes
  NINODES,     \* inodes on the disk, 1 is the root
  NINODE,      \* slots of the inode cache
  NBLOCK,      \* data blocks on the disk
  Names,       \* names of entries other than "." and ".."
  Calls,       \* the calls processes make: records with op, path and kind
  MaxCalls,    \* bound: calls of all processes
  MaxBlocks,   \* bound: blocks of a file
  None         \* no process

AllNames == Names \cup {".", ".."}
Path == [abs : BOOLEAN, names : Seq(AllNames)]

ASSUME FsAssumption ==
  /\ NINODES \in Nat /\ NBLOCK \in Nat /\ NINODES >= 3 /\ NBLOCK >= 3   \* room for Init's image
  /\ NINODE \in Nat /\ MaxCalls \in Nat /\ MaxBlocks \in Nat
  /\ IsFiniteSet(Procs) /\ None \notin Procs
  /\ IsFiniteSet(Names) /\ {"a", "d"} \subseteq Names /\ Names \cap {".", ".."} = {}

(* what is created has its kind as type *)
ASSUME CallsAssumption ==
  /\ Calls \subseteq [op : {"open", "create", "unlink", "chdir", "link"},
                      kind : {"file", "dir", "dev", "read", "write"}, path : Path, new : Path]
  /\ \A call \in Calls : call.op = "create" => call.kind \in {"file", "dir", "dev"}

VARIABLES
  k,      \* the kernel: di, ic, ref, valid, lock, the bitmap used, and panic
  pc,     \* where each process is
  c,      \* its call: op, kind, path still to walk, parent, ip, held, and link's new path
  stage,  \* how far the iput of the first of puts is: lock, free, drop
  puts,   \* the inodes it has to iput before it goes on
  cwd,    \* its current directory
  fd,     \* its open file, 0 for none
  left    \* calls the processes may still make

vars == <<k, pc, c, puts, stage, cwd, fd, left>>

Root == 1
Inums == 1..NINODES
Types == {"free", "file", "dir", "dev"}
NoEnts == [n \in AllNames |-> 0]
Fresh(type) == [type |-> type, nlink |-> 0, ents |-> NoEnts, blk |-> {}]
Panic(s, why) == [s EXCEPT !.panic = why]

-----------------------------------------------------------------------------
(* Blocks, the inode cache and directory entries: from kernel state to     *)
(* kernel state.                                                           *)

(* the first free block is taken *)
FreeBlocks(s) == (1..NBLOCK) \ s.used
balloc(s) == IF FreeBlocks(s) = {} THEN Panic(s, "balloc: out of blocks")
                                  ELSE [s EXCEPT !.used = @ \cup {Min(FreeBlocks(s))}]
bfree(s, B) == IF B \subseteq s.used THEN [s EXCEPT !.used = @ \ B]
                                     ELSE Panic(s, "freeing free block")

(* bmap of a block that file i does not have yet *)
bmap(s, i) ==
  IF FreeBlocks(s) = {} THEN balloc(s)
                        ELSE [balloc(s) EXCEPT !.ic[i].blk = @ \cup {Min(FreeBlocks(s))}]

iupdate(s, i) == [s EXCEPT !.di[i] = s.ic[i]]

itruncMutant(s, i) ==
  iupdate([s EXCEPT !.ic[i].blk = {}, !.ic[i].ents = NoEnts], i)

(* itrunc: every block goes back to the bitmap *)
itrunc(s, i) ==
  iupdate([bfree(s, s.ic[i].blk) EXCEPT !.ic[i].blk = {}, !.ic[i].ents = NoEnts], i)

idup(s, i) == [s EXCEPT !.ref[i] = @ + 1]

iget(s, i) ==
  IF s.ref[i] > 0 THEN idup(s, i)
  ELSE IF Cardinality({j \in Inums : s.ref[j] > 0}) = NINODE
         THEN Panic(s, "iget: no inodes")
         ELSE [s EXCEPT !.ref[i] = 1, !.valid[i] = FALSE]

(* the first free inode is marked and looked up *)
FreeInodes(s) == {i \in Inums : s.di[i].type = "free"}
ialloc(s, type) ==
  IF FreeInodes(s) = {}
    THEN Panic(s, "ialloc: no inodes")
    ELSE LET i == Min(FreeInodes(s))
         IN  iget([s EXCEPT !.di[i] = Fresh(type)], i)

(* ilock once the lock is free *)
ilock(s, p, i) ==
  LET t == IF s.valid[i] THEN s
           ELSE [s EXCEPT !.ic[i] = s.di[i], !.valid[i] = TRUE]
      l == [t EXCEPT !.lock[i] = p]
  IN  IF t.ic[i].type = "free" THEN Panic(l, "ilock: no type") ELSE l

iunlock(s, i) == [s EXCEPT !.lock[i] = None]

(* entry n of directory d, 0 if there is none *)
dirlookup(s, d, n) == s.ic[d].ents[n]

(* writei of one entry, which takes the directory's first block if it has none *)
WriteEntry(s, d, n, i) ==
  LET t == IF s.ic[d].blk = {} THEN bmap(s, d) ELSE s
  IN  iupdate([t EXCEPT !.ic[d].ents[n] = i], d)

isdirempty(s, d) == \A n \in Names : s.ic[d].ents[n] = 0

AddLinks(s, i, n) == iupdate([s EXCEPT !.ic[i].nlink = @ + n], i)

-----------------------------------------------------------------------------
NoCall == [op |-> "none", kind |-> "file", rest |-> <<>>, parent |-> FALSE,
           ip |-> 0, held |-> 0, new |-> [abs |-> FALSE, names |-> <<>>]]

(* mkfs.c numbers inodes and blocks as it goes, and writes the bitmap last *)
Blank == [di |-> [i \in Inums |-> Fresh("free")], freeinode |-> Root, freeblock |-> 1]
MkfsIalloc(g, type) == [g EXCEPT !.di[g.freeinode] = [Fresh(type) EXCEPT !.nlink = 1], !.freeinode = @ + 1]

(* data that ends in the first block of inode i *)
MkfsIappend(g, i) == IF g.di[i].blk # {} THEN g
                     ELSE [g EXCEPT !.di[i].blk = {g.freeblock}, !.freeblock = @ + 1]
MkfsEntry(g, n, i) == [MkfsIappend(g, Root) EXCEPT !.di[Root].ents[n] = i]
MkfsBitmap(g) == 1..(g.freeblock - 1)

(* the root, and the file a *)
Image == LET root == MkfsEntry(MkfsEntry(MkfsIalloc(Blank, "dir"), ".", Root), "..", Root)
             inum == root.freeinode
         IN  MkfsIappend(MkfsEntry(MkfsIalloc(root, "file"), "a", inum), inum)

(* and a directory d that an earlier mkdir made *)
Populated ==
  LET d == Image.freeinode
      root == [Image.di[Root] EXCEPT !.ents["d"] = d, !.nlink = @ + 1]
      sub == [type |-> "dir", nlink |-> 1, blk |-> {Image.freeblock},
              ents |-> [NoEnts EXCEPT !["."] = d, ![".."] = Root]]
  IN  [Image EXCEPT !.di = [@ EXCEPT ![Root] = root, ![d] = sub], !.freeblock = @ + 1]

Init ==
  /\ k = [di |-> Populated.di, ic |-> Populated.di, used |-> MkfsBitmap(Populated),
          ref |-> [i \in Inums |-> IF i = Root THEN Cardinality(Procs) ELSE 0],
          valid |-> [i \in Inums |-> i = Root],
          lock |-> [i \in Inums |-> None], panic |-> "no"]
  /\ pc = [p \in Procs |-> "idle"]
  /\ c = [p \in Procs |-> NoCall]
  /\ puts = [p \in Procs |-> <<>>]
  /\ stage = [p \in Procs |-> "lock"]
  /\ cwd = [p \in Procs |-> Root]
  /\ fd = [p \in Procs |-> 0]
  /\ left = MaxCalls

(* p goes on at l with kernel state s and call r, after it has put the inodes in q *)
Goto(p, s, l, r, q) ==
  /\ k' = s
  /\ pc' = [pc EXCEPT ![p] = l]
  /\ c' = [c EXCEPT ![p] = r]
  /\ puts' = [puts EXCEPT ![p] = q]
  /\ UNCHANGED stage

At(p, l) == pc[p] = l /\ puts[p] = <<>> /\ k.panic = "no"
Free(i) == k.lock[i] = None
Return(p, s, q) == Goto(p, s, "idle", NoCall, q)
Rest == UNCHANGED <<cwd, fd, left>>

-----------------------------------------------------------------------------
(* iput of the first inode in puts: take the lock; without links and with  *)
(* the last reference truncate and then free; drop the reference.          *)
LastRefMutant(s, i) == s.valid[i] /\ s.ic[i].nlink = 0
LinkedMutant(s, i) == s.valid[i] /\ s.ref[i] = 1
LastRef(s, i) == s.valid[i] /\ s.ic[i].nlink = 0 /\ s.ref[i] = 1

Stage(p, from, to) ==
  /\ puts[p] # <<>> /\ k.panic = "no"
  /\ stage[p] = from
  /\ stage' = [stage EXCEPT ![p] = to]
  /\ UNCHANGED <<pc, c>> /\ Rest

IputKeep(p) ==
  /\ Stage(p, "lock", "drop")
  /\ Free(Head(puts[p])) /\ ~LastRef(k, Head(puts[p]))
  /\ UNCHANGED <<k, puts>>

IputTrunc(p) ==
  /\ Stage(p, "lock", "free")
  /\ LET i == Head(puts[p]) IN
       /\ Free(i) /\ LastRef(k, i)
       /\ k' = itrunc([k EXCEPT !.lock[i] = p], i)
  /\ UNCHANGED puts

IputFree(p) ==
  /\ Stage(p, "free", "drop")
  /\ LET i == Head(puts[p])
         s == iupdate([k EXCEPT !.ic[i].type = "free"], i)
     IN  k' = iunlock([s EXCEPT !.valid[i] = FALSE], i)
  /\ UNCHANGED puts

IputDrop(p) ==
  /\ Stage(p, "drop", "lock")
  /\ k' = [k EXCEPT !.ref[Head(puts[p])] = @ - 1]
  /\ puts' = [puts EXCEPT ![p] = Tail(@)]

-----------------------------------------------------------------------------
(* A call starts to walk its path, from the root or the current directory. *)
Start(s, p, path) == IF path.abs THEN iget(s, Root) ELSE idup(s, cwd[p])
From(p, path) == IF path.abs THEN Root ELSE cwd[p]

Call(p) ==
  /\ At(p, "idle") /\ left > 0
  /\ left' = left - 1
  /\ \E call \in Calls :
       Goto(p, Start(k, p, call.path), "walk",
            [NoCall EXCEPT !.op = call.op, !.kind = call.kind, !.new = call.new,
                           !.ip = From(p, call.path), !.rest = call.path.names,
                           !.parent = call.op \in {"create", "unlink"}],
            <<>>)
  /\ UNCHANGED <<cwd, fd>>

(* the next element of a path, and what is left of it *)
skipelem(path) == [name |-> Head(path), path |-> Tail(path)]

(* namex returns 0: the call fails, and link takes its count back *)
NoInode(p, s, q) ==
  IF c[p].op = "link2" THEN Goto(p, s, "linkbad", [c[p] EXCEPT !.ip = 0], q)
                       ELSE Return(p, s, q)

(* one turn of namex's loop, and its end *)
NamexTurn(p) ==
  /\ At(p, "walk") /\ c[p].rest # <<>> /\ Free(c[p].ip)
  /\ LET ip == c[p].ip
         l == ilock(k, p, ip)
         e == skipelem(c[p].rest)
         last == c[p].parent /\ e.path = <<>>
         next == dirlookup(l, ip, e.name)
     IN  IF l.ic[ip].type # "dir" \/ (~last /\ next = 0)
           THEN NoInode(p, iunlock(l, ip), <<ip>>)
         ELSE IF last
           THEN Goto(p, iunlock(l, ip), c[p].op, c[p], <<>>)
           ELSE Goto(p, iunlock(iget(l, next), ip), "walk",
                     [c[p] EXCEPT !.ip = next, !.rest = e.path], <<ip>>)
  /\ Rest

NamexEnd(p) ==
  /\ At(p, "walk") /\ c[p].rest = <<>>
  /\ IF c[p].parent THEN NoInode(p, k, <<c[p].ip>>)
                    ELSE Goto(p, k, c[p].op, c[p], <<>>)
  /\ Rest

-----------------------------------------------------------------------------
(* create: dp is c.ip and the inode made or found is c.held *)
CreateLookup(p) ==
  /\ At(p, "create") /\ Free(c[p].ip)
  /\ LET dp == c[p].ip
         l == ilock(k, p, dp)
         ip == dirlookup(l, dp, Head(c[p].rest))
         s == ialloc(l, c[p].kind)
     IN  IF ip # 0
           THEN Goto(p, iunlock(iget(l, ip), dp), "exists",
                     [c[p] EXCEPT !.held = ip, !.ip = 0], <<dp>>)
         ELSE IF FreeInodes(l) = {}
           THEN Goto(p, s, "idle", c[p], <<>>)
           ELSE Goto(p, s, "ialloc", [c[p] EXCEPT !.held = Min(FreeInodes(l))], <<>>)
  /\ Rest

CreateExists(p) ==
  /\ At(p, "exists") /\ Free(c[p].held)
  /\ LET ip == c[p].held
         l == ilock(k, p, ip)
     IN  IF c[p].kind = "file" /\ l.ic[ip].type = "file"
           THEN Goto(p, l, "opened", c[p], <<>>)
           ELSE Return(p, iunlock(l, ip), <<ip>>)
  /\ Rest

Dots(s, ip, dp) ==
  WriteEntry(WriteEntry(AddLinks(s, dp, 1), ip, ".", ip), ip, "..", dp)

CreateLink(p) ==
  /\ At(p, "ialloc") /\ Free(c[p].held)
  /\ LET dp == c[p].ip
         ip == c[p].held
         l == AddLinks(ilock(k, p, ip), ip, 1)
         m == IF c[p].kind = "dir" THEN Dots(l, ip, dp) ELSE l
         s == WriteEntry(m, dp, Head(c[p].rest), ip)
     IN  Goto(p, iunlock(s, dp), "opened", [c[p] EXCEPT !.ip = 0], <<dp>>)
  /\ Rest

(* open without O_CREATE: a directory only for reading *)
Open(p) ==
  /\ At(p, "open") /\ Free(c[p].ip)
  /\ LET ip == c[p].ip
         l == ilock(k, p, ip)
     IN  IF l.ic[ip].type = "dir" /\ c[p].kind # "read"
           THEN Return(p, iunlock(l, ip), <<ip>>)
           ELSE Goto(p, l, "opened", [c[p] EXCEPT !.held = ip, !.ip = 0], <<>>)
  /\ Rest

(* the locked inode becomes the open file, if a descriptor is free; mkdir  *)
(* and mknod give it back                                                  *)
Opened(p) ==
  /\ At(p, "opened")
  /\ LET ip == c[p].held
         opens == c[p].kind \notin {"dir", "dev"} /\ fd[p] = 0
     IN  /\ Return(p, iunlock(k, ip), IF opens THEN <<>> ELSE <<ip>>)
         /\ fd' = [fd EXCEPT ![p] = IF opens THEN ip ELSE @]
  /\ UNCHANGED <<cwd, left>>

(* write appends a block to the open file, close puts its inode *)
Write(p) ==
  /\ At(p, "idle") /\ left > 0 /\ fd[p] # 0
  /\ Free(fd[p]) /\ k.di[fd[p]].type = "file"
  /\ Cardinality(k.di[fd[p]].blk) < MaxBlocks
  /\ Return(p, iunlock(iupdate(bmap(ilock(k, p, fd[p]), fd[p]), fd[p]), fd[p]), <<>>)
  /\ left' = left - 1
  /\ UNCHANGED <<cwd, fd>>

Close(p) ==
  /\ At(p, "idle") /\ fd[p] # 0
  /\ Return(p, k, <<fd[p]>>)
  /\ fd' = [fd EXCEPT ![p] = 0]
  /\ UNCHANGED <<cwd, left>>

Chdir(p) ==
  /\ At(p, "chdir") /\ Free(c[p].ip)
  /\ LET ip == c[p].ip
         l == iunlock(ilock(k, p, ip), ip)
         ok == l.ic[ip].type = "dir"
     IN  /\ Return(p, l, IF ok THEN <<cwd[p]>> ELSE <<ip>>)
         /\ cwd' = [cwd EXCEPT ![p] = IF ok THEN ip ELSE @]
  /\ UNCHANGED <<fd, left>>

-----------------------------------------------------------------------------
(* unlink: dp is c.ip, the entry's inode is c.held *)
UnlinkLookup(p) ==
  /\ At(p, "unlink") /\ Free(c[p].ip)
  /\ LET dp == c[p].ip
         l == ilock(k, p, dp)
         n == Head(c[p].rest)
         ip == dirlookup(l, dp, n)
     IN  IF n \in {".", ".."} \/ ip = 0
           THEN Return(p, iunlock(l, dp), <<dp>>)
           ELSE Goto(p, iget(l, ip), "erase", [c[p] EXCEPT !.held = ip], <<>>)
  /\ Rest

UnlinkErase(p) ==
  /\ At(p, "erase") /\ Free(c[p].held)
  /\ LET dp == c[p].ip
         ip == c[p].held
         l == ilock(k, p, ip)
         e == WriteEntry(l, dp, Head(c[p].rest), 0)
         s == IF l.ic[ip].type = "dir" THEN AddLinks(e, dp, -1) ELSE e
     IN  IF l.ic[ip].nlink < 1
           THEN Goto(p, Panic(l, "unlink: nlink < 1"), "idle", c[p], <<>>)
         ELSE IF l.ic[ip].type = "dir" /\ ~isdirempty(l, ip)
           THEN Goto(p, iunlock(l, ip), "unlockdp", [c[p] EXCEPT !.held = 0], <<ip>>)
           ELSE Goto(p, iunlock(s, dp), "erased", [c[p] EXCEPT !.ip = 0], <<dp>>)
  /\ Rest

UnlinkDone(p) ==
  /\ At(p, "erased")
  /\ Return(p, iunlock(AddLinks(k, c[p].held, -1), c[p].held), <<c[p].held>>)
  /\ Rest

(* the failing ends of unlink and link: dp is unlocked and put *)
UnlockParent(p) ==
  /\ At(p, "unlockdp")
  /\ IF c[p].op = "link2"
       THEN Goto(p, iunlock(k, c[p].ip), "linkbad", [c[p] EXCEPT !.ip = 0], <<c[p].ip>>)
       ELSE Return(p, iunlock(k, c[p].ip), <<c[p].ip>>)
  /\ Rest

(* link counts the link before it walks the new path *)
CountedMutant(s, ip) == AddLinks(s, ip, 1)
Counted(s, ip) == iunlock(AddLinks(s, ip, 1), ip)

LinkCount(p) ==
  /\ At(p, "link") /\ Free(c[p].ip)
  /\ LET ip == c[p].ip
         l == ilock(k, p, ip)
     IN  IF l.ic[ip].type = "dir"
           THEN Return(p, iunlock(l, ip), <<ip>>)
           ELSE Goto(p, Start(Counted(l, ip), p, c[p].new), "walk",
                     [c[p] EXCEPT !.op = "link2", !.held = ip, !.parent = TRUE,
                                  !.ip = From(p, c[p].new), !.rest = c[p].new.names], <<>>)
  /\ Rest

(* dirlink refuses a name that exists, whose inode it got and puts *)
LinkEntry(p) ==
  /\ At(p, "link2") /\ Free(c[p].ip)
  /\ LET dp == c[p].ip
         l == ilock(k, p, dp)
         n == Head(c[p].rest)
         old == dirlookup(l, dp, n)
     IN  IF old # 0
           THEN Goto(p, iget(l, old), "unlockdp", c[p], <<old>>)
           ELSE Return(p, iunlock(WriteEntry(l, dp, n, c[p].held), dp), <<dp, c[p].held>>)
  /\ Rest

LinkBad(p) ==
  /\ At(p, "linkbad") /\ Free(c[p].held)
  /\ LET ip == c[p].held
     IN  Return(p, iunlock(AddLinks(ilock(k, p, ip), ip, -1), ip), <<ip>>)
  /\ Rest

Next ==
  \E p \in Procs :
    \/ IputKeep(p) \/ IputTrunc(p) \/ IputFree(p) \/ IputDrop(p)
    \/ Call(p) \/ NamexTurn(p) \/ NamexEnd(p)
    \/ CreateLookup(p) \/ CreateExists(p) \/ CreateLink(p)
    \/ Open(p) \/ Opened(p) \/ Write(p) \/ Close(p) \/ Chdir(p)
    \/ UnlinkLookup(p) \/ UnlinkErase(p) \/ UnlinkDone(p) \/ UnlockParent(p)
    \/ LinkCount(p) \/ LinkEntry(p) \/ LinkBad(p)

Spec == Init /\ [][Next]_vars

-----------------------------------------------------------------------------
Inode == [type : Types, nlink : Int, ents : [AllNames -> 0..NINODES], blk : SUBSET (1..NBLOCK)]
Panics == {"no", "balloc: out of blocks", "freeing free block", "iget: no inodes",
           "ialloc: no inodes", "ilock: no type", "unlink: nlink < 1"}
Kernel == [di : [Inums -> Inode], ic : [Inums -> Inode], used : SUBSET (1..NBLOCK),
           ref : [Inums -> Nat], valid : [Inums -> BOOLEAN],
           lock : [Inums -> Procs \cup {None}],
           panic : Panics]

Elems == UNION {Range(call.path.names) \cup Range(call.new.names) : call \in Calls}
Started == {"create", "open", "chdir", "unlink", "link", "link2"}   \* after the walk
InCall == [op : Started \cup {"none"}, kind : {"file", "dir", "dev", "read", "write"},
           rest : Seq(Elems), parent : BOOLEAN, ip : 0..NINODES, held : 0..NINODES,
           new : [abs : BOOLEAN, names : Seq(Elems)]]
Labels == Started \cup {"idle", "walk", "exists", "ialloc", "opened", "erase", "erased", "unlockdp", "linkbad"}

TypeOK ==
  /\ k \in Kernel
  /\ pc \in [Procs -> Labels] /\ c \in [Procs -> InCall]
  /\ puts \in [Procs -> Seq(Inums)] /\ stage \in [Procs -> {"lock", "free", "drop"}]
  /\ cwd \in [Procs -> Inums] /\ fd \in [Procs -> 0..NINODES]
  /\ left \in Nat

(* the pointers that process p has, 0 for none *)
Kinds == {"cwd", "fd", "ip", "held", "put1", "put2"}
Put(q, j) == IF j <= Len(q) THEN q[j] ELSE 0
Points(p, x) ==
  CASE x = "cwd" -> cwd[p]
    [] x = "fd" -> fd[p]
    [] x = "ip" -> c[p].ip
    [] x = "held" -> c[p].held
    [] x = "put1" -> Put(puts[p], 1)
    [] x = "put2" -> Put(puts[p], 2)

RefsExact ==
  \A i \in Inums : k.ref[i] = Cardinality({x \in Procs \X Kinds : Points(x[1], x[2]) = i})

WriteThrough(s) == \A i \in Inums : s.valid[i] /\ s.ref[i] > 0 => s.ic[i] = s.di[i]

(* The bitmap marks the blocks of the inodes and no others, and no block   *)
(* belongs to two: balloc and itrunc keep bitmap and addresses together.   *)
BlocksExact(s) ==
  /\ s.used = UNION {s.di[i].blk : i \in Inums}
  /\ \A i, j \in Inums : i # j => s.di[i].blk \cap s.di[j].blk = {}

(* a free inode is blank and not cached, a locked one is in use and loaded *)
InodesUsed(s) == \A i \in Inums :
  /\ s.di[i].type = "free" => s.di[i] = Fresh("free") /\ (s.valid[i] => s.ref[i] = 0)
  /\ s.di[i].type # "dir" => s.di[i].ents = NoEnts
  /\ s.lock[i] # None => s.valid[i] /\ s.ref[i] > 0

(* cache, bitmap and inodes agree, and the root stays a directory *)
Sound(s) == WriteThrough(s) /\ BlocksExact(s) /\ InodesUsed(s) /\ s.di[Root].type = "dir"

(* What a process has at each place of a call: it refers to a directory    *)
(* by ip, to the inode made, found or linked by held.                      *)
InParent == {"create", "unlink", "link2", "ialloc", "erase"}
HasIp(p) == pc[p] \in InParent \cup {"walk", "open", "chdir", "link", "unlockdp"}
HasHeld(p) == pc[p] \in {"exists", "ialloc", "opened", "erase", "erased", "linkbad"} \/ c[p].op = "link2"
Place(p) ==
  /\ c[p].ip # 0 <=> HasIp(p)
  /\ c[p].held # 0 <=> HasHeld(p)
  /\ Len(puts[p]) <= 2
  /\ stage[p] # "lock" => puts[p] # <<>>
  /\ pc[p] \in {"ialloc", "erase"} => puts[p] = <<>>
  /\ pc[p] = "idle" => c[p] = NoCall
  /\ pc[p] \in Started => c[p].op = pc[p]
  /\ c[p].op = "link2" => pc[p] \in {"walk", "link2", "unlockdp", "linkbad"}
  /\ pc[p] = "linkbad" => c[p].op = "link2"
  /\ pc[p] = "walk" => c[p].op # "none" /\ (c[p].parent <=> c[p].op \in InParent)
  /\ pc[p] \in InParent => c[p].rest # <<>>
  /\ c[p].op = "create" => c[p].kind \in {"file", "dir", "dev"}

Locked(p) == {i \in Inums : \/ pc[p] \in {"ialloc", "erase", "unlockdp"} /\ i = c[p].ip
                            \/ pc[p] \in {"opened", "erased"} /\ i = c[p].held
                            \/ stage[p] = "free" /\ i = Head(puts[p])}
Locks == \A i \in Inums, p \in Procs : k.lock[i] = p <=> i \in Locked(p)

(* What it relies on, as long as it has the lock or a reference. *)
Knows(p) ==
  /\ pc[p] \in InParent => k.di[c[p].ip].type = "dir"
  /\ pc[p] = "ialloc" => /\ c[p].op = "create" /\ k.di[c[p].held].type = c[p].kind
                         /\ k.di[c[p].ip].ents[Head(c[p].rest)] = 0
  /\ pc[p] = "erase" => /\ Head(c[p].rest) \in Names
                        /\ k.di[c[p].ip].ents[Head(c[p].rest)] = c[p].held
  /\ pc[p] = "unlockdp" => /\ c[p].rest # <<>>
                           /\ puts[p] \in {<<>>, <<k.di[c[p].ip].ents[Head(c[p].rest)]>>}
  /\ c[p].op = "link2" => k.di[c[p].held].type # "dir"
  /\ stage[p] = "free" => LET n == k.di[Head(puts[p])] IN n.nlink = 0 /\ n.blk = {} /\ n.ents = NoEnts

(* A path that climbs may find an inode that is free.  A pointer is sure   *)
(* if that was ruled out, and an inode with a sure pointer is not freed;   *)
(* if no path climbs the only pointers that are not sure are those that    *)
(* iput is about to drop.                                                  *)
Climbs == ".." \in Elems
Sure(p, x) ==
  \/ x \in {"cwd", "fd"}
  \/ x = "held" /\ pc[p] # "exists"
  \/ x = "ip" /\ pc[p] \in InParent \cup {"unlockdp"}
  \/ ~Climbs /\ ~(x = "put1" /\ stage[p] = "drop")
Kept(p, x, i) ==
  /\ k.di[i].type # "free"
  /\ \A q \in Procs : stage[q] = "free" /\ Head(puts[q]) = i => q = p /\ x = "put1"
  /\ ~Climbs => \A q \in Procs : pc[q] = "ialloc" /\ c[q].held = i => q = p /\ x = "held"
SurePointers ==
  \A p \in Procs, x \in Kinds : Sure(p, x) /\ Points(p, x) # 0 => Kept(p, x, Points(p, x))

(* An inode has a link for each of its names, for the ".." of each of its  *)
(* subdirectories, for each call between the change of its entries and     *)
(* that of its count, and the root one more.                               *)
NamesOf(i) == {y \in Inums \X Names : k.di[y[1]].ents[y[2]] = i}
SubdirsOf(i) == {n \in Names : \E j \in Inums : k.di[i].ents[n] = j /\ k.di[j].type = "dir"}
CallsOn(i) == {p \in Procs : (c[p].op = "link2" \/ pc[p] = "erased") /\ c[p].held = i}
LinksEnough == \A i \in Inums :
  k.di[i].nlink >= Cardinality(NamesOf(i)) + Cardinality(SubdirsOf(i)) + Cardinality(CallsOn(i))
                   + (IF i = Root THEN 1 ELSE 0)

(* If no path climbs: "." and ".." are right in every directory that is    *)
(* not just being made or freed, and directories make no cycle.            *)
DotsRight ==
  /\ \A p \in Procs : pc[p] = "ialloc" => k.di[c[p].held] = Fresh(c[p].kind)
  /\ \A i \in Inums : k.di[i].type = "dir" =>
       \/ k.di[i].ents["."] = i
       \/ \E p \in Procs : \/ pc[p] = "ialloc" /\ c[p].held = i
                           \/ stage[p] = "free" /\ Head(puts[p]) = i
  /\ \A d, i \in Inums, n \in Names : k.di[d].ents[n] = i /\ k.di[i].type = "dir" => k.di[i].ents[".."] = d
  /\ k.di[Root].ents[".."] = Root
NoCycle == \A S \in SUBSET Inums : S # {} => \E d \in S : \A n \in Names : k.di[d].ents[n] \notin S

(* Besides the types: ref of a cached inode is the number of pointers that *)
(* the processes have to it, on every success and failure path of the      *)
(* calls; the cache is write-through, as iupdate's comment asks: a valid   *)
(* cached inode is what the disk has; the bitmap is exact; no inode has    *)
(* too few links; and what makes these inductive.                          *)
IInv ==
  /\ TypeOK
  /\ k.panic = "no" => /\ RefsExact /\ Sound(k) /\ LinksEnough
                       /\ Locks /\ SurePointers
                       /\ \A p \in Procs : Place(p) /\ Knows(p)
                       /\ ~Climbs => DotsRight /\ NoCycle

(* directories that a path from the root leads to, and entries in them *)
Dirs == {i \in Inums : k.di[i].type = "dir"}
Subdirs(D) == {i \in Dirs : \E d \in D, n \in Names : k.di[d].ents[n] = i}
Linked == {i \in Dirs : \A D \in SUBSET Dirs : Root \in D /\ Subdirs(D) \subseteq D => i \in D}
Entries(D, i) == {y \in D \X (AllNames \ {"."}) : k.di[y[1]].ents[y[2]] = i}

(* What the root leads to is a tree: its entries name allocated inodes, a  *)
(* directory's ".." is where it is found, and no inode has fewer links than*)
(* entries, so none of them can be freed.  create, link and unlink change  *)
(* counts and entries in steps between which others look.  (In the step in *)
(* which a kernel panics the operators above run on: nobody looks at that.)*)
TreeSound == k.panic = "no" =>
  LET D == Linked IN
  /\ \A d \in D : k.di[d].ents["."] = d
  /\ \A d \in D, n \in Names :
       LET i == k.di[d].ents[n] IN
       i # 0 => /\ k.di[i].type # "free"
                /\ k.di[i].type = "dir" => k.di[i].ents[".."] = d
  /\ \A i \in Inums : k.di[i].nlink >= Cardinality(Entries(D, i))

(* No process is left with an inode that iput freed (ilock would panic, or *)
(* find another file), no count falls below 1 before it is taken down, and *)
(* no block is freed twice: iput's test of nlink and ref is enough even    *)
(* though it lets go of icache.lock before it frees, as long as paths do   *)
(* not climb out of a removed directory through "..".                      *)
NoPanic == k.panic \notin {"ilock: no type", "unlink: nlink < 1", "freeing free block"}

(* the inode whose lock p waits for, 0 for none *)
WaitsFor(p) ==
  IF k.panic # "no" THEN 0
  ELSE IF puts[p] # <<>> THEN IF stage[p] = "lock" THEN Head(puts[p]) ELSE 0
  ELSE CASE pc[p] = "walk" -> IF c[p].rest = <<>> THEN 0 ELSE c[p].ip
         [] pc[p] \in {"create", "open", "chdir", "unlink", "link", "link2"} -> c[p].ip
         [] pc[p] \in {"exists", "ialloc", "erase", "linkbad"} -> c[p].held
         [] OTHER -> 0
Blocked(p) == WaitsFor(p) # 0 /\ ~Free(WaitsFor(p))
Deadlocked(P) == \A p \in P : Blocked(p) /\ k.lock[WaitsFor(p)] \in P

(* p is in iput, which takes an inode's lock, for the directory in which   *)
(* create or unlink has just written, with the inode of the entry locked;  *)
(* or for a directory that it has locked itself, where link was to make    *)
(* the entry ".".                                                          *)
PutsUp(p) ==
  /\ puts[p] # <<>>
  /\ pc[p] \in {"opened", "erased"} \/ (pc[p] = "unlockdp" /\ Head(c[p].rest) = ".")

(* Processes that wait for each other's inode locks: one of them puts a    *)
(* directory with an inode below it locked, or one it has locked itself.   *)
(* Every other wait, in ilock or in another iput, is for an inode below    *)
(* the one locked, or with none locked.                                    *)
OnlyIputDeadlocks ==
  \A P \in (SUBSET Procs) \ {{}} : Deadlocked(P) => \E p \in P : PutsUp(p)

(* No processes wait for each other's inode locks: create and unlink of    *)
(* one file, which linkunlink of usertests runs against each other.        *)
NoDeadlock == \A P \in (SUBSET Procs) \ {{}} : ~Deadlocked(P)

(* "If that was the last reference and the inode has no links to it, free  *)
(* the inode", fs.c of iput: an inode in use has a reference or a link.    *)
FreedWhenUnused ==
  \A i \in Inums : k.ref[i] = 0 /\ k.di[i].nlink = 0 => k.di[i].type = "free"
=============================================================================
