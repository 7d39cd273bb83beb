-------------------------------- MODULE File --------------------------------
(***************************************************************************)
(* The xv6 file layer: file.c, the system calls of sysfile.c on open files *)
(* and pipealloc.  The table of open files is shared by all processes,     *)
(* each of which has its own descriptors.  A process executes its call in  *)
(* steps, one for each stretch of code under a lock; its own descriptors   *)
(* are visible to nobody else.  Inodes are their reference count, lock and *)
(* size; the data in pipes are in Pipe, transactions in Log.               *)
(***************************************************************************)
EXTENDS Integers, Sequences, FiniteSets, FiniteSetsExt, Functions

CONSTANTS Procs, NFILE, NOFILE, Inodes, Pipes,
          Dirs,      \* the inodes that are directories
          Lengths,   \* the lengths asked for in read() and write()
          Chunk,     \* filewrite's max
          MaxSize,   \* MAXFILE * BSIZE
          MaxCalls,  \* bound: system calls made
          None

ASSUME FileAssumption == /\ NFILE \in Nat /\ NOFILE \in Nat /\ Dirs \subseteq Inodes
                         /\ Lengths \subseteq Nat /\ Chunk \in Nat \ {0} /\ MaxSize \in Nat \ {0}
ASSUME ProcsAssumption == IsFiniteSet(Procs) /\ Procs # {}
ASSUME NoneAssumption == None \notin Procs \cup Inodes \cup Pipes \cup 1..NFILE

Files == 1..NFILE
Fds == 0..(NOFILE - 1)

VARIABLES file,     \* ftable.file; obj stands for the fields ip and pipe
          ofile,    \* the descriptors of each process
          live,     \* the processes that exist
          iref, ilk, size,   \* of each inode: ref, holder of its lock, size
          pipe,     \* of each pipe: its open ends, none if it is not allocated
          pc, ret,  \* where a process is, and where it goes on after fileclose
          own,      \* the files a process has references to outside its descriptors
          ff,       \* fileclose's copy of a file whose last reference it dropped
          hip,      \* the inode that sys_open has a reference to
          io,       \* the read or write in progress: f, n, i, r and a loaded counter
          got, put, \* history: positions read and written since a file was opened
          calls, panicked

table == <<file, ofile, live>>
inodes == <<iref, ilk, size>>
call == <<pc, ret, own, ff, hip, io>>
history == <<got, put>>
vars == <<table, inodes, pipe, call, history, calls, panicked>>

NoFF == [type |-> "NONE", obj |-> None, writable |-> FALSE]
NoIO == [f |-> None, n |-> 0, i |-> 0, r |-> 0]

Init == /\ file = [f \in Files |-> [type |-> "NONE", ref |-> 0, obj |-> None, off |-> 0,
                                    readable |-> FALSE, writable |-> FALSE,
                                    read_bytes |-> 0, write_bytes |-> 0]]
        /\ ofile = [p \in Procs |-> [d \in Fds |-> None]]
        /\ live = {CHOOSE p \in Procs : TRUE}
        /\ iref = [ip \in Inodes |-> 0] /\ ilk = [ip \in Inodes |-> None]
        /\ size = [ip \in Inodes |-> 1]
        /\ pipe = [q \in Pipes |-> {}]
        /\ pc = [p \in Procs |-> "user"] /\ ret = [p \in Procs |-> "user"]
        /\ own = [p \in Procs |-> <<>>]
        /\ ff = [p \in Procs |-> NoFF]
        /\ hip = [p \in Procs |-> None]
        /\ io = [p \in Procs |-> NoIO]
        /\ got = [f \in Files |-> {}] /\ put = [f \in Files |-> {}]
        /\ calls = 0 /\ panicked = FALSE

Goto(p, label) == pc' = [pc EXCEPT ![p] = label]
AtUser(p) == p \in live /\ pc[p] = "user"

-----------------------------------------------------------------------------
Unreferenced == {f \in Files : file[f].ref = 0}

(* filealloc: the first file nobody has a reference to. *)
filealloc(p) == LET f == Min(Unreferenced)
                IN  /\ Unreferenced # {}
                    /\ file' = [file EXCEPT ![f].ref = 1]
                    /\ own' = [own EXCEPT ![p] = Append(@, f)]

(* fdalloc takes the first free descriptors. *)
FreeFds(p) == {d \in Fds : ofile[p][d] = None}

Freed(rec) == [rec EXCEPT !.ref = 0, !.type = "NONE"]

(* fileclose, under ftable.lock: drop the reference; the last one frees the file. *)
FileClose(p) == /\ pc[p] = "fileclose" /\ own[p] # <<>>
                /\ LET f == Head(own[p])
                   IN  IF file[f].ref > 1
                       THEN /\ file' = [file EXCEPT ![f].ref = @ - 1]
                            /\ UNCHANGED <<ff, pc>>
                       ELSE /\ ff' = [ff EXCEPT ![p] = [type |-> file[f].type, obj |-> file[f].obj,
                                                        writable |-> file[f].writable]]
                            /\ file' = [file EXCEPT ![f] = Freed(@)]
                            /\ Goto(p, "drop")
                /\ own' = [own EXCEPT ![p] = Tail(@)]
                /\ UNCHANGED <<ofile, live, inodes, pipe, ret, hip, io, history, panicked>>

iput(ip) == [iref EXCEPT ![ip] = @ - 1]

(* The lock is not waited for. *)
ilockMutant(ip) == TRUE

ilock(ip) == ilk[ip] = None

(* fileclose, unlocked: what the file was of is given up: pipeclose or iput. *)
Drop(p) == /\ pc[p] = "drop"
           /\ pipe' = IF ff[p].type # "PIPE" THEN pipe
                      ELSE [pipe EXCEPT ![ff[p].obj] = @ \ {IF ff[p].writable THEN "w" ELSE "r"}]
           /\ iref' = IF ff[p].type # "INODE" THEN iref
                      ELSE iput(ff[p].obj)
           /\ ff' = [ff EXCEPT ![p] = NoFF]
           /\ Goto(p, "fileclose")
           /\ UNCHANGED <<table, ilk, size, ret, own, hip, io, history, panicked>>

(* The call goes on, or returns, once it has closed what it had to close. *)
Closed(p) == /\ pc[p] = "fileclose" /\ own[p] = <<>>
             /\ Goto(p, ret[p])
             /\ UNCHANGED <<table, inodes, pipe, ret, own, ff, hip, io, history, panicked>>

CloseOwn(p, label) == /\ Goto(p, "fileclose")
                      /\ ret' = [ret EXCEPT ![p] = label]

-----------------------------------------------------------------------------
(* sys_open: namei or create has found the inode. *)
OpenLookup(p, ip) == /\ AtUser(p)
                     /\ iref' = [iref EXCEPT ![ip] = @ + 1]
                     /\ hip' = [hip EXCEPT ![p] = ip]
                     /\ Goto(p, "openlock")
                     /\ UNCHANGED <<table, ilk, size, pipe, ret, own, ff, io, history, panicked>>

(* sys_open: a directory may be opened for reading only: iunlockput. *)
OpenLock(p) == /\ pc[p] = "openlock" /\ ilock(hip[p])
               /\ \/ /\ ilk' = [ilk EXCEPT ![hip[p]] = p]
                     /\ Goto(p, "openalloc")
                     /\ UNCHANGED <<iref, hip>>
                  \/ /\ hip[p] \in Dirs
                     /\ iref' = iput(hip[p])
                     /\ hip' = [hip EXCEPT ![p] = None]
                     /\ Goto(p, "user")
                     /\ UNCHANGED ilk
               /\ UNCHANGED <<table, size, pipe, ret, own, ff, io, history, panicked>>

OpenAlloc(p) == /\ pc[p] = "openalloc"
                /\ \/ filealloc(p) /\ Goto(p, "openfd")
                   \/ Unreferenced = {} /\ Goto(p, "openfail") /\ UNCHANGED <<file, own>>
                /\ UNCHANGED <<ofile, live, inodes, pipe, ret, ff, hip, io, history, panicked>>

(* fdalloc, which takes over the reference; then iunlock. *)
OpenFd(p) == /\ pc[p] = "openfd"
             /\ \/ /\ FreeFds(p) # {}
                   /\ ofile' = [ofile EXCEPT ![p][Min(FreeFds(p))] = Head(own[p])]
                   /\ own' = [own EXCEPT ![p] = <<>>]
                   /\ io' = [io EXCEPT ![p].f = Head(own[p])]
                   /\ ilk' = [ilk EXCEPT ![hip[p]] = None]
                   /\ Goto(p, "openinit")
                   /\ UNCHANGED ret
                \/ /\ FreeFds(p) = {}
                   /\ CloseOwn(p, "openfail")
                   /\ UNCHANGED <<ofile, own, io, ilk>>
             /\ UNCHANGED <<file, live, iref, size, pipe, ff, hip, history, panicked>>

(* iunlockput, and -1. *)
OpenFail(p) == /\ pc[p] = "openfail"
               /\ ilk' = [ilk EXCEPT ![hip[p]] = None]
               /\ iref' = iput(hip[p])
               /\ hip' = [hip EXCEPT ![p] = None]
               /\ Goto(p, "user")
               /\ UNCHANGED <<table, size, pipe, ret, own, ff, io, history, panicked>>

(* The file is filled in; its counters are those of its last use. *)
OpenInit(p, readable, writable) ==
    /\ pc[p] = "openinit"
    /\ hip[p] \in Dirs => ~writable
    /\ LET f == io[p].f
       IN  /\ file' = [file EXCEPT ![f].type = "INODE", ![f].obj = hip[p], ![f].off = 0,
                                   ![f].readable = readable, ![f].writable = writable]
           /\ got' = [got EXCEPT ![f] = {}]
           /\ put' = [put EXCEPT ![f] = {}]
    /\ hip' = [hip EXCEPT ![p] = None]
    /\ io' = [io EXCEPT ![p] = NoIO]
    /\ Goto(p, "user")
    /\ UNCHANGED <<ofile, live, inodes, pipe, ret, own, ff, panicked>>

-----------------------------------------------------------------------------
(* sys_pipe: pipealloc allocates two files ... *)
PipeFile0(p) == /\ AtUser(p)
                /\ filealloc(p)
                /\ Goto(p, "pipefile1")
                /\ UNCHANGED <<ofile, live, inodes, pipe, ret, ff, hip, io, history, panicked>>

PipeFile1(p) == /\ pc[p] = "pipefile1"
                /\ \/ filealloc(p) /\ Goto(p, "pipekalloc") /\ UNCHANGED ret
                   \/ Unreferenced = {} /\ CloseOwn(p, "user") /\ UNCHANGED <<file, own>>
                /\ UNCHANGED <<ofile, live, inodes, pipe, ff, hip, io, history, panicked>>

(* ... and a page, if there is one. *)
PipeKalloc(p) ==
    /\ pc[p] = "pipekalloc"
    /\ \/ \E q \in Pipes :
            /\ pipe[q] = {}
            /\ pipe' = [pipe EXCEPT ![q] = {"r", "w"}]
            /\ file' = [f \in Files |->
                          IF f = own[p][1]
                          THEN [file[f] EXCEPT !.type = "PIPE", !.obj = q, !.readable = TRUE, !.writable = FALSE]
                          ELSE IF f = own[p][2]
                          THEN [file[f] EXCEPT !.type = "PIPE", !.obj = q, !.readable = FALSE, !.writable = TRUE]
                          ELSE file[f]]
            /\ Goto(p, "pipefd")
            /\ UNCHANGED ret
       \/ CloseOwn(p, "user") /\ UNCHANGED <<pipe, file>>
    /\ UNCHANGED <<ofile, live, inodes, own, ff, hip, io, history, panicked>>

NoPipeFds(p) == ofile[p]

(* sys_pipe: two descriptors, or none and both files are closed. *)
PipeFd(p) ==
    /\ pc[p] = "pipefd"
    /\ LET d == Min(FreeFds(p))
           e == Min(FreeFds(p) \ {d})
       IN  \/ /\ Cardinality(FreeFds(p)) >= 2
              /\ ofile' = [ofile EXCEPT ![p][d] = own[p][1], ![p][e] = own[p][2]]
              /\ own' = [own EXCEPT ![p] = <<>>]
              /\ Goto(p, "user")
              /\ UNCHANGED ret
           \/ /\ Cardinality(FreeFds(p)) < 2
              /\ ofile' = [ofile EXCEPT ![p] = NoPipeFds(p)]
              /\ CloseOwn(p, "user")
              /\ UNCHANGED own
    /\ UNCHANGED <<file, live, inodes, pipe, ff, hip, io, history, panicked>>

-----------------------------------------------------------------------------
(* sys_dup: fdalloc and filedup. *)
Dup(p, d) == /\ AtUser(p) /\ ofile[p][d] # None /\ FreeFds(p) # {}
             /\ ofile' = [ofile EXCEPT ![p][Min(FreeFds(p))] = ofile[p][d]]
             /\ file' = [file EXCEPT ![ofile[p][d]].ref = @ + 1]
             /\ UNCHANGED <<live, inodes, pipe, call, history, panicked>>

(* sys_close. *)
Close(p, d) == /\ AtUser(p) /\ ofile[p][d] # None
               /\ ofile' = [ofile EXCEPT ![p][d] = None]
               /\ own' = [own EXCEPT ![p] = <<ofile[p][d]>>]
               /\ CloseOwn(p, "user")
               /\ UNCHANGED <<file, live, inodes, pipe, ff, hip, io, history, panicked>>

(* A file that two of the descriptors share is counted once. *)
FileDupsMutant(p, f) == IF f \in Range(ofile[p]) THEN 1 ELSE 0

FileDups(p, f) == Cardinality({d \in Fds : ofile[p][d] = f})

(* fork: filedup of every descriptor; the parent's own keep the files open. *)
Fork(p, c) == /\ AtUser(p) /\ c \notin live
              /\ live' = live \cup {c}
              /\ ofile' = [ofile EXCEPT ![c] = ofile[p]]
              /\ file' = [f \in Files |-> [file[f] EXCEPT !.ref = @ + FileDups(p, f)]]
              /\ UNCHANGED <<inodes, pipe, call, history, panicked>>

(* exit: fileclose of every descriptor in turn. *)
Exit(p) == /\ AtUser(p)
           /\ Goto(p, "exit")
           /\ UNCHANGED <<table, inodes, pipe, ret, own, ff, hip, io, history, panicked>>

ExitClose(p) == /\ pc[p] = "exit"
                /\ LET open == Fds \ FreeFds(p)
                   IN  \/ /\ open # {}
                          /\ own' = [own EXCEPT ![p] = <<ofile[p][Min(open)]>>]
                          /\ ofile' = [ofile EXCEPT ![p][Min(open)] = None]
                          /\ CloseOwn(p, "exit")
                          /\ UNCHANGED live
                       \/ /\ open = {}
                          /\ live' = live \ {p}
                          /\ Goto(p, "user")
                          /\ UNCHANGED <<own, ofile, ret>>
                /\ UNCHANGED <<file, inodes, pipe, ff, hip, io, history, panicked>>

-----------------------------------------------------------------------------
(* fileread or filewrite is entered with a file open for it. *)
Call(p, d, n, label) == /\ AtUser(p) /\ ofile[p][d] # None
                        /\ io' = [io EXCEPT ![p] = [f |-> ofile[p][d], n |-> n, i |-> 0, r |-> 0]]
                        /\ Goto(p, label)

(* fileread of a pipe counts the n bytes asked for; the rest is in Pipe. *)
Read(p, d, n) == LET f == ofile[p][d]
                 IN  /\ Call(p, d, n, IF file[f].type = "INODE" THEN "readlock" ELSE "readcount")
                     /\ file[f].readable
                     /\ UNCHANGED <<table, inodes, pipe, ret, own, ff, hip, got, put, panicked>>

ReadCount(p) == /\ pc[p] = "readcount"
                /\ file' = [file EXCEPT ![io[p].f].read_bytes = @ + io[p].n]
                /\ io' = [io EXCEPT ![p] = NoIO]
                /\ Goto(p, "user")
                /\ UNCHANGED <<ofile, live, inodes, pipe, ret, own, ff, hip, history, panicked>>

(* The r bytes at the offset of f. *)
Span(f, r) == file[f].off..(file[f].off + r - 1)

(* readi, in ilock: at most to the end of the file. *)
ReadI(p) == LET f == io[p].f
                r == Min({io[p].n, size[file[f].obj] - file[f].off})
            IN  /\ pc[p] = "readlock" /\ ilock(file[f].obj)
                /\ ilk' = [ilk EXCEPT ![file[f].obj] = p]
                /\ io' = [io EXCEPT ![p].r = r]
                /\ got' = [got EXCEPT ![f] = @ \cup Span(f, r)]
                /\ Goto(p, "readdone")
                /\ UNCHANGED <<table, iref, size, pipe, ret, own, ff, hip, put, panicked>>

(* fileread: with nothing read it falls through to panic("fileread"). *)
ReadDone(p) == LET f == io[p].f
               IN  /\ pc[p] = "readdone"
                   /\ \/ /\ io[p].r > 0
                         /\ file' = [file EXCEPT ![f].off = @ + io[p].r, ![f].read_bytes = @ + io[p].n]
                         /\ ilk' = [ilk EXCEPT ![file[f].obj] = None]
                         /\ io' = [io EXCEPT ![p] = NoIO]
                         /\ Goto(p, "user")
                         /\ UNCHANGED panicked
                      \/ /\ io[p].r <= 0
                         /\ panicked' = TRUE
                         /\ UNCHANGED <<file, ilk, io, pc>>
                   /\ UNCHANGED <<ofile, live, iref, size, pipe, ret, own, ff, hip, history>>

(* filewrite: a pipe counts, an inode is written a few blocks at a time. *)
Write(p, d, n) == LET f == ofile[p][d]
                  IN  /\ Call(p, d, n, IF file[f].type = "INODE" /\ n > 0 THEN "writelock" ELSE "writecount")
                      /\ file[f].writable
                      /\ UNCHANGED <<table, inodes, pipe, ret, own, ff, hip, got, put, panicked>>

(* One turn of the loop: writei, in ilock, refuses to go beyond MAXFILE. *)
WriteI(p) == LET f == io[p].f
                 ip == file[f].obj
                 n1 == Min({io[p].n - io[p].i, Chunk})
             IN  /\ pc[p] = "writelock" /\ ilock(ip)
                 /\ ilk' = [ilk EXCEPT ![ip] = p]
                 /\ \/ /\ file[f].off + n1 <= MaxSize
                       /\ size' = [size EXCEPT ![ip] = Max({@, file[f].off + n1})]
                       /\ io' = [io EXCEPT ![p].r = n1]
                       /\ put' = [put EXCEPT ![f] = @ \cup Span(f, n1)]
                    \/ /\ file[f].off + n1 > MaxSize
                       /\ io' = [io EXCEPT ![p].r = -1]
                       /\ UNCHANGED <<size, put>>
                 /\ Goto(p, "writedone")
                 /\ UNCHANGED <<table, iref, pipe, ret, own, ff, hip, got, panicked>>

(* The loop left with the inode locked when writei fails. *)
LockAfterTurnMutant(ip, r) == IF r < 0 THEN ilk ELSE [ilk EXCEPT ![ip] = None]

LockAfterTurn(ip, r) == [ilk EXCEPT ![ip] = None]

(* The offset is advanced, the lock released; a writei that failed ends the loop. *)
WriteDone(p) == LET f == io[p].f
                    i == io[p].i + io[p].r
                IN  /\ pc[p] = "writedone"
                    /\ ilk' = LockAfterTurn(file[f].obj, io[p].r)
                    /\ \/ /\ io[p].r > 0
                          /\ file' = [file EXCEPT ![f].off = @ + io[p].r]
                          /\ io' = [io EXCEPT ![p].i = i]
                          /\ Goto(p, IF i < io[p].n THEN "writelock" ELSE "writecount")
                       \/ /\ io[p].r < 0
                          /\ Goto(p, "writecount")
                          /\ UNCHANGED <<file, io>>
                    /\ UNCHANGED <<ofile, live, iref, size, pipe, ret, own, ff, hip, history, panicked>>

(* write_bytes += n with no lock held: a load and a store. *)
WriteCount(p) == /\ pc[p] = "writecount"
                 /\ io' = [io EXCEPT ![p].r = file[io[p].f].write_bytes]
                 /\ Goto(p, "writestore")
                 /\ UNCHANGED <<table, inodes, pipe, ret, own, ff, hip, history, panicked>>

WriteStore(p) == /\ pc[p] = "writestore"
                 /\ file' = [file EXCEPT ![io[p].f].write_bytes = io[p].r + io[p].n]
                 /\ io' = [io EXCEPT ![p] = NoIO]
                 /\ Goto(p, "user")
                 /\ UNCHANGED <<ofile, live, inodes, pipe, ret, own, ff, hip, history, panicked>>

-----------------------------------------------------------------------------
Begin(p) == \/ \E ip \in Inodes : OpenLookup(p, ip)
            \/ PipeFile0(p) \/ Exit(p)
            \/ \E c \in Procs : Fork(p, c)
            \/ \E d \in Fds : \/ Dup(p, d) \/ Close(p, d)
                              \/ \E n \in Lengths : Read(p, d, n) \/ Write(p, d, n)
Step(p) == \/ FileClose(p) \/ Drop(p) \/ Closed(p)
           \/ OpenLock(p) \/ ReadI(p) \/ WriteI(p) \/ OpenAlloc(p) \/ OpenFd(p) \/ OpenFail(p)
           \/ \E r, w \in BOOLEAN : (r \/ w) /\ OpenInit(p, r, w)
           \/ PipeFile1(p) \/ PipeKalloc(p) \/ PipeFd(p) \/ ExitClose(p)
           \/ ReadCount(p) \/ ReadDone(p) \/ WriteDone(p) \/ WriteCount(p) \/ WriteStore(p)

Next == /\ ~panicked
        /\ \E p \in Procs : \/ calls < MaxCalls /\ Begin(p) /\ calls' = calls + 1
                            \/ Step(p) /\ UNCHANGED calls

Spec == Init /\ [][Next]_vars

(* Every process runs, in the kernel. *)
FairSpec == /\ Spec
            /\ \A p \in Procs : WF_vars(~panicked /\ Step(p) /\ UNCHANGED calls)

-----------------------------------------------------------------------------
Types == {"NONE", "PIPE", "INODE"}
Fields == {"type", "ref", "obj", "off", "readable", "writable", "read_bytes", "write_bytes"}
InOpen == {"openlock", "openalloc", "openfd", "openfail", "openinit"}
InPipe == {"pipefile1", "pipekalloc", "pipefd"}
InIO == {"readlock", "readdone", "readcount", "writelock", "writedone", "writecount", "writestore"}

TypeOK == /\ DOMAIN file = Files
          /\ \A f \in Files : /\ DOMAIN file[f] = Fields
                              /\ file[f].type \in Types /\ file[f].ref \in Nat
                              /\ file[f].writable \in BOOLEAN
          /\ ofile \in [Procs -> [Fds -> Files \cup {None}]]
          /\ live \subseteq Procs
          /\ iref \in [Inodes -> Int] /\ ilk \in [Inodes -> Procs \cup {None}]
          /\ pipe \in [Pipes -> SUBSET {"r", "w"}]
          /\ pc \in [Procs -> {"user", "fileclose", "drop", "exit"} \cup InOpen \cup InPipe \cup InIO]
          /\ ret \in [Procs -> {"user", "openfail", "exit"}]
          /\ own \in [Procs -> Seq(Files)]
          /\ hip \in [Procs -> Inodes \cup {None}]
          /\ DOMAIN ff = Procs /\ \A p \in Procs : ff[p].writable \in BOOLEAN
          /\ DOMAIN io = Procs /\ \A p \in Procs : DOMAIN io[p] = {"f", "n", "i", "r"}

(* What a process has references to, by where it is: its files outside the *)
(* descriptors and the inode that open looked up.                          *)
Place(p) ==
    /\ Len(own[p]) <= 2
    /\ pc[p] \in {"openfd", "pipefile1", "drop"} => Len(own[p]) <= 1
    /\ pc[p] \in {"openfd", "pipefile1"} => Len(own[p]) = 1
    /\ pc[p] \in {"pipekalloc", "pipefd"} => Len(own[p]) = 2 /\ own[p][1] # own[p][2]
    /\ pc[p] \notin {"openfd", "fileclose", "drop"} \cup InPipe => own[p] = <<>>
    /\ hip[p] # None <=> \/ pc[p] \in InOpen
                         \/ pc[p] \in {"fileclose", "drop"} /\ ret[p] = "openfail"
    /\ pc[p] # "drop" => ff[p] = NoFF
    /\ p \notin live => pc[p] = "user" /\ \A d \in Fds : ofile[p][d] = None
Places == \A p \in Procs : Place(p)

(* ref is the number of references there are: in descriptors and in calls. *)
Held(f) == {x \in Procs \X Fds : ofile[x[1]][x[2]] = f}
Owned(f) == {x \in Procs \X (1..2) : x[2] <= Len(own[x[1]]) /\ own[x[1]][x[2]] = f}
RefsExact ==
    \A f \in Files : file[f].ref = Cardinality(Held(f)) + Cardinality(Owned(f))

(* A file has no type until its call has filled it in, and until then the  *)
(* call has the only reference; then it has one until it is freed.         *)
Filling(p) == IF pc[p] = "openinit" THEN {io[p].f}
              ELSE {own[p][k] : k \in IF pc[p] \in {"openfd", "pipefile1", "pipekalloc"}
                                      THEN 1..Len(own[p]) ELSE {}}
FilledBy(p) ==
    /\ \A f \in Filling(p) : file[f].ref = 1 /\ file[f].type = "NONE"
    /\ pc[p] = "openinit" => io[p].f \in Files /\ \E d \in Fds : ofile[p][d] = io[p].f
    /\ pc[p] = "pipefd" => \A k \in 1..2 : file[own[p][k]].type = "PIPE"
    /\ \A d \in Fds : ofile[p][d] # None /\ ofile[p][d] \notin Filling(p)
                      => file[ofile[p][d]].type # "NONE"
Filled == /\ \A f \in Files : file[f].ref = 0 => file[f].type = "NONE"
          /\ \A p \in Procs : FilledBy(p)

Open(f, type, obj) == file[f].ref > 0 /\ file[f].type = type /\ file[f].obj = obj
Dropping(p, type, obj) == ff[p].type = type /\ ff[p].obj = obj

(* No path of open or close leaks a reference to an inode, or drops one twice. *)
InodeRefsExact ==
    \A ip \in Inodes :
      iref[ip] = Cardinality({f \in Files : Open(f, "INODE", ip)})
                 + Cardinality({p \in Procs : hip[p] = ip})
                 + Cardinality({p \in Procs : Dropping(p, "INODE", ip)})

(* An end of a pipe is open as long as there is a file for it, and no longer. *)
End(w) == IF w THEN "w" ELSE "r"
PipeEndsExact ==
    \A q \in Pipes, w \in BOOLEAN :
      (IF End(w) \in pipe[q] THEN 1 ELSE 0)
        = Cardinality({f \in Files : Open(f, "PIPE", q) /\ file[f].writable = w})
          + Cardinality({p \in Procs : Dropping(p, "PIPE", q) /\ ff[p].writable = w})

(* What a process finds in its descriptors when it makes a call is set up. *)
DescriptorsUsable ==
    \A p \in live : pc[p] = "user" =>
      \A d \in Fds \ FreeFds(p) : /\ file[ofile[p][d]].ref > 0
                                  /\ file[ofile[p][d]].type # "NONE"

(* Processes that share a file share its offset: no two transfers get the  *)
(* same bytes, none leaves the file, and no file grows beyond MAXFILE.     *)
OffsetShared ==
    /\ \A ip \in Inodes : size[ip] \in 0..MaxSize
    /\ \A f \in Files :
         /\ file[f].ref > 0 /\ file[f].type = "INODE"
         /\ \A p \in Procs : io[p].f = f => pc[p] \notin {"readdone", "writedone"}
         => /\ file[f].off = Cardinality(got[f] \cup put[f])
            /\ file[f].off <= size[file[f].obj]

(* What makes OffsetShared inductive: the positions transferred are the    *)
(* first ones of the file.  Between the transfer and the change of the     *)
(* offset they are ahead of it by what one process has moved, and that     *)
(* process holds the lock of the inode.                                    *)
Moving(p) == pc[p] \in {"readdone", "writedone"}
Moved(p) == IF io[p].r > 0 THEN io[p].r ELSE 0
Spread(f, k) == /\ got[f] \cup put[f] = 0..(file[f].off + k - 1)
                /\ file[f].off + k <= size[file[f].obj]

(* What p has locked, and what it is transferring. *)
Transfer(p) ==
  /\ hip[p] # None /\ pc[p] \notin {"openlock", "openinit"} => ilk[hip[p]] = p
  /\ pc[p] \in {"readlock", "writelock"} \/ Moving(p) =>
       /\ io[p].f \in Files /\ \E d \in Fds : ofile[p][d] = io[p].f
       /\ file[io[p].f].type = "INODE" /\ io[p].n \in Nat /\ io[p].i \in Nat
  /\ pc[p] = "writelock" => io[p].i < io[p].n
  /\ Moving(p) => ilk[file[io[p].f].obj] = p /\ io[p].r \in Int /\ Spread(io[p].f, Moved(p))

Quiet(f) == \A p \in Procs : io[p].f = f => ~Moving(p)
OffsetOK(f) == file[f].type = "INODE" => /\ file[f].off \in Nat /\ file[f].obj \in Inodes
                                         /\ Quiet(f) => Spread(f, 0)
Offsets == /\ size \in [Inodes -> 0..MaxSize] /\ DOMAIN got = Files /\ DOMAIN put = Files
           /\ \A f \in Files : OffsetOK(f)
           /\ \A p \in Procs : Transfer(p)

(* readi has found p at the end of the file: nothing to read. *)
AtEnd(p) == pc[p] = "readdone" /\ io[p].r <= 0

(* As long as nobody reads at the end of a file, every call returns. *)
CallsReturn == \A p \in Procs : pc[p] # "user" ~> (pc[p] = "user" \/ \E q \in Procs : AtEnd(q))

(* A read at the end of a file returns, with 0, as usertests has it. *)
EndOfFileReturns == \A p \in Procs : AtEnd(p) ~> pc[p] = "user"

(* The types; the three counts of the file layer, exact on every path of   *)
(* open, pipe, dup, fork, close and exit: references to files, to the      *)
(* inodes below them, and open ends of pipes; every descriptor of a        *)
(* process in user mode is usable; the bytes transferred through a file    *)
(* are those before its offset, or ahead of it by what the process that    *)
(* holds the inode's lock has just moved; and what makes all this          *)
(* inductive, Places and Filled.                                           *)
IInv == /\ TypeOK /\ Places /\ RefsExact /\ Filled
        /\ InodeRefsExact /\ PipeEndsExact /\ DescriptorsUsable /\ Offsets
=============================================================================
