--------------------------------- MODULE Vm ---------------------------------
(***************************************************************************)
(* xv6's memory: kalloc.c, vm.c, growproc and what fork, exec, exit and    *)
(* wait do with pages.  A page directory is a record: its own page, the    *)
(* page of the kernel's tables, the tables of user memory, the page mapped *)
(* at each user page (0: not present) and which of them have PTE_U.        *)
(* Processes run on any CPU; the locked kalloc and kfree are what they     *)
(* share, and the turns of allocuvm's and copyuvm's loops interleave.      *)
(* Which page heads the free list does not matter: the first is taken.     *)
(***************************************************************************)
EXTENDS Integers, Sequences, FiniteSets, FiniteSetsExt

CONSTANTS
  NSLOT,    \* NPROC of param.h: processes are 1..NSLOT, 1 is init
  NFRAME,   \* pages that kinit2 frees, 1..NFRAME
  PGSIZE,   \* bytes of a page
  UPAGES,   \* user pages: KERNBASE is UPAGES * PGSIZE
  PTSPAN,   \* pages that a page table maps
  Brks,     \* arguments of sbrk
  Stores,   \* the pages that processes store to
  MaxSyscalls, \* bound on the system calls of a behaviour
  Progs     \* programs: segments with first page, bytes in the file and in memory

ASSUME VmAssumption ==
  /\ {NSLOT, NFRAME, PGSIZE, UPAGES, PTSPAN, MaxSyscalls} \subseteq Nat \ {0}
  /\ NFRAME >= 5 /\ UPAGES >= 2   \* room for the first process
  /\ Stores \subseteq 0..(UPAGES - 1)
  /\ Brks \subseteq -(UPAGES * PGSIZE)..(UPAGES * PGSIZE - 1)   \* an int

(* exec refuses a segment that is larger in the file than in memory;       *)
(* segments of no bytes, which no linker makes, are left out               *)
Segs == [first : Nat, file : Nat, mem : Nat \ {0}]
ASSUME ProgsAssumption ==
  /\ Progs \subseteq Seq(Segs)
  /\ \A prog \in Progs : \A i \in 1..Len(prog) : prog[i].file <= prog[i].mem

VARIABLES
  mem,    \* free: the free list; data: what the pages hold
  proc,   \* st, up, kstack, pgdir, sz
  call,   \* the system call that a process is in, with its locals
  view,   \* history: what a process may expect in its memory
  calls   \* history: how many system calls were made

vmVars == <<mem, proc, call, view, calls>>

VmProcs == 1..NSLOT
Frames == 1..NFRAME
UPage == 0..(UPAGES - 1)
Tables == 0..((UPAGES - 1) \div PTSPAN)
KERNBASE == UPAGES * PGSIZE
PGROUNDUP(sz) == (sz + PGSIZE - 1) \div PGSIZE

(* what a page holds: zeros, the junk of kfree, program text, arguments,   *)
(* or what process p has stored                                            *)
Zero == 0
Junk == -1
Text == -2
Args == -3

NoDir == [dir |-> 0, kpt |-> 0, pt |-> [t \in Tables |-> 0], map |-> [a \in UPage |-> 0], u |-> {}]
NoProc == [st |-> "UNUSED", up |-> 0, kstack |-> 0, pgdir |-> NoDir, sz |-> 0]
UserMode == [pc |-> "user", new |-> NoDir, a |-> 0, lim |-> 0, seg |-> 0, child |-> 0, prog |-> <<>>]

-----------------------------------------------------------------------------
(* kalloc.c *)
kfree(m, f) == [free |-> m.free \cup {f}, data |-> [m.data EXCEPT ![f] = Junk]]
kfree_all(m, fs) == [free |-> m.free \cup fs, data |-> [f \in Frames |-> IF f \in fs THEN Junk ELSE m.data[f]]]
freerange(m, first, last) == kfree_all(m, first..last)

(* kinit1 and kinit2 free what the kernel's image leaves *)
kinit == freerange([free |-> {}, data |-> [f \in Frames |-> Zero]], 1, NFRAME)

Page(m) == Min(m.free)
kalloc(m) == [m EXCEPT !.free = @ \ {Page(m)}]
memset(m, f, v) == [m EXCEPT !.data[f] = v]

-----------------------------------------------------------------------------
(* vm.c *)
(* the page table for a, made if there is none: fails without a free page *)
walkpgdir(m, d, a) ==
  LET t == a \div PTSPAN
  IN  IF d.pt[t] # 0 THEN [m |-> m, d |-> d, ok |-> TRUE]
      ELSE IF m.free = {} THEN [m |-> m, d |-> d, ok |-> FALSE]
      ELSE [m |-> memset(kalloc(m), Page(m), Zero), d |-> [d EXCEPT !.pt[t] = Page(m)], ok |-> TRUE]

mappages(m, d, a, f, u) ==
  LET w == walkpgdir(m, d, a)
  IN  IF ~w.ok THEN w
      ELSE [w EXCEPT !.d.map[a] = f, !.d.u = IF u THEN @ \cup {a} ELSE @]

deallocuvm(m, d, oldsz, newsz) ==
  LET gone == {a \in UPage : a >= PGROUNDUP(newsz) /\ a * PGSIZE < oldsz /\ d.map[a] # 0}
  IN  IF newsz >= oldsz THEN [m |-> m, d |-> d]
      ELSE [m |-> kfree_all(m, {d.map[a] : a \in gone}),
            d |-> [d EXCEPT !.map = [a \in UPage |-> IF a \in gone THEN 0 ELSE @[a]], !.u = @ \ gone]]

freevm(m, d) ==
  LET r == deallocuvm(m, d, KERNBASE, 0)
  IN  kfree_all(r.m, ({d.dir, d.kpt} \cup {d.pt[t] : t \in Tables}) \ {0})

(* the directory and the tables of kernel memory, here one page *)
setupkvm(m) ==
  LET d == [NoDir EXCEPT !.dir = Page(m)]
      n == kalloc(m)
  IN  IF m.free = {} THEN [m |-> m, d |-> NoDir, ok |-> FALSE]
      ELSE IF n.free = {} THEN [m |-> freevm(n, d), d |-> NoDir, ok |-> FALSE]
      ELSE [m |-> kalloc(n), d |-> [d EXCEPT !.kpt = Page(n)], ok |-> TRUE]

(* A turn of allocuvm's loop at page a.  When a page or a table is missing *)
(* all that was added since oldsz goes.                                    *)
allocuvmMutant(m, d, a, oldsz, newsz) ==
  LET n == memset(kalloc(m), Page(m), Zero)
      w == mappages(n, d, a, Page(m), TRUE)
      undo == deallocuvm(m, d, newsz, oldsz)
      undone == deallocuvm(w.m, w.d, newsz, oldsz)
  IN  IF m.free = {} THEN [m |-> undo.m, d |-> undo.d, ok |-> FALSE]
      ELSE IF ~w.ok THEN [m |-> undone.m, d |-> undone.d, ok |-> FALSE]
      ELSE w

allocuvmUncleared(m, d, a, oldsz, newsz) ==
  LET w == mappages(kalloc(m), d, a, Page(m), TRUE)
      undo == deallocuvm(m, d, newsz, oldsz)
      undone == deallocuvm(w.m, w.d, newsz, oldsz)
  IN  IF m.free = {} THEN [m |-> undo.m, d |-> undo.d, ok |-> FALSE]
      ELSE IF ~w.ok THEN [m |-> kfree(undone.m, Page(m)), d |-> undone.d, ok |-> FALSE]
      ELSE w

allocuvm(m, d, a, oldsz, newsz) ==
  LET n == memset(kalloc(m), Page(m), Zero)
      w == mappages(n, d, a, Page(m), TRUE)
      undo == deallocuvm(m, d, newsz, oldsz)
      undone == deallocuvm(w.m, w.d, newsz, oldsz)
  IN  IF m.free = {} THEN [m |-> undo.m, d |-> undo.d, ok |-> FALSE]
      ELSE IF ~w.ok THEN [m |-> kfree(undone.m, Page(m)), d |-> undone.d, ok |-> FALSE]
      ELSE w

(* A turn of copyuvm's loop at page a of directory d. *)
copyuvm(m, d, new, a) ==
  LET n == memset(kalloc(m), Page(m), m.data[d.map[a]])
      w == mappages(n, new, a, Page(m), a \in d.u)
  IN  IF m.free = {} THEN [m |-> freevm(m, new), d |-> NoDir, ok |-> FALSE]
      ELSE IF ~w.ok THEN [m |-> freevm(kfree(w.m, Page(m)), w.d), d |-> NoDir, ok |-> FALSE]
      ELSE w

clearpteu(d, a) == [d EXCEPT !.u = @ \ {a}]

(* the pages of the file's bytes are read into memory *)
InFile(seg, a) == a >= seg.first /\ (a - seg.first) * PGSIZE < seg.file
loaduvm(m, d, seg) ==
  LET fs == {d.map[a] : a \in {b \in UPage : InFile(seg, b)}}
  IN  [m EXCEPT !.data = [f \in Frames |-> IF f \in fs THEN Text ELSE @[f]]]

-----------------------------------------------------------------------------
(* userinit and inituvm: one page of program *)
VmInit ==
  LET d == [dir |-> 2, kpt |-> 3, pt |-> [NoDir.pt EXCEPT ![0] = 4],
            map |-> [NoDir.map EXCEPT ![0] = 5], u |-> {0}]
  IN  /\ mem = [free |-> kinit.free \ 1..5,
                data |-> [f \in Frames |-> IF f = 5 THEN Text ELSE IF f < 5 THEN Zero ELSE kinit.data[f]]]
      /\ proc = [p \in VmProcs |-> IF p = 1 THEN [st |-> "RUNNABLE", up |-> 0, kstack |-> 1, pgdir |-> d, sz |-> PGSIZE]
                                ELSE NoProc]
      /\ call = [p \in VmProcs |-> UserMode]
      /\ view = [p \in VmProcs |-> [a \in UPage |-> IF p = 1 /\ a = 0 THEN Text ELSE Zero]]
      /\ calls = 0

(* A process without its first page cannot even make a system call: it     *)
(* traps and is killed.                                                    *)
InUser(p) == proc[p].st = "RUNNABLE" /\ call[p].pc = "user"
CanRun(p) == InUser(p) /\ proc[p].pgdir.map[0] # 0
Inside(p, pc) == proc[p].st = "RUNNABLE" /\ call[p].pc = pc /\ UNCHANGED calls
Syscall == calls < MaxSyscalls /\ calls' = calls + 1
BackToUser(p) == call' = [call EXCEPT ![p] = UserMode]

Store(p, a) ==
  /\ Syscall /\ CanRun(p) /\ a \in proc[p].pgdir.u
  /\ mem' = memset(mem, proc[p].pgdir.map[a], p)
  /\ view' = [view EXCEPT ![p][a] = p]
  /\ UNCHANGED <<proc, call>>

(* sbrk and growproc: sizes are unsigned, of which KERNBASE is a half.  A  *)
(* size that shrinks to 0 is taken for a failure and is not stored, and    *)
(* growproc returns without switchuvm: what the process reaches until the  *)
(* next switch through the TLB is left out here, and modelled in VmTlb.    *)
Wrap(n) == n % (2 * KERNBASE)
growproc(p, n) ==
  /\ Syscall /\ CanRun(p)
  /\ LET sz == proc[p].sz
         newsz == Wrap(sz + n)
         r == deallocuvm(mem, proc[p].pgdir, sz, newsz)
     IN  \/ /\ n > 0 /\ newsz < KERNBASE
            /\ call' = [call EXCEPT ![p] = [UserMode EXCEPT !.pc = "grow", !.a = PGROUNDUP(sz), !.lim = newsz]]
            /\ UNCHANGED <<mem, proc, view>>
         \/ /\ n < 0 /\ newsz < sz
            /\ mem' = r.m
            /\ proc' = [proc EXCEPT ![p].pgdir = r.d, ![p].sz = IF newsz = 0 THEN sz ELSE newsz]
            /\ view' = [view EXCEPT ![p] = [a \in UPage |-> IF r.d.map[a] = 0 THEN Zero ELSE @[a]]]
            /\ UNCHANGED call

GrowPage(p) ==
  /\ Inside(p, "grow")
  /\ LET c == call[p]
         w == allocuvm(mem, proc[p].pgdir, c.a, proc[p].sz, c.lim)
     IN  IF c.a * PGSIZE >= c.lim
           THEN /\ proc' = [proc EXCEPT ![p].sz = c.lim]
                /\ BackToUser(p)
                /\ UNCHANGED <<mem, view>>
           ELSE /\ mem' = w.m
                /\ proc' = [proc EXCEPT ![p].pgdir = w.d]
                /\ view' = IF w.ok THEN [view EXCEPT ![p][c.a] = Zero] ELSE view
                /\ IF w.ok THEN call' = [call EXCEPT ![p].a = @ + 1] ELSE BackToUser(p)

-----------------------------------------------------------------------------
(* fork: a slot and a kernel stack, kernel tables, a copy page by page *)
fork(p, q) ==
  /\ Syscall /\ CanRun(p) /\ proc[q].st = "UNUSED" /\ mem.free # {}
  /\ mem' = kalloc(mem)
  /\ proc' = [proc EXCEPT ![q] = [NoProc EXCEPT !.st = "EMBRYO", !.kstack = Page(mem)]]
  /\ call' = [call EXCEPT ![p] = [UserMode EXCEPT !.pc = "forkvm", !.child = q]]
  /\ UNCHANGED view

(* the child's slot and stack go when there is no memory for its pages *)
NoChild(m, q) == mem' = kfree(m, proc[q].kstack) /\ proc' = [proc EXCEPT ![q] = NoProc]

ForkVm(p) ==
  /\ Inside(p, "forkvm")
  /\ LET k == setupkvm(mem)
     IN  IF k.ok THEN /\ mem' = k.m
                      /\ call' = [call EXCEPT ![p].pc = "copy", ![p].new = k.d]
                      /\ UNCHANGED proc
                 ELSE NoChild(k.m, call[p].child) /\ BackToUser(p)
  /\ UNCHANGED view

CopyPage(p) ==
  /\ Inside(p, "copy")
  /\ LET c == call[p]
         w == copyuvm(mem, proc[p].pgdir, c.new, c.a)
     IN  IF c.a * PGSIZE >= proc[p].sz
           THEN /\ proc' = [proc EXCEPT ![c.child].st = "RUNNABLE", ![c.child].up = p,
                                        ![c.child].pgdir = c.new, ![c.child].sz = proc[p].sz]
                /\ view' = [view EXCEPT ![c.child] = view[p]]
                /\ BackToUser(p)
                /\ UNCHANGED mem
           ELSE IF w.ok
             THEN /\ mem' = w.m
                  /\ call' = [call EXCEPT ![p].a = @ + 1, ![p].new = w.d]
                  /\ UNCHANGED <<proc, view>>
             ELSE NoChild(w.m, c.child) /\ BackToUser(p) /\ UNCHANGED view

-----------------------------------------------------------------------------
(* exec builds a new memory beside the old one *)
exec(p, prog) ==
  /\ Syscall /\ CanRun(p)
  /\ LET k == setupkvm(mem)
     IN  /\ mem' = k.m
         /\ call' = IF k.ok THEN [call EXCEPT ![p] = [UserMode EXCEPT !.pc = "load", !.new = k.d, !.seg = 1, !.prog = prog]]
                            ELSE call
  /\ UNCHANGED <<proc, view>>

(* arguments that cannot be fetched, MAXARG of them or more, or no program: *)
(* the call returns -1 before exec makes anything                          *)
sys_exec(p, prog) ==
  \/ exec(p, prog)
  \/ Syscall /\ CanRun(p) /\ UNCHANGED <<mem, proc, call, view>>

(* bad: the new memory is given up, the old one stays *)
Bad(p, m, d) == mem' = freevm(m, d) /\ BackToUser(p) /\ UNCHANGED <<proc, view>>

(* the size when the segments before n are loaded, and before and after    *)
(* segment n: behind the last one are the guard page and the stack         *)
SizeAt(prog, n) == Max({0} \cup {prog[i].first * PGSIZE + prog[i].mem : i \in 1..(n - 1)})
OldSize(prog, n) == IF n <= Len(prog) THEN SizeAt(prog, n) ELSE PGROUNDUP(SizeAt(prog, n)) * PGSIZE
NewSize(prog, n) == IF n <= Len(prog) THEN SizeAt(prog, n + 1) ELSE OldSize(prog, n) + 2 * PGSIZE

(* One page of a segment, or after the last segment of guard page and      *)
(* stack; a segment is read when its pages are there.                      *)
LoadPage(p) ==
  /\ Inside(p, "load")
  /\ LET c == call[p]
         n == Len(c.prog)
         old == OldSize(c.prog, c.seg)
         lim == NewSize(c.prog, c.seg)
         a == Max({c.a, PGROUNDUP(old)})
         w == allocuvm(mem, c.new, a, old, lim)
     IN  /\ c.seg <= n + 1
         /\ \/ lim >= KERNBASE /\ Bad(p, mem, c.new)
            \/ /\ lim < KERNBASE /\ a * PGSIZE < lim
               /\ IF w.ok THEN /\ mem' = w.m
                               /\ call' = [call EXCEPT ![p].new = w.d, ![p].a = a + 1]
                               /\ UNCHANGED <<proc, view>>
                          ELSE Bad(p, w.m, w.d)
            \/ /\ lim < KERNBASE /\ a * PGSIZE >= lim /\ c.seg <= n
               /\ mem' = loaduvm(mem, c.new, c.prog[c.seg])
               /\ call' = [call EXCEPT ![p].seg = @ + 1]
               /\ UNCHANGED <<proc, view>>
            \/ /\ lim < KERNBASE /\ a * PGSIZE >= lim /\ c.seg = n + 1
               /\ call' = [call EXCEPT ![p].seg = @ + 1, ![p].lim = lim, ![p].new = clearpteu(@, PGROUNDUP(old))]
               /\ UNCHANGED <<mem, proc, view>>

(* a file that cannot be read *)
LoadFails(p) == Inside(p, "load") /\ call[p].seg <= Len(call[p].prog) /\ Bad(p, mem, call[p].new)

(* what the program finds: text, zeros up to the stack, its arguments *)
ProgramImage(prog, lim) ==
  [a \in UPage |->
    IF (a + 1) * PGSIZE = lim THEN Args
    ELSE IF \E i \in 1..Len(prog) : InFile(prog[i], a) THEN Text
    ELSE Zero]

copyout(d, a) == a \in d.u

(* The arguments go to the stack, or do not fit and run into the guard     *)
(* page; then the memory is switched and the old one freed.                *)
Commit(p) ==
  LET c == call[p]
      top == PGROUNDUP(c.lim) - 1
  IN  /\ Inside(p, "load") /\ c.seg = Len(c.prog) + 2 /\ copyout(c.new, top)
      /\ mem' = memset(freevm(mem, proc[p].pgdir), c.new.map[top], Args)
      /\ proc' = [proc EXCEPT ![p].pgdir = c.new, ![p].sz = c.lim]
      /\ view' = [view EXCEPT ![p] = ProgramImage(c.prog, c.lim)]
      /\ BackToUser(p)
NoRoomForArgs(p) ==
  /\ Inside(p, "load") /\ call[p].seg = Len(call[p].prog) + 2
  /\ ~copyout(call[p].new, PGROUNDUP(call[p].lim) - 2)
  /\ Bad(p, mem, call[p].new)

-----------------------------------------------------------------------------
(* exit leaves the memory to the parent's wait; init does not exit *)
exit(p) ==
  /\ Syscall /\ InUser(p) /\ p # 1
  /\ proc' = [q \in VmProcs |-> IF q = p THEN [proc[p] EXCEPT !.st = "ZOMBIE"]
                              ELSE IF proc[q].up = p THEN [proc[q] EXCEPT !.up = 1] ELSE proc[q]]
  /\ UNCHANGED <<mem, call, view>>

wait(p, q) ==
  /\ Syscall /\ CanRun(p) /\ proc[q].st = "ZOMBIE" /\ proc[q].up = p
  /\ mem' = freevm(kfree(mem, proc[q].kstack), proc[q].pgdir)
  /\ proc' = [proc EXCEPT ![q] = NoProc]
  /\ view' = [view EXCEPT ![q] = [a \in UPage |-> Zero]]
  /\ UNCHANGED call

(* init only forks and waits *)
VmNext == \E p \in VmProcs :
  \/ p # 1 /\ \E a \in Stores : Store(p, a)
  \/ p # 1 /\ \E n \in Brks : growproc(p, n)
  \/ p # 1 /\ \E prog \in Progs : sys_exec(p, prog)
  \/ \E q \in VmProcs : fork(p, q) \/ wait(p, q)
  \/ exit(p)
  \/ GrowPage(p) \/ ForkVm(p) \/ CopyPage(p) \/ LoadPage(p) \/ LoadFails(p)
  \/ Commit(p) \/ NoRoomForArgs(p)

VmSpec == VmInit /\ [][VmNext]_vmVars

-----------------------------------------------------------------------------
Holds(d) == ({d.dir, d.kpt} \cup {d.pt[t] : t \in Tables} \cup {d.map[a] : a \in UPage}) \ {0}
Owners == [x \in VmProcs \X {"pgdir", "new", "kstack"} |->
  CASE x[2] = "pgdir" -> Holds(proc[x[1]].pgdir)
    [] x[2] = "new" -> Holds(call[x[1]].new)
    [] OTHER -> {proc[x[1]].kstack} \ {0}]

PageDirs == [dir : 0..NFRAME, kpt : 0..NFRAME, pt : [Tables -> 0..NFRAME],
         map : [UPage -> 0..NFRAME], u : SUBSET UPage]
Mem == [free : SUBSET Frames, data : [Frames -> Int]]
Slot == [st : {"UNUSED", "EMBRYO", "RUNNABLE", "ZOMBIE"}, up : 0..NSLOT,
         kstack : 0..NFRAME, pgdir : PageDirs, sz : 0..(KERNBASE - 1)]
CallStates == [pc : {"user", "grow", "forkvm", "copy", "load"}, new : PageDirs, a : 0..UPAGES,
           lim : 0..(KERNBASE - 1), seg : Nat, child : 0..NSLOT, prog : Seq(Segs)]
VmTypeOK ==
  /\ mem \in Mem /\ proc \in [VmProcs -> Slot] /\ call \in [VmProcs -> CallStates]
  /\ view \in [VmProcs -> [UPage -> Int]]

(* Every page is in exactly one place, free or in one address space or     *)
(* kernel stack, whichever of fork, exec and sbrk ran out of memory half   *)
(* way, and in a directory each page is used once.                         *)
NothingLost ==
  /\ mem.free \cup UNION {Owners[x] : x \in DOMAIN Owners} = Frames
  /\ \A x, y \in DOMAIN Owners : x # y => Owners[x] \cap Owners[y] = {}
  /\ \A x \in DOMAIN Owners : Owners[x] \cap mem.free = {}
  /\ \A p \in VmProcs : \A a, b \in UPage :
       LET m == proc[p].pgdir.map IN a # b /\ m[a] # 0 => m[a] # m[b]

(* A directory uses a page once, for itself, a table or a user page, and   *)
(* lets user mode only at pages that are there.                            *)
Once(d) ==
  /\ d.dir # 0 => d.dir # d.kpt /\ (\A t \in Tables : d.dir # d.pt[t]) /\ \A a \in UPage : d.dir # d.map[a]
  /\ d.kpt # 0 => (\A t \in Tables : d.kpt # d.pt[t]) /\ \A a \in UPage : d.kpt # d.map[a]
  /\ \A t \in Tables : d.pt[t] # 0 => /\ \A s \in Tables \ {t} : d.pt[s] # d.pt[t]
                                      /\ \A a \in UPage : d.map[a] # d.pt[t]
  /\ \A a \in UPage : d.map[a] # 0 => \A b \in UPage \ {a} : d.map[b] # d.map[a]
  /\ \A a \in d.u : d.map[a] # 0

(* What process x has, by its state and by the call c it is in.  A slot    *)
(* that fork fills has its stack only, and one process that is filling it. *)
HasPages(x, c) ==
  /\ Once(x.pgdir) /\ Once(c.new)
  /\ x.st = "UNUSED" => x = NoProc
  /\ x.st = "EMBRYO" => x = [NoProc EXCEPT !.st = "EMBRYO", !.kstack = x.kstack]
  /\ x.st # "UNUSED" => x.kstack # 0
  /\ x.st # "RUNNABLE" \/ c.pc = "user" => c = UserMode
  /\ c.pc \in {"grow", "forkvm"} => c.new = NoDir
InFork(c) == c.pc \in {"forkvm", "copy"}
Filling == \A p \in VmProcs : InFork(call[p]) =>
  /\ call[p].child \in VmProcs /\ proc[call[p].child].st = "EMBRYO"
  /\ \A q \in VmProcs \ {p} : InFork(call[q]) => call[q].child # call[p].child
Placed == Filling /\ \A p \in VmProcs : HasPages(proc[p], call[p])

(* How much is mapped: what is below the size, and what the loops of       *)
(* allocuvm and copyuvm have added.                                        *)
Mapped(d, n) == \A a \in UPage : d.map[a] # 0 <=> a < n
Loading(c) ==
  /\ c.seg \in 1..(Len(c.prog) + 2)
  /\ \A i \in 1..Len(c.prog) : c.prog[i].file <= c.prog[i].mem
  /\ c.seg <= Len(c.prog) + 1 => /\ c.a <= PGROUNDUP(NewSize(c.prog, c.seg))
                                 /\ Mapped(c.new, Max({c.a, PGROUNDUP(OldSize(c.prog, c.seg))}))
  /\ c.seg = Len(c.prog) + 2 => /\ c.lim = NewSize(c.prog, Len(c.prog) + 1)
                                /\ Mapped(c.new, PGROUNDUP(c.lim))
Extent(x, c) ==
  LET n == PGROUNDUP(x.sz)
  IN  /\ c.pc = "user" => Mapped(x.pgdir, n) \/ Mapped(x.pgdir, 0)
      /\ c.pc \in {"forkvm", "copy", "load"} => Mapped(x.pgdir, n)
      /\ c.pc = "grow" => Mapped(x.pgdir, c.a) /\ n <= c.a /\ c.a <= PGROUNDUP(c.lim)
      /\ c.pc = "forkvm" => c.a = 0
      /\ c.pc = "copy" => Mapped(c.new, c.a) /\ c.a <= n
      /\ c.pc = "load" => Loading(c)
Extents == \A p \in VmProcs : proc[p].st = "RUNNABLE" => Extent(proc[p], call[p])

(* What the pages hold: what the process may expect, what copyuvm copied,  *)
(* and the segments that exec has read.                                    *)
Holding(m, d, v) == \A a \in UPage : d.map[a] # 0 => m.data[d.map[a]] = v[a]
Loaded(prog, n) == [a \in UPage |-> IF \E i \in 1..Len(prog) : i < n /\ InFile(prog[i], a)
                                    THEN Text ELSE Zero]
Content(m, x, c, v) ==
  /\ Holding(m, x.pgdir, v)
  /\ c.pc = "copy" => Holding(m, c.new, v)
  /\ c.pc = "load" => Holding(m, c.new, Loaded(c.prog, c.seg))
Contents == \A p \in VmProcs : proc[p].st = "RUNNABLE" => Content(mem, proc[p], call[p], view[p])

(* Every page is in exactly one place (NothingLost), and in user mode      *)
(* exactly the pages below the size are there: fork panics otherwise.  A   *)
(* process that shrank to 0 keeps its old size but never runs again.       *)
PagesBelowSize ==
  \A p \in VmProcs : CanRun(p) =>
    \A a \in UPage : proc[p].pgdir.map[a] # 0 <=> a * PGSIZE < proc[p].sz

(* The two of them with what makes them inductive. *)
VmInv == VmTypeOK /\ NothingLost /\ PagesBelowSize /\ Placed /\ Extents /\ Contents

(* A process finds in its memory what it stored or inherited, program      *)
(* text, or zeros: nothing of another process, nothing of a freed page.    *)
MemoryKept ==
  \A p \in VmProcs : CanRun(p) =>
    \A a \in UPage : proc[p].pgdir.map[a] # 0 => mem.data[proc[p].pgdir.map[a]] = view[p][a]
=============================================================================
