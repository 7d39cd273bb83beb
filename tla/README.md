# Formal models of the CS3650 programs

This directory holds TLA+ models of the programs in this repository, the TLC
configurations that check them on small instances, and TLAPS proofs.

## 1. Inventory of the system

The repository is the work of a systems course: independent programs, each a
directory, and one operating system kernel.

| Part | State it keeps | Operations | How it interacts |
|---|---|---|---|
| hw07 barrier (`hw07-assignment/barrier.c`) | `seen`, `count`, two mutexes, a condition variable | `make_barrier`, `barrier_wait`, `free_barrier` | called by the workers of the sample sort |
| hw07 sample sort (`tsort.c`, `float_vec.c`) | the shared array `fs`, `sizes`, `medians` | `sample_sort`, `sort_worker`, `in_range` | T threads share the array and meet at the barrier |
| hw06 sample sort (`ssort.c`, semaphore `barrier.c`) | an mmapped array shared by processes | `sample_sort`, `sort_worker` | forked children, waited for by the parent |
| hw08 allocator (`hmalloc.c`) | address-ordered free list, statistics | `hmalloc`, `hfree` | mmap/munmap |
| chal2 allocators (`hwx_malloc.c`, `opt_malloc.c`, `xv6_malloc.c`) | free list / bins / ring, under a mutex | `xmalloc`, `xfree`, `xrealloc` | used by the Collatz programs |
| chal2 Collatz workers (`list_main.c`, `ivec_main.c`, `list.h`, `ivec.h`) | tasks with a `dibs` flag and a mutex, the numbers of a task in a list or a vector | `scan_and_iterate`, `iterate` | threads share the tasks and the allocator |
| chal1 shell (`nush.c`, `implement.c`, `astree.c`, `tokens.c`) | processes, descriptors | tokenizer, parser, `execute` and one function per operator | fork, exec, wait, pipe |
| xv6 processes (`proc.c`, `spinlock.c`) | `ptable`, interrupt state per CPU | `fork`, `exit`, `wait`, `kill`, `yield`, `sleep`, `wakeup`, scheduler, `pushcli`/`popcli` | every other part of the kernel sleeps and wakes through it |
| xv6 memory (`kalloc.c`, `vm.c`, `exec.c`, `growproc`) | free pages, page directories | `kalloc`, `allocuvm`, `copyuvm`, `deallocuvm`, `freevm`, `exec`, `sbrk` | fork, exec, exit and wait of `proc.c` |
| xv6 pipes (`pipe.c`) | ring buffer, two counters, two open flags | `pipewrite`, `piperead`, `pipeclose` | file layer above, sleep/wakeup below |
| xv6 log (`log.c`) | in-memory header, on-disk log, `outstanding`, `committing` | `begin_op`, `log_write`, `end_op`, recovery | system calls above, buffer cache and disk below |
| xv6 buffer cache and disk (`bio.c`, `ide.c`, `sleeplock.c`) | buffers, LRU list, disk queue | `bread`, `bwrite`, `brelse`, `iderw`, `ideintr` | log and file system above |
| xv6 files (`file.c`, `sysfile.c`) | file table, per-process descriptors, I/O statistics | `filealloc`, `filedup`, `fileclose`, `fileread`, `filewrite`, `sys_*` | pipes and inodes below |
| xv6 inodes and directories (`fs.c`, `mkfs.c`) | inode cache, bitmap, directories | `ialloc`, `iget`, `iput`, `ilock`, `balloc`, `bfree`, path walk, `create`, `link`, `unlink` | log below |
| xv6 user allocator (`umalloc.c`) | ring of free cells, `freep` | `malloc`, `free`, `morecore` | `sbrk` |
| xv6 shell (`sh.c`) | processes, descriptors | parser, `runcmd` | fork, exec, wait, pipe |
| xv6 traps, console, boot, other user programs | console buffer, ticks | | |
| hw10 file system (`nufsmount.c`, `storage.c`, `inode.c`, `directory.c`, `pages.c`, `bitmap.c`) | page and inode bitmaps, inode table, directories | the FUSE callbacks | the host kernel looks paths up before a call |
| hw03 quicksort, hw04/hw05 vectors and tokenizer, hw01/hw02 assembly | pure functions | | |

What is hard, and what makes each part correct:

- **Threads and processes over shared memory** (barrier, sort, Collatz):
  every interleaving must give the sequential answer, nobody may read what
  another has not written yet or has freed, and no wakeup may be lost.
- **Kernel code under spin locks, sleep and wakeup** (proc, pipe, log, bio, ide):
  a condition is tested under one lock and slept on under another; a process may
  be killed, and a CPU be interrupted, anywhere in between.
- **Crashes** (log): the disk after a crash at any step, also one during
  recovery, must be the state after a whole number of committed groups.
- **Partial failure** (file, fork, exec, pipe and open, rename in hw10): an
  operation of several steps that fails half way must give everything back
  exactly once.
- **Lock order** (fs): the inode locks are taken in path order, except where
  they are not.
- **Processes that continue where they should not** (the shells): a child that
  falls back into its parent's code, a pipe end that stays open.
- **Long sequences of calls** (allocators, hw10, xv6 memory): each call is
  simple; a wrong state takes several of them.
- **Limits**: full tables, a full ring with counters that wrap, a full log,
  buffers all in use, no memory, sizes next to a page.

## 2. Plan

The modules were written in the order of importance: barrier and sort; the
kernel's pipes, processes, log, buffer cache, files and inodes; the allocators;
then hw10, the shells, kernel memory and the Collatz programs. All of these are
done; section 3 describes them.

| Module | Composes / abstract specification | Question | Proofs |
|---|---|---|---|
| `Barrier` | implements `BarrierSpec` | nobody passes early, nobody stays | `Hw07Proofs` |
| `TSort` | uses `BarrierSpec` | a permutation in order, whatever the interleaving | `Hw07Proofs` |
| `Pipe` | implements the FIFO `PipeSpec` | no byte lost, no wakeup missed | `PipeProofs` |
| `Proc` | | stacks, zombies, parents, interrupts, scheduling | `ProcLogProofs` |
| `Log` | implements the atomic `LogSpec` | crash atomicity, space in the log | `ProcLogProofs` |
| `Bcache` | | one buffer per block, no lost write | `BcacheProofs` |
| `File` | | three reference counts, shared offsets | `FileProofs` |
| `Fs`, `MCFs` | | tree, blocks, lock order | `FsSteps`, `FsProofs` |
| `Malloc` over `KrMalloc` | | no word twice, none lost | |
| `Collatz` | composes the programs with `Malloc` | one owner per chunk, the right answer | |
| `Nufs`, `MCNufs` | | inodes, bitmaps and directories agree | |
| `Shell`, `MCShell` | the meaning of a script as a bag of commands | what is run is what is meant, nothing stays behind | |
| `Vm`, `MCVm`, `VmTlb` | `VmTlb` is `Vm` with a TLB | every page in one place, nobody sees another's | `VmProofs` |

For TLC, components that share nothing are put side by side in one module: `MCPrograms`
(`Barrier`, `TSort`, `Pipe`, `Shell`), `MCProcesses` (`Proc`, `Vm`) and `MCStorage` (`Fs`,
`Nufs`, `Collatz` over `Malloc`). Their variable `running`, chosen once, says which component
a behaviour is of; the others stay as they begin. So the states are the sum of the
components' states, not the product, and every property speaks of its component exactly as
it would alone. The fairness of a component is asked for in its own behaviours only
(`MCFairness`, `On`), and so are the properties that begin with `running = ... =>`.

Left for later: the console's line buffer (`console.c`, three indices between
interrupt and reader), the ticks of `sys_sleep`, and proofs about `Malloc` and
`Nufs` (see the end of section 5).

## 3. The modules and the code

Names of the source are kept where TLA+ allows it. `PROJECT.json` gives for every
definition the lines it stands for. In all modules a step of a process or thread
is a stretch of code under one lock, or one access to memory that others may
touch; a trailing wakeup, sort or store is part of the step. A definition whose
name ends in `Mutant` is the definition after it with a plausible slip: a property
is only kept if such a slip breaks it.

**Barrier** (`hw07/barrier.c`). `pc[t]` is where a thread is in `barrier_wait`.
`seen++` is a load and a store (`LoadSeen`, `StoreSeen`) under `seen_lock`; the
test of `seen` is made under the other mutex, `wall`. `pthread_cond_wait` is a
release together with joining the wait set, a wakeup (signalled or spurious), and
the reacquisition. The refinement maps `arrived` to the threads past the store
and `left` to those that returned.

**TSort** (`hw07/tsort.c`). The main thread samples, creates and joins the
workers; a worker collects its range in one scan, element by element, stores its
size, waits at the barrier, sums the sizes before its own and copies back. The
barrier's state is that of `BarrierSpec`. `sizes` is not initialised by the code,
so reading it too early would give `Uninit`. Floats are small naturals: only their
order matters. The i-th element that `qsort` leaves is the least element of which
at least i are not larger.

**Pipe** (`xv6/pipe.c` with `sleep`, `wakeup`, `kill` of `proc.c`). Two spin
locks are modelled; `sleep` takes `ptable.lock` before it lets `p->lock` go.
`nread` and `nwrite` are counters modulo `Wrap` (2^32 in the code). The processes
of an end share its file, so `pipeclose` is called by the last of them.

**Proc** (`xv6/proc.c`, `spinlock.c`). `ptable` with state, pid, parent, channel,
killed and kernel stack; each CPU is in its scheduler or runs a process, and
carries `ptable.lock` across `swtch`. `fork` may fail at `allocproc`, `kalloc` or
`copyuvm`. `cpu` is the interrupt state that `pushcli` and `popcli` keep per CPU
(`ncli`, `intena` and the flag itself), which `sched` saves on the stack of the
thread it leaves.

**Log** (`xv6/log.c`). `home`, `logDisk` and `header` survive a crash, the rest
does not. One disk block is written per step in `write_log`, `write_head` and
`install_trans`. Blocks are numbers, and the log has the numbers 1 to `nlog - 1`: a
group that is too long runs on into block `nlog`, the first inode block. A panic of
`log_write` is a crash. The block cache is folded in
as the current value of each block: that the cache returns it is `Bcache`'s
`ReadsLatest`, that a logged block stays in it is part of its `IInv`.

**Bcache** (`xv6/bio.c`, `sleeplock.c`, `ide.c`). The LRU list is a sequence;
`bget` looks for the block from the front, for a victim from the back;
`B_DIRTY` pins. A process may hold one buffer and read another, as `install_trans`,
`write_log`, `bmap` and `itrunc` do: it has two uses of the cache, and `Under` is the
order of their callers (a log block before any other, an indirect block before a
bitmap or a new block). The disk is the queue of `ide.c` and its interrupt. With
`FALSE` among the `ReadOutcomes` a disk read may fail.

**File** (`xv6/file.c`, `sysfile.c`, `pipealloc`). `file` is `ftable`, `ofile`
the descriptors. Each process makes `open`, `pipe`, `dup`, `close`, `read`,
`write`, `fork` and `exit` calls in steps; every error path is a step that gives
back. `got` and `put` are history: positions transferred through a file.

**Fs, MCFs** (`xv6/fs.c`, the rest of `sysfile.c`, `mkfs.c`). The kernel's state is
the record `k`: inodes on disk `k.di` with their entries and blocks, the cached
copies `k.ic` with references, valid bits and lock owners, and the bitmap; the
operators of `fs.c` map one such record to the next. The initial state is the
image that `mkfs` makes. `c[p]` is the call of a process and the path still to
walk, `puts[p]` the inodes it has to put before it goes on. A step ends where the
process may have to wait for a sleep lock. `iput` is three steps, as in the code:
the test of `ref` under `icache.lock`, the free, the decrement under the lock
taken anew. `MCFs` gives the calls of the run.

**Malloc, KrMalloc** (`chal2/hwx_malloc.c`, `opt_malloc.c`, `xv6_malloc.c`,
`hw08/hmalloc.c`, `xv6/umalloc.c`). A call holds the lock from end to end, or is
made by a program of one thread, and is one step; the state is the free list (a
set of cells in address order), the bins (stacks) or the ring, the mapped pages
and the chunks in use. `mmap` may return any unmapped place, `munmap` refuses an
unaligned address, `sbrk` extends the heap. `impl`, chosen once, says which
library the program is linked with. `KrMalloc` has the functions on the ring of
`umalloc.c` and of its copy. The statistics of `hmalloc.c` are kept as differences.

**Collatz** (`chal2/list_main.c`, `ivec_main.c`). The two programs over
`Malloc`'s libraries: each of their allocations and frees is an allocator's step,
so the module composes threads, lists or vectors, and allocator. Look at a task
and claim it by `dibs` under the mutex; copy, free and replace its numbers
without; release it. `program = "any"` stands for every other program, with calls
in any order.

**Nufs, MCNufs** (`hw10`). The image is the record `img`: bitmaps, inode table and
the contents of pages as slots. FUSE runs with `-s`, so a callback is one step.
Kernel lookups (`getattr` on every prefix of a path) are external. Data are written
in whole slots of a page, to the page of the inode's number and on into the next
ones, as in the code. The inodes of the model are those in page 0 (168 of the
table's 256; the rest is in page 1, to which inode 1's data go), and there are at
most 31 pages, the bits of the one int that `shrink_inode` clears. `files` and `over`
are history: the files that were made and not removed, and whether data have run
over a directory.

**Shell, MCShell** (`chal1`, `xv6/sh.c`). A line is a sequence of symbols;
`tokenize`, the two parsers and the operators are translated. A process is a record
with the instructions it has yet to execute (the calls it has to return from), so
that `fork` copies the rest of the program and a child that does not exit goes
on with it. Pipes and the programs that are run (`true`, `false`, a writer, a
reader) are external. `Meant` is the reference: a bag of commands with their input
and output, computed from the tree without processes.

**Vm, MCVm** (`xv6/kalloc.c`, `vm.c`, `exec.c`, `growproc`). A page directory is a
record of its own page, the kernel's tables, the user tables and the mapping; the
turns of the loops in `allocuvm`, `copyuvm` and `loaduvm` are steps, so that
processes compete for the last page. `kfree` fills a page with junk. `view` is
history: what a process has stored, inherited or loaded. **VmTlb** adds what a CPU
still maps after a `growproc` that returned before `switchuvm`.

Sleep and wakeup are modelled in full in `Pipe` and `Proc`. Elsewhere a sleeping
process is one whose guard is false, or a member of a wait set (`Log`).

## 4. The runs

| Run | Component and bounds | Shows |
|---|---|---|
| `programs` | `Barrier`: 3 threads | `IInv` (with `NobodyPassesEarly`, `NoLostWakeup`), `BarrierLeaves`, implements `BarrierSpec` (`AbsSpec`) |
| | `TSort`: 3 threads, all inputs of at most 3 out of 3 values, all samples | `OutputSorted`, `NoWriteDuringScan` (nobody copies while somebody scans), `SortTerminates`; in `SortInv`, no uninitialised size and no freed limit is read |
| | `Pipe`: 2 writers of 3 bytes, a ring of 2, counters modulo 4, kills | `PipeFinishes`, implements `PipeSpec` (`FifoSpec`); in `PipeInv`, no missed wakeup and no use after `kfree` |
| | `Shell`: the scripts of `SmallScripts`, of two lines each, 14 processes, pipes of 1 item | `RunsAsMeant` (scripts without nush's `>`, and without `\|\|` after a `cd` that fails), `Settled`, `ShellTerminates`; in `ShellInv`, nobody but the first shell (and children of `>`) reads the script |
| `processes` | `Proc`: 3 slots, 2 CPUs, 3 pids, kills | `StackSafe` (no stack used by two CPUs or freed in use), `InterruptsKept`, `ZombiesReaped`, `NobodyStarves`; in `ProcInv`, parents live and sleep past no zombie |
| | `Vm`: 3 processes, 16 frames, 6 calls | `VmInv`: every page in one place, mapped pages are those below the size; `MemoryKept` |
| `storage` | `Fs`: 2 processes, 4 calls out of 8, 4 inodes | `TreeSound`, `NoPanic`, `OnlyIputDeadlocks`; in `IInv`, exact inode references and blocks, a write-through cache, enough links, and what each call relies on |
| | `Nufs`: 4 names in 2 directories, sizes 0 and 3 slots (a page), 4 inodes, 5 pages | `NufsExact`: pages and inode bitmap exact, no inode with a name freed, references exact until data run over a directory |
| | `Malloc`: 3 pages of 16 words, 3 chunks of 3, 10 or 20 words, five libraries; Collatz of 1 and 2 with 2 threads in 3 pages | `ChunksSound`: disjoint, large enough, coalesced, statistics exact; `WordsKept`, for requests that are not near a page (`NearPage`); `CollatzRight`: one owner per chunk, the right answer |
| `log` | 2 processes, 3 calls of up to 2 of 3 blocks, `LOGSIZE` 4 and room for as many (`nlog` 5), 2 crashes | implements `LogSpec` (`AbsSpec`), `DurableWhenQuiet`, `BeginReturns`; in `IInv`, a commit runs alone and, with such a log, what `begin_op` reserved suffices |
| `bcache` | 2 processes, a log block, an indirect and a plain one, 2 buffers, 2 writes | `ReadsLatest`, `BreadReturns`; in `IInv`, one buffer per block, exact references and sleep locks, nothing dirty recycled |
| `file` | 2 processes, 3 files, 2 descriptors, 5 calls | `IInv` has the three exact reference counts and usable descriptors; `OffsetShared`; `CallsReturn`, of every call but a read at the end of a file |

Runs whose expected result is a violation, each of what a comment, a test or a
header of the repository says (`PROJECT.json`, findings, quotes it; section 6 tells
the story):

| Run | Property that is violated | Bounds |
|---|---|---|
| `log_overrun` | `AbsSpec`: the group is all or nothing | the log of mkfs (`nlog` = `LOGSIZE` = 4), 2 calls |
| `file_eof` | `EndOfFileReturns`: a read at the end of a file returns | 1 process, a file of 2 |
| `fs_deadlock` | `NoDeadlock`: there is no cycle of waits | the calls of `storage` |
| `malloc_page` | `InUseMapped`: no chunk in use is unmapped | requests of 0 and 14 words, pages of 16 |
| `nufs_second` | `FilesKept`: a file is found by its name until it is removed | 2 files in the root |
| `shell_or` | `AsMeant`: a script runs what it means | one nush script |

Seven more configurations show what section 6 says of smaller consequences, or of
the same ones from another side. They are kept beside the runs; TLC violates the
property of each within seconds (`tlc -config X.cfg M`):

| Configuration, module | Property that is violated | Bounds |
|---|---|---|
| `Log_panic.cfg`, `Log` | `AdmittedNeverPanics`: no call that `begin_op` let in panics | those of `log_overrun` |
| `Bcache_failed.cfg`, `Bcache` | `ReadsLatest` | 1 process, 2 blocks, reads that may fail |
| `Fs_leak.cfg`, `MCFs` | `FreedWhenUnused`: an inode without links and references is free | the calls of `storage` |
| `Nufs_large.cfg`, `MCNufs` | `PageZeroReserved`: page 0 is never free | files of up to 2 pages |
| `Nufs_full.cfg`, `MCNufs` | `NamesResolve`: what `readdir` lists is found | 3 names in a root of 3 entries |
| `Shell_out.cfg`, `MCShell` | `AsMeant` | one nush script with `>` |
| `Vm_tlb.cfg`, `VmTlb` | `MemoryKept` | 2 children of init, 5 calls |

Why the bounds are enough: three threads are one last, one asleep and one
between the two mutexes of the barrier; the ring of two with three bytes per call
makes a writer sleep inside a call and lets the counters wrap; three process slots
allow a parent and a child besides init, and a slot to be used again; in `log` two
calls fill the log, so the third waits and blocks are absorbed, and the second crash
hits the recovery from the first; two buffers for three blocks force recycling with
a pinned buffer around, and let two processes each hold the one that the other wants,
were it not for the order in which they are read; four
file-system calls are two per process, with a removal, a creation or a link against
each other on the same directory, and the one inode that is
free at the start is freed and taken again, or missing; three pages can be adjacent or apart, which
decides whether cells are joined across a page boundary; in `Nufs` the root has
three slots for its three names and there are fewer pages than inodes want; in
`Shell` each line is followed by a second one, which a stray child would run
again; 16 frames are used up in the middle of the second copy of fork or exec.
All counters that only bound the state space (`MaxOps`, `MaxCalls`, `MaxSyscalls`, `MaxPid`,
`MaxWrites`, `MaxCrashes`, `Calls`, `MaxLive`, `MaxProc`) appear in guards only.

**Fairness.** Weak fairness of a step means that a runnable thread or process is
eventually scheduled: pthreads and processes on a host kernel (`TSort`, `Shell`),
and the round robin of `scheduler()` under a timer for xv6 (which `Proc` has checked
itself, as `NobodyStarves`). Strong fairness is assumed of taking a lock that is free
again and again: mutexes of the barrier, spin locks of `Pipe` and `Proc`, sleep
locks of `Bcache`. The x86 `xchg` loop does not guarantee it in theory; critical
sections are short and the waiting CPUs finite. In `Proc`, strong fairness of
being picked stands for the loop over the table that passes every slot. In `Log`
strong fairness of `EndOp` says that a system call logs blocks finitely often: it
may log a block again, but every call of the kernel has an end. In `Bcache` strong
fairness of a use says the same of the loops that read other blocks under a held
one. `User`
steps are fair in `Pipe` since programs that stop calling, without exiting, may
hold a pipe open for ever. The disk interrupt is weakly fair. Nobody is forced to
crash, kill, fork, wake spuriously or make a call.

`CHECK_DEADLOCK FALSE` is used where the modelled programs end, or where the
bound on calls is reached; that nothing stops earlier is what the liveness
properties (and `OnlyIputDeadlocks` of `Fs`) say. `processes` checks deadlock (there the
behaviours of `Vm` may stutter at their bound), and so do the configurations of `Nufs` alone.

## 5. The proofs

Eight modules hold theorems that TLAPS checks for every value of the constants.
Each leaves out fairness: the component's `Spec` is the safety part, `FairSpec` (or the
`MCSpec` of its run) adds the fairness. Where one module has the proofs or the runs of
several components, their names carry a prefix (`SortSpec`, `SortInv`; `ProcSpec`, `ProcInv`;
`PipeSystem`, `PipeInv`; `VmSpec`, `VmInv`; `NufsSpec`; `MallocSpec`; `ShellSpec`).

**Hw07Proofs**, the barrier, for every finite set of threads (`ThreadsAssumption`) and a
value for "unlocked" that is no thread (`NoThreadAssumption`):

- `Invariance`: `Spec => []IInv`. `IInv` is the conjunction of `TypeOK`;
  `MutualExclusion`; `LoadedIsFresh` (between load and store nobody else changes
  `seen`); `SeenIsExact` (`seen` is the number of threads past the store);
  `NobodyPassesEarly` and `NoLostWakeup`. The last two are what the barrier is
  for and are not inductive alone: that a thread that leaves has seen the full
  count needs `SeenIsExact`, that needs `LoadedIsFresh` (no lost increment), and
  that needs mutual exclusion. `NoLostWakeup` says that with the count complete a
  sleeper always has a thread that has yet to take `wall` and broadcast.
- `TypeCorrect`, `BarrierSafe` and `WakeupNotLost`: its conjuncts as theorems.
- `Refinement`: `Spec => AbsSpec`. `Leave` needs that all have arrived: from
  `SeenIsExact` and `NobodyPassesEarly` by a cardinality argument
  (`CountedSubset`).

**Hw07Proofs**, the sort, for any number of threads, input and samples. `OrderKept`:
`Ordered` is inductive; it relates the main thread's place in its create and join
loops (`Created`) and the barrier (`Met`) to the phase of each worker.
`ScansAreUndisturbed` is `NoWriteDuringScan`; `MemoryIsFresh` says that no freed
limit and no unset size is read. It uses nothing of the barrier but
`BarrierSpec`, which the barrier's `Refinement` shows `barrier.c` to implement.
`SortsItsInput` is `OutputSorted`: the output has the floats of the input, each as
often, in order, stated without reference to the model's `qsort`. `SortInvariance`
(`SortInv`) has what it needs, `Slices`: a worker has the elements of its range up to
its position, counted (`Scanned`); sorted, these are the slice of the sorted input
from `Begin(w)`, the number of floats below its lower limit (`SliceOf`); the sum
of the sizes before its own is `Begin(w)` (`StartIs`); and so every store puts an
element where it belongs, whoever else is copying. It assumes that there is a
largest float (`ValuesAssumption`), which `INFINITY` is above. The induction over
the length of a sequence and over the number of workers is done by the least
counterexample (`Least`, from the well-foundedness of the naturals), as the
induction rules of the library cannot be instantiated.

**PipeProofs**, for any number of readers and writers, ring and lengths.
`Invariance`: locks are held by the processes at the labels inside them, the two
open flags agree with who has closed, the page is freed only when everybody has,
and a process asleep (or between its test and its sleep) on a ring that has since
changed has somebody who holds the lock and has yet to wake it. That clause needs
the order of the two locks in `sleep` (`PipeInv`). `Refinement`: `PipeSystem => FifoSpec`, with the
ring's size dividing the range of the counters, as 512 divides 2^32. The queue of `PipeSpec` is
read off the ring from `nread` to `nwrite`, both modulo `Wrap`; the proof adds to
the invariant that their difference is at most `PIPESIZE`, and turns the
two remainders of each step into one by arithmetic lemmas.

**ProcLogProofs**, processes, for any number of slots and CPUs. `ProcInvariance`: `ptable.lock` is
held by the CPUs at the labels inside it and handed over with the process at
`swtch`; an EMBRYO slot belongs to exactly one fork, which fills it without the
lock; every process has a living parent other than itself; a parent that sleeps
in `wait` has no zombie child; the saved `intena` is the thread's own. From it,
`StacksAreSafe` (`StackSafe`) and `InterruptsAreKept` (`InterruptsKept`).

**ProcLogProofs**, the log, for any number of processes, blocks, calls and crashes, and a
log of any size. `Invariance` has the counting argument behind `begin_op`: the blocks
logged, and those that the calls that are in may still log, do not exceed `LOGSIZE`
(`LogFits`, by the cardinality of the blocks each call has left), so `lh.block[]` never
overflows, and who may run when (`CommitAlone`: a commit has no call beside it;
`Phases`). `LOGSIZE` is not what `log_write` enforces: it panics at `log.size - 1`.
`RoomForAll` therefore assumes `nlog > LOGSIZE` and concludes that no admitted call
panics (`AdmittedNeverPanics`) and that the group fits the log on the disk (`Fits`).
With the log of mkfs, `nlog = LOGSIZE`, neither is so: `Log_panic.cfg` and the run
`log_overrun`. `Refinement` is `Spec /\ []Fits => AbsSpec` for a log of any size, and
`RoomyRefinement` is `Spec => AbsSpec` for `nlog > LOGSIZE`. `Contents` says for each
phase of a commit and of the recovery which of header, log blocks, home blocks and
cache hold the contents; it is needed because the abstract state is where the next
recovery would look for it, and it is inductive only as long as the group fits. The
refinement maps `WriteHead` with a nonempty header to the one `Commit` of `LogSpec`, a
crash to a crash, and every other disk write to a stutter. `Durable` is
`Spec /\ []Fits => []DurableWhenQuiet`.

**BcacheProofs**, for any number of buffers, processes and blocks. `Invariance`:
`refcnt` is the number of uses of the buffer (by cardinality; a process has two at
most, see section 3), a sleep lock has one owner, which holds a reference; every buffer in the disk queue has
exactly one process waiting for it; and what is neither dirty nor in the queue is
equal to the disk (`Coherent`). It holds also when disk reads fail. `ReadsAreLatest`
is `ReadsLatest` under the assumption, stated in the theorem, that they do not
(`FALSE \notin ReadOutcomes`); `Bcache_failed.cfg` shows that it is needed.

**FileProofs**, for any number of processes, files, descriptors, inodes and pipes
(`ProcsAssumption`, `NoneAssumption`: what stands for "none" is none of them;
`FileAssumption`: every file's initial size is within the bound). `Invariance`:
`Spec => []IInv`. The reference counts of files, inodes and pipe ends are each the
number of holders: slots of descriptor tables and calls under way for a file
(`HeldIn`), files and calls for an inode or an end of a pipe (`OwnedIn`). A step
moves, adds or removes one holder, so each proof is that one set is the other
without one element. What a call holds is read off its label by `Places`; without
it no count would be inductive, as every error path gives back what an earlier
step took. `Filled` says that a file in the table that has no type yet is known
to the call that allocated it alone, which is why a descriptor never names an
unfinished file, although `fdalloc` is called before the file is filled in.
`Offsets` is what makes `OffsetShared` (no position is transferred twice or
skipped through a file that processes share) inductive: the positions
transferred are those below `off`, except for what the process holding the
inode's lock has moved and not yet added. `SharedOffsets` is `OffsetShared`.

**VmProofs**, for any number of processes, pages, page and table sizes, any
programs and `sbrk` arguments (`VmAssumption`: at least the five pages that the
first process takes, and arguments that are an `int`; `ProgsAssumption`: what
`exec` checks of a segment before it loads it). `Invariance`: `VmSpec => []VmInv`, and
`MemoryIsKept`: `VmSpec => []MemoryKept`. Both come from `Core`, the conjunction of

- `VmTypeOK` and `Divided`: the free list, the kernel stacks, the page directories
  and the directories that calls are building divide the frames;
- `Placed`: a directory uses no page twice (`Once`); what a slot has by its
  state; and that an `EMBRYO` slot has one fork that fills it (`Filling`);
- `Extents`: which pages are mapped in the middle of `allocuvm`, `copyuvm` and
  `exec`, without which neither their failure paths (`deallocuvm` from the page
  reached) nor the size at the end could be proved right;
- `Contents`: what the pages of a directory hold, also of one that is being
  copied or loaded.

The lemmas on `kalloc`, `walkpgdir`, `mappages`, `allocuvm`, `deallocuvm`, `freevm`
and `copyuvm` say which pages change hands between the free list and one directory
(`Traded`) and that no other page changes. A step is then one process that trades
pages (`StepOne`), or one that trades with the slot that it fills or frees
(`StepTwo`), and in both the other processes keep what they have because the parts
are disjoint. There is one lemma for each action. `Wrap` (unsigned sizes) and
`PGROUNDUP` are used with their arithmetic.

**FsSteps** and **FsProofs**, for any finite set of processes and of names, any number
of inodes, cache slots and blocks (at least the three that the first image takes,
`FsAssumption`) and any calls (`CallsAssumption`: `open`, `create`, `unlink`, `chdir`
and `link` with paths over the names, `.` and `..`). `Invariance`: `Spec => []IInv`,
also with paths that climb through `..`. Until the kernel panics:

- `RefsExact`: the count of a cached inode is the number of pointers to it, of six
  kinds (current directory, open file, the two inodes of a call, up to two that it
  has to put). A step of one process changes a count by what changes among its
  own six (`RefsStep`), so no path of a call may forget or repeat an `iput`;
- `Sound`: a valid cached inode is what the disk has, the bitmap has exactly the
  blocks of the inodes, a free inode is blank. Every operator of `fs.c` keeps it
  (the lemmas `Good...`), given the lock;
- `LinksEnough`: an inode has a link for every name, for every subdirectory's `..`,
  and for every `link` or `unlink` between its two changes;
- `Locks`, `Place` and `Knows`: which locks, pointers and facts a process has where,
  for instance that the entry it found is still there when it erases it;
- `SurePointers`: an inode that is pointed to by something other than a walk is
  neither free nor being freed. With `LinksEnough` this is the argument why `iput`
  may let go of `icache.lock` between its test and the free: the inode has no link,
  so nobody finds it, and the only reference, so nobody has it;
- if no path climbs, `DotsRight` (`.` and `..` of the directories) and `NoCycle`.

The three other theorems assume that no path contains `..` (`~Climbs`): with such
paths the kernel can panic, see section 6. `NeverPanics` (`NoPanic`) follows step
by step from `SurePointers`: what is locked is not free. `OnlyIput`
(`OnlyIputDeadlocks`): a cycle of waits has a process that puts a directory with the
inode of the entry it has just written or found locked, or a directory it has
locked itself (`PutsUp`). Everybody else waits for an inode below the one it has
locked, or has none locked; without such an `iput` the locked directories would
make a cycle, against `NoCycle`. That the deadlock with `iput` does happen is the run
`fs_deadlock`. `TreeIsSound` (`TreeSound`): entries that a path from the root leads to
are counted by names and subdirectories, and there are enough links for these.
`FsSteps` has the operators, the parts of `IInv` over one step, and the actions
that change no entry and no link count; `FsProofs` the other actions, the image
that `Init` starts from, and the theorems.

Only model-checked: the invariants of `Malloc`, `Collatz`, `Nufs` and `Shell`; all liveness properties, as they need
fairness and `ENABLED`, which the prover does not handle; and whatever rests on
recursion over data (the parsers and `Meant` of `Shell`, the ring of `KrMalloc`,
path walks), which needs induction principles that the installed back ends
cannot instantiate, or uses `RECURSIVE` operators, which they do not support.

## 6. What the code does that one would not expect

The following was met while modelling and is in the modules. Where a comment, a
test or a header of the repository says otherwise, a run or a configuration named here
shows it, and the passing property next to it states its condition.

Kernel:

- `file.c:118`: a `read` at the end of a file does not return 0 but falls through
  to `panic("fileread")`, with the inode locked; `usertests.c:1181` expects 0. Run
  `file_eof`; `CallsReturn` is about behaviours in which nobody reads at the end.
- `fs.c:338`: two processes that put the last two references to an unlinked inode
  both read `ref = 2`, both decrement, and the inode is never freed; the comments at
  `fs.c:119` and 327 say that it is: `Fs_leak.cfg`.
- `sysfile.c:280`: `create` puts its directory with the new inode still locked;
  `iput` takes the directory's lock again, while `unlink` may hold it and wait for
  the new inode; `usertests.c:856` looks for deadlocks there. Run `fs_deadlock`;
  `OnlyIputDeadlocks` shows that there is no other kind.
- `fs.c:647` and around: `create` or `link` into a directory that was removed after
  `nameiparent` leaves a file with one link and no entry; `..` in a directory
  removed with its parent ends in `panic("ilock: no type")`; `link(x, "dir/.")`
  waits for itself in `dirlink`. The paths of the run `storage` contain no `.` and `..`.
- `pipe.c:107` and `proc.c:488`: a reader killed between its test and `sleep` is
  not woken by `kill` and waits for the next write. A writer killed on a full
  pipe returns without waking the readers (`pipe.c:86`).
- `proc.c:486`: `kill(0)` marks an unused slot; the process forked there next is
  born killed. Killing init would panic; programs of the run do not.
- `log.c:132`: `begin_op` admits `LOGSIZE` blocks; the log that `mkfs` makes has
  `LOGSIZE` blocks with the header, so room for one less, and `log_write` panics in a
  call that was let in: `Log_panic.cfg`. `log_write` tests the size before it takes
  `log.lock` (lines 218 and 223), so that two callers can pass with one block of room;
  `write_log` then writes its last block over the first inode block, before the
  commit: run `log_overrun`.
- `ide.c:118`: a buffer is marked valid after a disk read that failed:
  `Bcache_failed.cfg`.
- `file.c:33`: `filealloc` does not reset the two I/O counters, `fileread` counts
  the bytes asked for rather than those read, and `filewrite` adds to its counter
  without a lock.
- `proc.c:169`: `sbrk` of minus the whole size frees every page, takes the new
  size 0 for a failure, returns -1 and keeps the old size, before `switchuvm`. Until
  the next timer interrupt the process reaches the freed pages through the TLB, also
  when another process has them by then: `Vm_tlb.cfg`. In `Vm` itself, and so in
  `VmProofs`, the process faults at once when it returns to user mode.
- `exec`'s test of `MAXARG` cannot be reached through `sys_exec`, which has the same
  limit.

Allocators and Collatz:

- `hwx_malloc.c:271`: for requests of 4064 to 4087 bytes a free cell of a page or
  more can be given away whole; `xfree` then unmaps it, with the neighbour in the
  same page, or loses it if it is not aligned: run `malloc_page`. `frag_main.c` asks for
  such a size, 4080 bytes. `WordsKept` is about programs that do not (`NearPage`).
  `xrealloc` copies `size` bytes from after the header, a header
  more than the chunk has (line 308).
- `hmalloc.c` passes `munmap` the address after the header, which is not aligned:
  the call fails, the pages stay mapped and the statistics count them as unmapped.
- Collatz threads that find each other's tasks taken may skip them any number of
  times, so nothing is claimed about their termination.

hw10:

- File data are read and written at the page whose number is the inode's
  (`storage.c:81`, 102), whatever pages the inode owns: the second file, inode 2,
  shares a page with the root directory, and names are lost: run `nufs_second`.
- A file of two pages takes page 0 for its indirect page (`inode.c:85`), and clears
  the bitmap when it shrinks: `Nufs_large.cfg`. `PagesExact` is about files of at
  most a page.
- Truncating to a smaller size that is not 0 frees the only page; truncating to the
  same size returns an uninitialised value.
- When the root directory is full every lookup fails (`Nufs_full.cfg`), and a rename
  that fills it keeps both names. `mknod` into a full directory keeps the inode it allocated. A
  name of 60 characters is stored with 59. `directory_init` ignores that there is
  no page, `alloc_inode`'s -1 is not tested everywhere.
- `link`, `rmdir` and `chmod` return -1.

Shells:

- nush: the child of `>` returns from `execute` into the main loop and runs the rest
  of the script a second time, with its output in the file (`implement.c:303`):
  `Shell_out.cfg`.
- nush: the right side of a pipe keeps the reading end open while it waits for the
  left side (`implement.c:239`): a writer that fills the pipe after its reader has
  gone is not told, and both wait for ever. `ShellTerminates` has this one exception
  (`Stuck`); no line of the repository says that such a script ends.
- nush: `||` runs its right side only if the status is exactly 1, and a `cd` that
  fails has -1: run `shell_or`. `<` and `>` with
  an operator on the right crash the child, which counts as status 0.

Sort: `tsort.c` ignores the result of `pthread_create`, and negative floats are in
nobody's range: the model's inputs are not negative.

## 7. What is not modelled

- The console's line buffer, the ticks of `sys_sleep` (section 2), and the fetching of
  system call arguments.
- Boot code, device registers (`ideinit`, `lapic`, `uart`), traps' assembly: no
  state that a model would tell apart from the hardware's definition.
- hw06's sample sort is unfinished: it maps the file at an offset that is no
  multiple of the page size and its comparison function compares pointers, so
  there is no behaviour to state properties of. hw07 is the same program finished.
- hw01 to hw05 (assembly exercises, vectors, a hash map, the first tokenizer):
  sequential functions; the tokenizer of challenge 1 is the grown one.
- xv6's user programs other than the shell and the allocator, test scripts and
  tools: pure input and output, or tests.
- Failure of `mmap`, `pthread_create` and of the host; the contents of files, other
  than the order of bytes in a pipe and versions of blocks; in `Shell`, arguments of
  commands and running out of processes.
- `opt_malloc_copy2.c` is `hwx_malloc.c` again and is linked into no program.
