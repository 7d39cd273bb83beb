------------------------------ MODULE Collatz ------------------------------
(***************************************************************************)
(* The programs of challenge 2 over their allocators: list_main.c keeps a  *)
(* task's numbers in a list, ivec_main.c in a vector, and both share their *)
(* tasks among threads that take turns by the dibs flag.  Any other program*)
(* (frag_main.c, the tests) makes any sequence of calls, as in Malloc.     *)
(*                                                                         *)
(* The numbers of a task are items, the newest last; chunks are the        *)
(* addresses of the cells of its list, or of its ivec and its data, in the *)
(* order in which they were allocated.                                     *)
(***************************************************************************)
EXTENDS Malloc, SequencesExt

CONSTANTS
  Threads,       \* THREADS
  DataTop,       \* data_top
  ITER,          \* steps of iterate, 50
  CAP0,          \* capacity of a new ivec, 4
  TASK,          \* sizeof(num_task)
  CollatzPages   \* bound: pages of the address space

ASSUME CollatzAssumption ==
  /\ DataTop \in Nat /\ DataTop >= 2
  /\ {ITER, CAP0, TASK, CollatzPages} \subseteq Nat \ {0}

VARIABLES
  program,  \* list, ivec, or any other
  main,     \* setup, join, cleanup, end
  table,    \* the addresses of the tasks array and of its tasks
  tasks,    \* vals, steps and dibs of each task
  th,       \* the threads, in scan_and_iterate
  best      \* the number with the most steps, and these

cvars == <<mallocVars, program, main, table, tasks, th, best>>

Tasks == 0..(DataTop - 1)
NoVals == [items |-> <<>>, chunks |-> <<>>, cap |-> CAP0]
Idle == [pc |-> "next", base |-> 0, i0 |-> DataTop, done |-> 0, ii |-> 0, xs |-> NoVals, rest |-> <<>>]

CollatzInit ==
  /\ NoMemory
  /\ program \in IF impl \in Mutexed THEN {"any", "list", "ivec"} ELSE {"any"}
  /\ limit = IF program = "any" THEN MemPages ELSE CollatzPages
  /\ main = "setup"
  /\ table = <<>>
  /\ tasks = [ii \in Tasks |-> [vals |-> NoVals, steps |-> -1, dibs |-> FALSE]]
  /\ th = [t \in Threads |-> Idle]
  /\ best = <<0, 0>>

-----------------------------------------------------------------------------
(* Calls of the allocator: the outcomes [s, l, xs] that Becomes(s, l) and  *)
(* the new value of xs make a step of.                                     *)
MallocOf(r) == malloc(List, mapped, Larger(r))
With(chunk, r) == live \cup {InUse(chunk, r)}
Chunk(a) == CHOOSE x \in live : x.a = a
NoChange == [free |-> List, mapped |-> mapped]

(* a cell of the list *)
cons(xs, v) ==
  {[s |-> s, l |-> With(s.chunk, 2),
    xs |-> [xs EXCEPT !.items = Append(@, v), !.chunks = Append(@, s.chunk.a)]] : s \in MallocOf(2)}

(* the two calls of make_ivec, struct and data *)
make_ivec(xs) ==
  LET r == IF xs.chunks = <<>> THEN 3 ELSE xs.cap
  IN  {[s |-> s, l |-> With(s.chunk, r), xs |-> [xs EXCEPT !.chunks = Append(@, s.chunk.a)]] : s \in MallocOf(r)}

(* a full vector doubles its capacity first *)
ivec_push(xs, v) ==
  LET new == [xs EXCEPT !.items = Append(@, v)]
      data == Chunk(xs.chunks[2])
  IN  IF Len(xs.items) < xs.cap THEN {[s |-> NoChange, l |-> live, xs |-> new]}
      ELSE {[s |-> s, l |-> (live \ {data}) \cup {InUse(s.chunk, 2 * xs.cap)},
             xs |-> [new EXCEPT !.cap = 2 * @, !.chunks[2] = s.chunk.a]] : s \in Reallocated(data, 2 * xs.cap)}

Push(xs, v) == IF program = "list" THEN cons(xs, v)
               ELSE IF Len(xs.chunks) < 2 THEN make_ivec(xs) ELSE ivec_push(xs, v)

count_list(xs) == Len(xs.items)
ivec_last(xs) == Last(xs.items)

(* A copy starts with the capacity of its original; ivec_copy and the      *)
(* recursion of copy_list both push the oldest number first.               *)
ivec_copy(xs) == [NoVals EXCEPT !.cap = xs.cap]
copy_list(xs, old) == Push(xs, old.items[count_list(xs) + 1])

(* The head of a list was allocated last; an ivec's data goes before it. *)
free_list(chunks) == chunks # <<>> /\ Released(Chunk(Last(chunks)))

-----------------------------------------------------------------------------
(* main, before the threads: the array, then each task and its first number *)
Setup ==
  LET ii == Len(table) - 2
      started == Len(table) >= 2 => tasks[ii].vals.items # <<>>
      r == IF table = <<>> THEN DataTop ELSE TASK
  IN  /\ main = "setup" /\ program # "any"
      /\ \/ /\ started /\ Len(table) <= DataTop
            /\ \E s \in MallocOf(r) : Allocated(s, r) /\ table' = Append(table, s.chunk.a)
            /\ UNCHANGED <<main, tasks>>
         \/ /\ ~started
            /\ \E o \in Push(tasks[ii].vals, ii) :
                 Becomes(o.s, o.l) /\ tasks' = [tasks EXCEPT ![ii].vals = o.xs]
            /\ UNCHANGED <<main, table>>
         \/ /\ started /\ Len(table) > DataTop
            /\ main' = "join"
            /\ UNCHANGED <<mallocVars, table, tasks>>
      /\ UNCHANGED <<program, th, best>>

(* main has joined the threads: the first number with the most steps *)
Report ==
  LET most == Max({tasks[ii].steps : ii \in Tasks} \cup {0})
      first == Min({ii \in Tasks : tasks[ii].steps = most} \cup (IF most = 0 THEN {0} ELSE {}))
  IN  /\ main = "join" /\ program # "any"
      /\ \A t \in Threads : th[t].pc = "done"
      /\ best' = <<first, most>>
      /\ main' = "cleanup"
      /\ UNCHANGED <<mallocVars, program, table, tasks, th>>

(* the numbers of each task, the task, and at last the array are freed *)
Cleanup ==
  LET ii == DataTop + 1 - Len(table)
      chunks == tasks[ii].vals.chunks
  IN  /\ main = "cleanup"
      /\ \/ /\ Len(table) > 1 /\ free_list(chunks)
            /\ tasks' = [tasks EXCEPT ![ii].vals.chunks = Front(@)]
            /\ UNCHANGED <<main, table>>
         \/ /\ Len(table) > 1 /\ chunks = <<>>
            /\ Released(Chunk(table[2]))
            /\ table' = <<table[1]>> \o Tail(Tail(table))
            /\ UNCHANGED <<main, tasks>>
         \/ /\ Len(table) = 1
            /\ Released(Chunk(table[1]))
            /\ table' = <<>>
            /\ main' = "end"
            /\ UNCHANGED tasks
      /\ UNCHANGED <<program, th, best>>

-----------------------------------------------------------------------------
Running(t, pc) == main = "join" /\ program # "any" /\ th[t].pc = pc

(* worker: scans follow each other until one has found every task done *)
Worker(t) ==
  /\ Running(t, "next") /\ th[t].i0 = DataTop
  /\ \/ /\ th[t].done # DataTop - 1
        /\ \E base \in Tasks : th' = [th EXCEPT ![t].base = base, ![t].i0 = 1, ![t].done = 0]
     \/ /\ th[t].done = DataTop - 1
        /\ th' = [th EXCEPT ![t] = [Idle EXCEPT !.pc = "done"]]
  /\ UNCHANGED <<mallocVars, program, main, table, tasks, best>>

DibsMutant(ii) == tasks

Dibs(ii) == [tasks EXCEPT ![ii].dibs = TRUE]

(* the next task, under its lock: skipped if another thread has it *)
Take(t) ==
  LET ii == 1 + ((th[t].base + th[t].i0) % (DataTop - 1))
  IN  /\ Running(t, "next") /\ th[t].i0 < DataTop
      /\ IF tasks[ii].dibs
           THEN th' = [th EXCEPT ![t].i0 = @ + 1] /\ UNCHANGED tasks
           ELSE th' = [th EXCEPT ![t].ii = ii, ![t].pc = "look"] /\ tasks' = Dibs(ii)
      /\ UNCHANGED <<mallocVars, program, main, table, best>>

(* the task is at 1, and counted, or its numbers are copied *)
Look(t) ==
  LET ii == th[t].ii
      vals == tasks[ii].vals
  IN  /\ Running(t, "look")
      /\ \/ /\ ivec_last(vals) > 1
            /\ th' = [th EXCEPT ![t].pc = "copy", ![t].xs = ivec_copy(vals)]
            /\ UNCHANGED tasks
         \/ /\ ivec_last(vals) <= 1
            /\ tasks' = IF tasks[ii].steps # -1 THEN tasks
                        ELSE [tasks EXCEPT ![ii].steps = count_list(vals) - 1]
            /\ th' = [th EXCEPT ![t].pc = "release", ![t].done = @ + 1]
      /\ UNCHANGED <<mallocVars, program, main, table, best>>

collatz_step(n) == IF n % 2 = 0 THEN n \div 2 ELSE 3 * n + 1

(* copy_list or ivec_copy, then iterate: one number at a time *)
Iterate(t) ==
  LET old == tasks[th[t].ii].vals
      xs == th[t].xs
      n == count_list(xs) - count_list(old)
      full == n >= ITER \/ (n > 0 /\ ivec_last(xs) = 1)
      next == IF n < 0 THEN copy_list(xs, old) ELSE Push(xs, collatz_step(ivec_last(xs)))
  IN  /\ Running(t, "copy")
      /\ \/ /\ ~full
            /\ \E o \in next : Becomes(o.s, o.l) /\ th' = [th EXCEPT ![t].xs = o.xs]
         \/ /\ full
            /\ th' = [th EXCEPT ![t].pc = "free", ![t].rest = old.chunks]
            /\ UNCHANGED mallocVars
      /\ UNCHANGED <<program, main, table, tasks, best>>

(* free_list or free_ivec of the old numbers, then the new ones take their place *)
Replace(t) ==
  LET rest == th[t].rest
  IN  /\ Running(t, "free")
      /\ \/ /\ free_list(rest)
            /\ th' = [th EXCEPT ![t].rest = Front(@)]
            /\ UNCHANGED tasks
         \/ /\ rest = <<>>
            /\ tasks' = [tasks EXCEPT ![th[t].ii].vals = th[t].xs]
            /\ th' = [th EXCEPT ![t].xs = NoVals, ![t].pc = "release"]
            /\ UNCHANGED mallocVars
      /\ UNCHANGED <<program, main, table, best>>

Release(t) ==
  /\ Running(t, "release")
  /\ tasks' = [tasks EXCEPT ![th[t].ii].dibs = FALSE]
  /\ th' = [th EXCEPT ![t].i0 = @ + 1, ![t].ii = 0, ![t].pc = "next"]
  /\ UNCHANGED <<mallocVars, program, main, table, best>>

OtherProgram == program = "any" /\ MallocNext /\ UNCHANGED <<program, main, table, tasks, th, best>>

CollatzNext ==
  \/ OtherProgram \/ Setup \/ Report \/ Cleanup
  \/ \E t \in Threads : Worker(t) \/ Take(t) \/ Look(t) \/ Iterate(t) \/ Replace(t) \/ Release(t)

CollatzSpec == CollatzInit /\ [][CollatzNext]_cvars

-----------------------------------------------------------------------------
(* who holds addresses of chunks: the table, the tasks whose numbers no    *)
(* thread is freeing, and the threads                                      *)
Freeing(ii) == \E t \in Threads : th[t].pc = "free" /\ th[t].ii = ii
Holders == {<<"table", 0>>} \cup ({"task"} \X Tasks) \cup ({"new", "old"} \X Threads)
HeldBy(h) == CASE h[1] = "table" -> table
               [] h[1] = "task"  -> IF Freeing(h[2]) THEN <<>> ELSE tasks[h[2]].vals.chunks
               [] h[1] = "new"   -> th[h[2]].xs.chunks
               [] h[1] = "old"   -> th[h[2]].rest

(* A chunk in use is held in exactly one place, and none is held that is   *)
(* not in use: dibs, taken under the lock and held without it, keeps two   *)
(* threads from copying and freeing the same numbers; nothing is freed     *)
(* twice, and at the end of the program everything has been freed.         *)
TasksOwned ==
  /\ UNION {ToSet(HeldBy(h)) : h \in Holders} = {x.a : x \in live}
  /\ MapThenSumSet(LAMBDA h : Len(HeldBy(h)), Holders) = Cardinality(live)

Steps(n) == LET S[m \in Nat] == IF m = 1 THEN 0 ELSE 1 + S[collatz_step(m)] IN S[n]

(* The number reported has the most steps of all, whatever the threads did *)
(* at the same time.                                                       *)
MostSteps ==
  main \in {"cleanup", "end"} =>
    /\ best[2] = Steps(best[1])
    /\ \A n \in 1..(DataTop - 1) : Steps(n) <= best[2]

(* The Collatz programs are right. *)
CollatzSound == program # "any" => TasksOwned /\ MostSteps
=============================================================================
