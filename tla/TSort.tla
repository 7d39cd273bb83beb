-------------------------------- MODULE TSort --------------------------------
(***************************************************************************)
(* The threaded sample sort of hw07 (tsort.c).  The main thread samples    *)
(* the array, creates the workers one by one and joins them; each worker   *)
(* scans the whole shared array for its range, sorts it, meets the others  *)
(* at the barrier, and copies its range back into the same array.  Scans   *)
(* and copies go element by element.  The barrier is the abstract one that *)
(* barrier.c is proved to implement.                                       *)
(***************************************************************************)
EXTENDS Integers, Sequences, FiniteSets, Functions

CONSTANTS T,         \* num_threads
          MaxSize,   \* bound on the number of floats in the input file
          Values     \* the floats of the input, all of them >= 0.0

ASSUME TAssumption == T \in Nat \ {0}
ASSUME MaxSizeAssumption == MaxSize \in Nat \ {0}
ASSUME ValuesAssumption == /\ Values \subseteq Nat
                           /\ \E m \in Values : \A v \in Values : v <= m

Workers == 0..(T - 1)
INFINITY == 1 + CHOOSE m \in Values : \A v \in Values : v <= m
Uninit == -1   \* an element of the uninitialised array sizes

VARIABLES input,     \* the floats read from the file
          fs,        \* the shared array, sorted in place
          medians,   \* the T + 1 range limits, <<>> before and after their life
          sizes,     \* the length of every worker's range
          phase,     \* per worker: unborn, scan, count, barrier, copy, exited
          pos,       \* per worker: loop index of the scan or of the copy
          range,     \* per worker: its private vector
          arrived, left,   \* the barrier
          main,      \* sample, create, join, write, end
          next       \* loop index of the main thread

sortVars == <<input, fs, medians, sizes, phase, pos, range, arrived, left, main, next>>

Barrier == INSTANCE BarrierSpec WITH Threads <- Workers

(* Sorted, the i-th element is the least for which i elements are at most it. *)
AtMost(s, x) == Cardinality({j \in DOMAIN s : s[j] <= x})
qsort_floats(s) ==
    [i \in 1..Len(s) |-> CHOOSE x \in Range(s) :
                           /\ i <= AtMost(s, x)
                           /\ \A y \in Range(s) : i <= AtMost(s, y) => x <= y]

-----------------------------------------------------------------------------
(* main: the file is read into fs.  sizes is an uninitialised array. *)
SortInit == /\ input \in UNION {[1..n -> Values] : n \in 1..MaxSize}
            /\ fs = input
            /\ medians = <<>>
            /\ sizes = [w \in Workers |-> Uninit]
            /\ phase = [w \in Workers |-> "unborn"]
            /\ pos = [w \in Workers |-> 1]
            /\ range = [w \in Workers |-> <<>>]
            /\ Barrier!AInit
            /\ main = "sample"
            /\ next = 0

(* 3 * (T - 1) random samples; the middle one of each three is a limit. *)
Sample ==
    /\ main = "sample"
    /\ \E loc \in [1..(3 * (T - 1)) -> DOMAIN fs] :
         LET sampled == qsort_floats([i \in DOMAIN loc |-> fs[loc[i]]])
         IN  medians' = <<0>> \o [k \in 1..(T - 1) |-> sampled[3 * k - 1]]
                        \o <<INFINITY>>
    /\ main' = "create"
    /\ UNCHANGED <<input, fs, sizes, phase, pos, range, arrived, left, next>>

(* pthread_create, one worker at a time: the first may run at once. *)
Create ==
    /\ main = "create"
    /\ phase' = [phase EXCEPT ![next] = "scan"]
    /\ next' = (next + 1) % T
    /\ main' = IF next + 1 = T THEN "join" ELSE "create"
    /\ UNCHANGED <<input, fs, medians, sizes, pos, range, arrived, left>>

(* The medians freed without waiting for the workers. *)
JoinMutant ==
    /\ main = "join"
    /\ next' = (next + 1) % T
    /\ IF next + 1 = T THEN main' = "write" /\ medians' = <<>>
                       ELSE UNCHANGED <<main, medians>>
    /\ UNCHANGED <<input, fs, sizes, phase, pos, range, arrived, left>>

(* pthread_join in order; the medians are freed after the last one. *)
Join ==
    /\ main = "join"
    /\ phase[next] = "exited"
    /\ next' = (next + 1) % T
    /\ IF next + 1 = T THEN main' = "write" /\ medians' = <<>>
                       ELSE UNCHANGED <<main, medians>>
    /\ UNCHANGED <<input, fs, sizes, phase, pos, range, arrived, left>>

(* main writes the array to the output file. *)
Write == /\ main = "write"
         /\ main' = "end"
         /\ UNCHANGED <<input, fs, medians, sizes, phase, pos, range, arrived, left, next>>

-----------------------------------------------------------------------------
(* Both limits of the range taken as inclusive. *)
InRangeMutant(w, x) == medians[w + 1] <= x /\ x <= medians[w + 2]

InRange(w, x) == medians[w + 1] <= x /\ x < medians[w + 2]

(* One iteration of in_range: read an element, keep it if it is in range. *)
ScanOne(w) ==
    /\ phase[w] = "scan"
    /\ pos[w] <= Len(fs)
    /\ range' = IF InRange(w, fs[pos[w]])
                THEN [range EXCEPT ![w] = Append(@, fs[pos[w]])] ELSE range
    /\ pos' = [pos EXCEPT ![w] = @ + 1]
    /\ UNCHANGED <<input, fs, medians, sizes, phase, arrived, left, main, next>>

(* A worker with nothing to do ends without meeting the others. *)
PublishMutant(w) ==
    /\ phase[w] = "scan"
    /\ pos[w] > Len(fs)
    /\ sizes' = [sizes EXCEPT ![w] = Len(range[w])]
    /\ range' = [range EXCEPT ![w] = qsort_floats(@)]
    /\ pos' = [pos EXCEPT ![w] = 1]
    /\ phase' = [phase EXCEPT ![w] = IF range[w] = <<>> THEN "exited" ELSE "barrier"]
    /\ UNCHANGED <<input, fs, medians, arrived, left, main, next>>

(* End of the scan: publish the size, sort the private vector. *)
Publish(w) ==
    /\ phase[w] = "scan"
    /\ pos[w] > Len(fs)
    /\ sizes' = [sizes EXCEPT ![w] = Len(range[w])]
    /\ range' = [range EXCEPT ![w] = qsort_floats(@)]
    /\ pos' = [pos EXCEPT ![w] = 1]
    /\ phase' = [phase EXCEPT ![w] = "barrier"]
    /\ UNCHANGED <<input, fs, medians, arrived, left, main, next>>

Arrive(w) ==
    /\ phase[w] = "barrier"
    /\ Barrier!Arrive(w)
    /\ UNCHANGED <<input, fs, medians, sizes, phase, pos, range, main, next>>

(* A worker that does not wait for the others. *)
LeaveMutant(w) ==
    /\ phase[w] = "barrier"
    /\ w \in arrived
    /\ left' = left \cup {w}
    /\ phase' = [phase EXCEPT ![w] = "copy"]
    /\ UNCHANGED <<input, fs, medians, sizes, pos, range, arrived, main, next>>

Leave(w) ==
    /\ phase[w] = "barrier"
    /\ Barrier!Leave(w)
    /\ phase' = [phase EXCEPT ![w] = "copy"]
    /\ UNCHANGED <<input, fs, medians, sizes, pos, range, main, next>>

(* The prefix sum of the sizes: where the range of worker w begins. *)
start[w \in Workers] == IF w = 0 THEN 0 ELSE start[w - 1] + sizes[w - 1]

(* One element of the memcpy into the shared array. *)
CopyOne(w) ==
    /\ phase[w] = "copy"
    /\ pos[w] <= Len(range[w])
    /\ fs' = [fs EXCEPT ![start[w] + pos[w]] = range[w][pos[w]]]
    /\ pos' = [pos EXCEPT ![w] = @ + 1]
    /\ UNCHANGED <<input, medians, sizes, phase, range, arrived, left, main, next>>

(* The vector and the job are freed and the thread ends. *)
Exit(w) ==
    /\ phase[w] = "copy"
    /\ pos[w] > Len(range[w])
    /\ range' = [range EXCEPT ![w] = <<>>]
    /\ phase' = [phase EXCEPT ![w] = "exited"]
    /\ UNCHANGED <<input, fs, medians, sizes, pos, arrived, left, main, next>>

Worker(w) == \/ ScanOne(w) \/ Publish(w) \/ Arrive(w)
             \/ Leave(w) \/ CopyOne(w) \/ Exit(w)
Main == Sample \/ Create \/ Join \/ Write

SortNext == Main \/ (\E w \in Workers : Worker(w))

SortSpec == SortInit /\ [][SortNext]_sortVars

(* The scheduler runs every thread that can run. *)
SortFairness == WF_sortVars(Main) /\ \A w \in Workers : WF_sortVars(Worker(w))
FairSortSpec == SortSpec /\ SortFairness

-----------------------------------------------------------------------------
Phases == {"unborn", "scan", "barrier", "copy", "exited"}

SortTypeOK ==
    /\ fs \in [1..Len(input) -> Values]
    /\ sizes \in [Workers -> {Uninit} \cup 0..Len(input)]
    /\ phase \in [Workers -> Phases]
    /\ pos \in [Workers -> 1..(Len(input) + 1)]
    /\ main \in {"sample", "create", "join", "write", "end"}
    /\ next \in Workers

Running(w) == phase[w] \in {"scan", "barrier", "copy"}

(* The medians outlive every worker, and no worker reads an unset size. *)
NoStaleMemory ==
    /\ \A w \in Workers : Running(w) => Len(medians) = T + 1
    /\ \A w \in Workers : phase[w] = "copy" => \A v \in 0..w : sizes[v] # Uninit

(* The array changes only while no worker can still be scanning it. *)
NoWriteDuringScan ==
    [][fs' # fs => \A w \in Workers : phase[w] \notin {"unborn", "scan"}]_sortVars

(* The file written has the floats of the input, each as often, in order. *)
Times(s, x) == Cardinality({j \in DOMAIN s : s[j] = x})
OutputSorted ==
    main = "end" => /\ \A i, j \in DOMAIN fs : i < j => fs[i] <= fs[j]
                    /\ \A x \in Values : Times(fs, x) = Times(input, x)

(* The program ends. *)
Terminates == <>(main = "end")

(* What orders the accesses to shared memory without a lock: the creation  *)
(* and the joins of the threads, and the barrier.                          *)
Created ==
    /\ main = "sample" => next = 0 /\ \A w \in Workers : phase[w] = "unborn"
    /\ main = "create" => \A w \in Workers : phase[w] = "unborn" <=> w >= next
    /\ main = "join" => \A w \in Workers : /\ phase[w] # "unborn"
                                           /\ w < next => phase[w] = "exited"
    /\ main \in {"create", "join"} => Len(medians) = T + 1
    /\ main \in {"write", "end"} => \A w \in Workers : phase[w] = "exited"

Met ==
    \A w \in Workers :
      /\ w \in arrived => phase[w] \in {"barrier", "copy", "exited"}
      /\ phase[w] \in {"copy", "exited"} => Workers \subseteq arrived
      /\ phase[w] \in {"barrier", "copy", "exited"} => sizes[w] \in Nat
      /\ phase[w] \in {"unborn", "scan"} => fs = input /\ range[w] \in Seq(Values)

Ordered == /\ input \in Seq(Values)
           /\ main \in {"sample", "create", "join", "write", "end"}
           /\ phase \in [Workers -> Phases] /\ next \in Workers
           /\ DOMAIN sizes = Workers /\ DOMAIN range = Workers
           /\ pos \in [Workers -> Nat \ {0}]
           /\ Created /\ Met

(* What makes OutputSorted inductive: the ranges are slices of the sorted  *)
(* input, and Begin is where the sum of the sizes will put each of them.   *)
(* A worker that scans has the elements in its range up to its position;   *)
(* then it holds its slice, copies it, and leaves it in place.             *)
Sorted == qsort_floats(input)
Begin(w) == Cardinality({i \in DOMAIN input : input[i] < medians[w + 1]})

Limits == /\ medians \in [1..(T + 1) -> Nat]
          /\ medians[1] = 0 /\ \A v \in Values : v < medians[T + 1]
          /\ \A k \in 1..T : medians[k] <= medians[k + 1]

Scanned(w) ==
    LET seen == {i \in 1..(pos[w] - 1) : InRange(w, input[i])}
    IN  /\ pos[w] <= Len(input) + 1
        /\ range[w] \in Seq(Values) /\ Len(range[w]) = Cardinality(seen)
        /\ \A k \in DOMAIN range[w] : InRange(w, range[w][k])
        /\ \A x \in Values :
             AtMost(range[w], x) = Cardinality({i \in seen : input[i] <= x})

Slice(w) ==
    /\ range[w] \in Seq(Values) /\ Len(range[w]) = Begin(w + 1) - Begin(w)
    /\ \A k \in DOMAIN range[w] : range[w][k] = Sorted[Begin(w) + k]

InPlace(i) == fs[i] = Sorted[i]

Sliced(w) ==
    /\ phase[w] = "unborn" => range[w] = <<>> /\ pos[w] = 1
    /\ phase[w] = "scan" => Scanned(w)
    /\ phase[w] \in {"barrier", "copy"} => Slice(w) /\ pos[w] <= Len(range[w]) + 1
    /\ phase[w] = "barrier" => pos[w] = 1
    /\ phase[w] = "copy" => \A k \in 1..(pos[w] - 1) : InPlace(Begin(w) + k)
    /\ phase[w] \in {"barrier", "copy", "exited"} => sizes[w] = Begin(w + 1) - Begin(w)
    /\ phase[w] = "exited" => \A i \in (Begin(w) + 1)..Begin(w + 1) : InPlace(i)

Slices ==
    /\ main \in {"create", "join"} => Limits /\ \A w \in Workers : Sliced(w)
    /\ main = "sample" => \A w \in Workers : range[w] = <<>> /\ pos[w] = 1
    /\ main \in {"write", "end"} => fs = Sorted

(* The types; Ordered; NoStaleMemory: the medians live as long as the      *)
(* workers that read them, and sizes are read only once they are set; and  *)
(* Slices.                                                                 *)
SortInv == SortTypeOK /\ NoStaleMemory /\ Ordered /\ Slices
=============================================================================
