------------------------------ MODULE MCStorage -----------------------------
(***************************************************************************)
(* Three stores that share nothing, for one run of the model checker: the  *)
(* file system of xv6, nufs, and the allocators with the Collatz programs. *)
(* Each behaviour is of one of them; the others stay as they begin.        *)
(***************************************************************************)
EXTENDS MCFs, MCNufs, Collatz

VARIABLE running    \* the store of this behaviour

(* processes are alike, and so are threads *)
MCSymmetric == Symmetric \cup Permutations(Threads)

MCInit ==
  /\ running \in {"fs", "nufs", "malloc"}
  /\ Init /\ NufsInit /\ CollatzInit
  /\ running # "malloc" => impl = "hwx" /\ program = "any"

MCNext ==
  /\ UNCHANGED running
  /\ \/ running = "fs" /\ Next /\ UNCHANGED <<nufsVars, cvars>>
     \/ running = "nufs" /\ NufsNext /\ UNCHANGED <<vars, cvars>>
     \/ running = "malloc" /\ CollatzNext /\ UNCHANGED <<vars, nufsVars>>

MCSpec == MCInit /\ [][MCNext]_<<running, vars, nufsVars, cvars>>

-----------------------------------------------------------------------------
(* After every sequence of FUSE callbacks the bitmaps of pages and inodes  *)
(* and the counts of names are exact (storage.c, inode.c, directory.c).    *)
NufsExact == running = "nufs" => NufsInv

(* The chunks in use and the free ones are disjoint, large enough and      *)
(* coalesced, and the statistics are exact, after every sequence of calls  *)
(* of the five allocators.                                                 *)
ChunksSound == running = "malloc" => MallocInv

(* Every word mapped is in a chunk, a free cell or a page given back: the  *)
(* decision by size when a chunk is freed is that of when it was made.     *)
WordsKept == running = "malloc" => NoWordLost

(* A chunk of the Collatz programs has one owner, and they report the      *)
(* number with the most steps.                                             *)
CollatzRight == running = "malloc" => CollatzSound
=============================================================================
