------------------------------- MODULE Malloc -------------------------------
(***************************************************************************)
(* The allocators of the repository:                                       *)
(*   hwx_malloc.c  one free list in address order, first fit, splitting    *)
(*                 and coalescing;                                         *)
(*   opt_malloc.c  bins of cells of the sizes BIN, 2 BIN, 4 BIN, ...       *)
(*   hmalloc.c     hw08's ancestor of hwx_malloc.c, with statistics;       *)
(*   umalloc.c     xv6's, over sbrk, and xv6_malloc.c, its copy over mmap. *)
(* Those for threads hold a lock from the first to the last instruction of *)
(* a call, so a call is one step whatever thread makes it.                 *)
(*                                                                         *)
(* Addresses and sizes are in words; a chunk starts with a header of HDR   *)
(* words that holds its size, and a free cell needs CELL words.  A list in *)
(* address order is a set of cells.  mmap gives any pages that are not     *)
(* mapped, so pages may touch or not, and be mapped again.                 *)
(***************************************************************************)
EXTENDS Integers, Sequences, FiniteSets, FiniteSetsExt, KrMalloc

CONSTANTS
  HDR,       \* sizeof(size_t)
  CELL,      \* sizeof(fl_cell)
  PAGE,      \* PAGE_SIZE
  BIN,       \* size of the smallest bin of opt_malloc.c
  TOP,       \* its last bin, whose cells have HEAP_SIZE
  CORE,      \* what umalloc.c asks the system for at least
  MemPages,  \* bound: pages of the address space
  Requests,  \* sizes programs ask for
  MaxLive    \* bound: chunks in use at a time

ASSUME MallocAssumption ==
  /\ HDR \in Nat \ {0} /\ CELL \in Nat /\ CELL >= HDR
  /\ PAGE \in Nat /\ PAGE > CELL
  /\ BIN \in Nat /\ BIN >= CELL
  /\ TOP \in Nat /\ (BIN * 2^TOP) % PAGE = 0
  /\ CORE \in Nat
  /\ MemPages \in Nat /\ MaxLive \in Nat
  /\ Requests \subseteq Nat

VARIABLES
  impl,    \* the library the program is linked with
  head,    \* hwx and h: the free list, a set of cells with address a and size n
  heads,   \* opt: for each bin the stack of addresses of its free cells
  mapped,  \* mapped pages
  limit,   \* pages of the address space
  stats,   \* h: pages mapped and not unmapped, chunks allocated and not freed
  ring,    \* kr: the ring of free cells,
  freep,   \* where the search in it starts,
  core,    \* and the words that morecore got
  live     \* chunks in use: address, size in the header, size asked for

kr == <<ring, freep, core>>
mallocVars == <<impl, limit, head, heads, mapped, stats, kr, live>>

Mutexed == {"hwx", "opt"}
KR == {"umalloc", "xv6"}

Bins == 0..TOP
BinSize(i) == BIN * 2^i
HEAP == BinSize(TOP)

div_up(x) == (x + PAGE - 1) \div PAGE

(* the pages of n words from address a, and the addresses where mmap may put n words *)
Span(a, n) == (a \div PAGE)..(a \div PAGE + div_up(n) - 1)
mmap(M, n) == {a \in {q * PAGE : q \in 0..(limit - div_up(n))} : Span(a, n) \cap M = {}}

(* munmap refuses an address that is not that of a page *)
munmap(M, x) == IF x.a % PAGE = 0 THEN M \ Span(x.a, x.n) ELSE M

Larger(r) == IF r + HDR < CELL THEN CELL ELSE r + HDR

NoMemory ==
  /\ impl \in Mutexed \cup {"h"} \cup KR
  /\ head = {}
  /\ heads = [i \in Bins |-> <<>>]
  /\ mapped = {}
  /\ stats = [pages |-> 0, chunks |-> 0]
  /\ ring = EmptyRing
  /\ freep = Base
  /\ core = {}
  /\ live = {}

MallocInit == NoMemory /\ limit = MemPages

-----------------------------------------------------------------------------
(* hwx_malloc.c *)

(* the first cell of the list that is large enough *)
search_size(F, n) == LET a == Min({x.a : x \in {y \in F : y.n >= n}})
                     IN  CHOOSE x \in F : x.a = a

(* the list stays in address order *)
insert_fl_cell(F, x) == F \cup {[a |-> x.a, n |-> x.n]}

(* cell x of the list joins the cell after it and the one before it *)
coalesce(F, x) ==
  LET next == {y \in F : y.a = x.a + x.n}
      last == {y \in F : y.a + y.n = x.a}
  IN  {y \in F \ (next \cup last) : y.a # x.a}
        \cup {[a |-> Min({y.a : y \in last \cup {x}}),
               n |-> x.n + SumSet({y.n : y \in next}) + SumSet({y.n : y \in last})]}

LeftoverMutant(x, n) ==
  IF x.n - n > CELL THEN {[a |-> x.a + n - HDR, n |-> x.n - n + HDR]} ELSE {}

(* what split_chunk puts back into the list *)
Leftover(x, n) == IF x.n - n > CELL THEN {[a |-> x.a + n, n |-> x.n - n]} ELSE {}

CutMutant(x, n) == [x EXCEPT !.n = n]

(* the chunk cut from cell x: all of it if no cell fits behind the chunk *)
Cut(x, n) == IF Leftover(x, n) = {} THEN x ELSE [x EXCEPT !.n = n]

(* xmalloc_helper for n words: pages of its own, a cell of the list, or a  *)
(* cell of the list after a page has been added to it                      *)
hwx_malloc(F, M, n) ==
  LET From(G, N) == LET x == search_size(G, n)
                    IN  [chunk |-> Cut(x, n), free |-> (G \ {x}) \cup Leftover(x, n), mapped |-> N]
  IN  IF n >= PAGE
        THEN {[chunk |-> [a |-> a, n |-> div_up(n) * PAGE], free |-> F,
               mapped |-> M \cup Span(a, n)] : a \in mmap(M, n)}
      ELSE IF \E x \in F : x.n >= n
        THEN {From(F, M)}
        ELSE {LET page == [a |-> a, n |-> PAGE]
              IN  From(coalesce(insert_fl_cell(F, page), page), M \cup Span(a, PAGE)) : a \in mmap(M, PAGE)}

(* xfree_helper: what is a page or more is taken to have been mapped alone *)
hwx_free(F, M, x) ==
  IF x.n >= PAGE THEN [free |-> F, mapped |-> munmap(M, x)]
                 ELSE [free |-> coalesce(insert_fl_cell(F, x), x), mapped |-> M]

-----------------------------------------------------------------------------
(* opt_malloc.c *)

get_fl_index(n) == Min({i \in Bins : BinSize(i) >= n})

(* the first cell of the bin above becomes two cells of bin i *)
pull_from_above(h, i) ==
  [h EXCEPT ![i + 1] = Tail(@),
            ![i] = <<Head(h[i + 1]), Head(h[i + 1]) + BinSize(i)>> \o @]

(* bin i gets a cell if it has none; if all bins above are empty too, the  *)
(* last one gets the heap mapped at address a                              *)
redistribute(h, i, a) ==
  LET R[j \in Bins] == IF h[j] # <<>> THEN h
                       ELSE IF j = TOP THEN [h EXCEPT ![TOP] = <<a>>]
                       ELSE pull_from_above(R[j + 1], j)
  IN  R[i]

opt_malloc(h, M, n) ==
  LET i == get_fl_index(n)
      Pop(g, N) == [chunk |-> [a |-> Head(g[i]), n |-> BinSize(i)],
                    free |-> [g EXCEPT ![i] = Tail(@)], mapped |-> N]
  IN  IF n > HEAP
        THEN {[chunk |-> [a |-> a, n |-> n], free |-> h,
               mapped |-> M \cup Span(a, n)] : a \in mmap(M, n)}
      ELSE IF \E j \in i..TOP : h[j] # <<>>
        THEN {Pop(redistribute(h, i, 0), M)}
        ELSE {Pop(redistribute(h, i, a), M \cup Span(a, HEAP)) : a \in mmap(M, HEAP)}

opt_free(h, M, x) ==
  IF x.n > HEAP THEN [free |-> h, mapped |-> munmap(M, x)]
                ELSE [free |-> [h EXCEPT ![get_fl_index(x.n)] = <<x.a>> \o @], mapped |-> M]

-----------------------------------------------------------------------------
(* The calls of hwx_malloc.c and opt_malloc.c. *)
malloc(F, M, n) == IF impl = "hwx" THEN hwx_malloc(F, M, n) ELSE opt_malloc(F, M, n)
free(F, M, x) == IF impl = "hwx" THEN hwx_free(F, M, x) ELSE opt_free(F, M, x)
List == IF impl = "hwx" THEN head ELSE heads

Becomes(s, l) ==
  /\ IF impl = "hwx" THEN head' = s.free /\ UNCHANGED heads
                     ELSE heads' = s.free /\ UNCHANGED head
  /\ mapped' = s.mapped
  /\ live' = l
  /\ UNCHANGED <<impl, limit, stats, kr>>

InUse(chunk, r) == [a |-> chunk.a, n |-> chunk.n, req |-> r]

Allocated(s, r) == Becomes(s, live \cup {InUse(s.chunk, r)})

xmalloc ==
  \E r \in Requests :
    /\ impl \in Mutexed
    /\ Cardinality(live) < MaxLive
    /\ \E s \in malloc(List, mapped, Larger(r)) : Allocated(s, r)

Released(x) == Becomes(free(List, mapped, x), live \ {x})

xfree == impl \in Mutexed /\ \E x \in live : Released(x)

(* opt: a chunk that is large enough stays where it is *)
Keeps(x, r) == impl = "opt" /\ r + HDR <= x.n

(* a new chunk, the contents copied, the old chunk freed *)
Reallocated(x, r) ==
  IF Keeps(x, r) THEN {[chunk |-> x, free |-> List, mapped |-> mapped]}
  ELSE {LET t == free(s.free, s.mapped, x) IN [chunk |-> s.chunk, free |-> t.free, mapped |-> t.mapped] :
          s \in malloc(List, mapped, Larger(r))}

xrealloc ==
  /\ impl \in Mutexed
  /\ \E x \in live, r \in Requests \ {0} : \E s \in Reallocated(x, r) :
       Becomes(s, (live \ {x}) \cup {InUse(s.chunk, r)})

-----------------------------------------------------------------------------
(* hmalloc.c: the list of hwx_malloc.c, for one thread, with statistics *)
hmalloc ==
  \E r \in Requests :
    /\ impl = "h"
    /\ Cardinality(live) < MaxLive
    /\ \E s \in hwx_malloc(head, mapped, Larger(r)) :
         /\ head' = s.free
         /\ mapped' = s.mapped
         /\ live' = live \cup {InUse(s.chunk, r)}
         /\ stats' = [pages |-> stats.pages + Cardinality(s.mapped \ mapped), chunks |-> stats.chunks + 1]
    /\ UNCHANGED <<impl, limit, heads, kr>>

(* munmap gets the address after the header *)
hfree ==
  \E x \in live :
    /\ impl = "h"
    /\ LET s == hwx_free(head, mapped, IF x.n >= PAGE THEN [x EXCEPT !.a = @ + HDR] ELSE x)
       IN  head' = s.free /\ mapped' = s.mapped
    /\ live' = live \ {x}
    /\ stats' = [pages |-> stats.pages - (IF x.n >= PAGE THEN div_up(x.n) ELSE 0), chunks |-> stats.chunks - 1]
    /\ UNCHANGED <<impl, limit, heads, kr>>

-----------------------------------------------------------------------------
(* umalloc.c and xv6_malloc.c; a word is a Header *)
nunits(r) == r + 1

(* where sbrk or mmap may put nu units; with none malloc returns 0 *)
sbrk(nu) == LET brk == Max({w + 1 : w \in core} \cup {0})
            IN  IF brk + nu <= limit * PAGE THEN {brk} ELSE {}
mmapcore(nu) == mmap({w \div PAGE : w \in core}, nu)
Space(nu) == IF impl = "umalloc" THEN sbrk(nu) ELSE mmapcore(nu)

Carved(s, r) ==
  LET c == Carve(s.ring, s.freep, nunits(r))
  IN  /\ ring' = c.ring
      /\ freep' = c.freep
      /\ live' = live \cup {InUse(c.chunk, r)}

KrMallocCall ==
  \E r \in Requests :
    /\ impl \in KR
    /\ Cardinality(live) < MaxLive
    /\ \/ /\ Fits(ring, freep, nunits(r)) # {}
          /\ Carved([ring |-> ring, freep |-> freep], r)
          /\ UNCHANGED core
       \/ /\ Fits(ring, freep, nunits(r)) = {}
          /\ LET nu == Max({nunits(r), CORE})
             IN  \E a \in Space(nu) : /\ core' = core \cup a..(a + nu - 1)
                                      /\ Carved(morecore(ring, a, nu), r)
    /\ UNCHANGED <<impl, limit, head, heads, mapped, stats>>

KrFreeCall ==
  \E x \in live :
    /\ impl \in KR
    /\ LET s == kr_free(ring, x) IN ring' = s.ring /\ freep' = s.freep
    /\ live' = live \ {x}
    /\ UNCHANGED <<impl, limit, head, heads, mapped, stats, core>>

MallocNext == xmalloc \/ xfree \/ xrealloc \/ hmalloc \/ hfree \/ KrMallocCall \/ KrFreeCall

MallocSpec == MallocInit /\ [][MallocNext]_mallocVars

-----------------------------------------------------------------------------
MallocTypeOK ==
  /\ impl \in Mutexed \cup {"h"} \cup KR /\ limit \in Nat
  /\ \A x \in head : x.a \in 0..(limit * PAGE) /\ x.n \in 1..(limit * PAGE)
  /\ \A i \in Bins : \A j \in DOMAIN heads[i] : heads[i][j] \in 0..(limit * PAGE)
  /\ mapped \subseteq 0..(limit - 1)

(* the free cells of all libraries, and the words a chunk or a cell takes: *)
(* a chunk that was mapped alone has all of its last page                   *)
InBins == {[a |-> heads[i][j], n |-> BinSize(i), bin |-> i, at |-> j] :
             <<i, j>> \in {p \in Bins \X (1..(limit * PAGE)) : p[2] \in DOMAIN heads[p[1]]}}
OnRing == {[a |-> p, n |-> ring[p].n] : p \in DOMAIN ring \ {Base}}
Cells == live \cup head \cup InBins \cup OnRing

TakenWords(x) == IF impl = "opt" /\ x.n > HEAP THEN div_up(x.n) * PAGE ELSE x.n
Words(x) == x.a..(x.a + TakenWords(x) - 1)

(* Splitting, joining, pulling cells from the bin above and reallocating   *)
(* never hand a word out twice: chunks in use and free cells are pairwise  *)
(* disjoint and no cell is in two bins or twice in one.                    *)
Disjoint == \A x, y \in Cells : x # y => Words(x) \cap Words(y) = {}

(* A chunk has the words asked for after its header, and room to become a  *)
(* free cell again.                                                        *)
LargeEnough == \A x \in Cells : /\ x.n >= IF impl \in KR THEN 1 ELSE CELL
                                /\ x \in live => x.n >= x.req + HDR

(* No two cells of the list, or of the ring, touch: free joins whatever it *)
(* makes adjacent, and cutting a chunk from a cell makes nothing adjacent. *)
Coalesced == \A x, y \in head \cup OnRing : x.a + x.n # y.a

(* The allocators are sound; the ring is one cycle in address order, which *)
(* the search for a chunk's place relies on, and freep is never a cell     *)
(* that has been joined to another or handed out.                          *)
MallocInv == MallocTypeOK /\ Disjoint /\ LargeEnough /\ Coalesced /\ InRing(ring, freep)

(* a request that leaves no more than a cell of a page: the free list may  *)
(* then give away a cell of a page or more whole                           *)
NearPage(r) == PAGE - CELL <= Larger(r) /\ Larger(r) < PAGE

(* Every word that the system gave is in a chunk in use or in a free cell, *)
(* and these are nowhere else: the decision by size between the list and   *)
(* munmap loses no memory and unmaps nothing that is in use.  hwx_malloc.c *)
(* and hmalloc.c promise it only if no request is near a page.  hmalloc.c  *)
(* never gives a page back, but its statistics count what is in its cells. *)
NoWordLost ==
  LET held == UNION {Words(x) : x \in Cells}
      given == UNION {(q * PAGE)..((q + 1) * PAGE - 1) : q \in mapped} \cup core
  IN  ~(impl \in {"hwx", "h"} /\ \E r \in Requests : NearPage(r)) =>
        IF impl = "h" THEN /\ held \subseteq given
                           /\ Cardinality(held) = stats.pages * PAGE
                           /\ Cardinality(live) = stats.chunks
        ELSE held = given

(* frag_main.c writes to all of every chunk that it has, whatever the size *)
(* it asked for: no xfree of another chunk unmaps a word of it.            *)
InUseMapped == impl \notin KR => \A x \in live : {w \div PAGE : w \in Words(x)} \subseteq mapped
=============================================================================
