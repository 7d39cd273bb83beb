------------------------------ MODULE KrMalloc ------------------------------
(***************************************************************************)
(* The allocator of Kernighan and Ritchie that xv6's programs are linked   *)
(* with (umalloc.c), and its copy for mmap (xv6_malloc.c).  The free cells *)
(* are a ring through base: ring[p] is the header of the free cell at p,   *)
(* its ptr and its size n in headers.  base lies below the heap.           *)
(*                                                                         *)
(* These are functions from the ring r and freep f to the new ones; Malloc *)
(* makes steps of them.                                                    *)
(***************************************************************************)
EXTENDS Integers, Sequences, FiniteSets, FiniteSetsExt, Functions

Base == -1

(* the ring that the first malloc makes *)
EmptyRing == [p \in {Base} |-> [ptr |-> Base, n |-> 0]]

(* x belongs between p and the cell after p: in order, or at the wrap *)
Between(r, p, x) == \/ p < x.a /\ x.a < r[p].ptr
                    \/ p >= r[p].ptr /\ (x.a > p \/ x.a < r[p].ptr)

(* Chunk x goes into the ring where its address belongs and joins the cell *)
(* after it and the one before it; freep is the one before.                *)
kr_free(r, x) ==
  LET p == CHOOSE q \in DOMAIN r : Between(r, q, x)
      next == r[p].ptr
      up == x.a + x.n = next
      down == p + r[p].n = x.a
      bp == IF up THEN [ptr |-> r[next].ptr, n |-> x.n + r[next].n] ELSE [ptr |-> next, n |-> x.n]
      pp == IF down THEN [ptr |-> bp.ptr, n |-> r[p].n + bp.n] ELSE [r[p] EXCEPT !.ptr = x.a]
      cells == (DOMAIN r \ (IF up THEN {next} ELSE {})) \cup (IF down THEN {} ELSE {x.a})
  IN  [ring |-> [q \in cells |-> IF q = p THEN pp ELSE IF q = x.a THEN bp ELSE r[q]],
       freep |-> p]

(* the i-th cell from freep *)
CellAt(r, f, i) == LET A[j \in Nat] == IF j = 0 THEN f ELSE r[A[j - 1]].ptr IN A[i]

(* how many cells from freep, whose turn is last, the first with room for n is *)
Fits(r, f, n) == {i \in 1..Cardinality(DOMAIN r) : r[CellAt(r, f, i)].n >= n}

(* the chunk is all of the first cell that fits, or its tail *)
Carve(r, f, n) ==
  LET i == Min(Fits(r, f, n))
      prevp == CellAt(r, f, i - 1)
      p == CellAt(r, f, i)
  IN  IF r[p].n = n
        THEN [chunk |-> [a |-> p, n |-> n],
              ring |-> Restrict([r EXCEPT ![prevp].ptr = r[p].ptr], DOMAIN r \ {p}), freep |-> prevp]
        ELSE [chunk |-> [a |-> p + r[p].n - n, n |-> n],
              ring |-> [r EXCEPT ![p].n = @ - n], freep |-> prevp]

(* malloc once there is a cell for n: a new one of nu headers, which       *)
(* morecore has got at address a, is freed first                           *)
morecore(r, a, nu) == kr_free(r, [a |-> a, n |-> nu])

(* The ring is one cycle in address order, and freep is on it. *)
InRing(r, f) ==
  /\ f \in DOMAIN r
  /\ \A p \in DOMAIN r :
       LET above == {q \in DOMAIN r : q > p}
       IN  r[p].ptr = IF above = {} THEN Base ELSE Min(above)
=============================================================================
