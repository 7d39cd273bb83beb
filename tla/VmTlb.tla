------------------------------- MODULE VmTlb -------------------------------
(***************************************************************************)
(* Vm with what a CPU's TLB remembers.  switchuvm empties it.  When sbrk   *)
(* takes the whole memory away, growproc returns -1 before switchuvm, and  *)
(* until the next timer interrupt the process reaches the pages it had:    *)
(* kfree's junk, which is what it now runs, stores too (0x01 0x01 is an    *)
(* add to memory).  What such a store does to the links of the free list   *)
(* is left out.                                                            *)
(***************************************************************************)
EXTENDS Vm

VARIABLE tlb   \* of each process: pages that were freed and that its CPU still maps

tvars == <<vmVars, tlb>>

TlbInit == VmInit /\ tlb = [p \in VmProcs |-> {}]

(* growproc with size 0: -1 is returned with the pages freed. *)
ShrinkToNothing(p) ==
  /\ growproc(p, -proc[p].sz)
  /\ tlb' = [tlb EXCEPT ![p] = {proc[p].pgdir.map[a] : a \in proc[p].pgdir.u}]

(* The other steps of Vm.  A process without pages traps and exits. *)
Others ==
  /\ VmNext
  /\ \A p \in VmProcs : CanRun(p) => proc'[p].pgdir.map[0] # 0
  /\ tlb' = [p \in VmProcs |-> IF proc'[p].st = "RUNNABLE" THEN tlb[p] ELSE {}]

(* A store through the TLB, to a page that may be another's by now. *)
StaleStore(p) ==
  /\ InUser(p)
  /\ \E f \in tlb[p] : mem' = memset(mem, f, p)
  /\ UNCHANGED <<proc, call, view, calls, tlb>>

(* The timer interrupt: yield, and switchuvm when the process is resumed. *)
Yield(p) ==
  /\ tlb[p] # {}
  /\ tlb' = [tlb EXCEPT ![p] = {}]
  /\ UNCHANGED vmVars

TlbNext == \/ Others
           \/ \E p \in VmProcs : (p # 1 /\ ShrinkToNothing(p)) \/ StaleStore(p) \/ Yield(p)

TlbSpec == TlbInit /\ [][TlbNext]_tvars
=============================================================================
