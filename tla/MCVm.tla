-------------------------------- MODULE MCVm --------------------------------
(* Programs for model checking Vm: one page; text and a data segment that  *)
(* is longer in memory than in the file; one too large for memory.         *)
EXTENDS Vm

Seg(first, file, memory) == [first |-> first, file |-> file, mem |-> memory]
SmallBrks == {-3, -2, 3}
SmallProgs == {<<Seg(0, 1, 1)>>, <<Seg(0, 2, 2), Seg(1, 0, 1)>>,
               <<Seg(0, 1, 1), Seg(4, 0, 3)>>}
=============================================================================
