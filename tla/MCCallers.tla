------------------------------- MODULE MCCallers ------------------------------
(* PimCallers on three DRAM hugepages and one GPR page.                     *)
EXTENDS PimCallers, TLC

MCNr == [m \in Region |-> IF m = "dram" THEN 3 ELSE 1]
MCAllocRequests ==
  {[n |-> 1, cap |-> 1, contig |-> FALSE], [n |-> 2, cap |-> 1, contig |-> FALSE],
   [n |-> 2, cap |-> 2, contig |-> FALSE], [n |-> 2, cap |-> 2, contig |-> TRUE]}

(* FREE: one extent, in the region or past its end; or two.                *)
Ext(k, i, r) == [at |-> k, first |-> i, run |-> r]
MCFreeRequests == {{Ext(0, 1, 2)}, {Ext(0, 2, 2)}, {Ext(0, 0, 1), Ext(1, 2, 1)}}
MCSymmetry == Permutations(Thread) \cup Permutations(Fd)
==============================================================================
