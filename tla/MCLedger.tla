------------------------------- MODULE MCLedger -------------------------------
(* Small instances of PimLedger: three DRAM hugepages and one GPR page.     *)
EXTENDS PimLedger, TLC

MCNr == [m \in Region |-> IF m = "dram" THEN 3 ELSE 1]

(* /proc: one kind of ALLOC, of two extents if it must; one FREE of one     *)
(* extent and one of two.                                                   *)
MCOneRequest == {[n |-> 2, cap |-> 2, contig |-> FALSE]}
Ext(k, i, r) == [at |-> k, first |-> i, run |-> r]
MCPlainFrees == {{Ext(0, 1, 1)}, {Ext(0, 0, 1), Ext(1, 2, 1)}}

(* Callers that may name one hugepage in both of two extents.               *)
MCTwiceRequests == {{Ext(0, i, 1), Ext(1, j, 1)} : i \in 0 .. 2, j \in 0 .. 2}

MCSymmetry == Permutations(Thread) \cup Permutations(Fd)
==============================================================================
