------------------------------- MODULE MCLegacy ------------------------------
(***************************************************************************)
(* Beats of two lanes, rows of two beats, two banks; two weights that      *)
(* share their reduction, one of two chunks, one packed two groups to a    *)
(* row; a cache of two kv heads over two chunks, flushed every beat or     *)
(* every two.                                                              *)
(***************************************************************************)
EXTENDS PimLegacyKv, TLC
MCChan == {0}
MCLatches == {0}
MCWord == 0 .. 10
MCShapes == {[n |-> 3, k |-> 1, bias |-> 1], [n |-> 2, k |-> 4, bias |-> 1]}
MCHeads == <<1, 0, 1>>
MCSymmetry == Permutations(Handle)
==============================================================================
