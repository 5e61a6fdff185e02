--------------------------------- MODULE MCOp ---------------------------------
(* Two channels of one bank, rows of two beats of two elements; a matrix of *)
(* four groups and three chunks.                                            *)
EXTENDS PimOp

MCMatrix == Plan("out", 8, 12)
MCRowOf == [u \in 0 .. 11 |-> 20 - u]
MCChan == 0 .. 1
MCLatches == {0, 1}
MCWord == 0 .. VWords + YWords - 1

Ask(first, count, off, len) == [first |-> first, count |-> count, off |-> off, len |-> len]

(* Heads of one chunk; whole rows of two chunks in more groups than a       *)
(* launch holds, and all but one element of them; part of a row and a row;  *)
(* requests of one and of two beats; and two chunks' worth that lies in     *)
(* three, beside some that does not.                                        *)
MCMenus ==
  {{Ask(0, 1, 2, 2), Ask(2, 2, 6, 2)}, {Ask(0, 4, 0, 8), Ask(1, 2, 0, 7)}, {Ask(1, 3, 0, 3), Ask(0, 2, 4, 4)},
   {Ask(0, 1, 2, 2), Ask(0, 1, 0, 4)}, {Ask(0, 3, 2, 8), Ask(1, 2, 0, 7)}}
==============================================================================
