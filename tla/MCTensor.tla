------------------------------- MODULE MCTensor -------------------------------
(* Two channels of one bank, rows of two beats of two elements: matrices in *)
(* the hands of any caller, and one layer of the KV cache.                  *)
EXTENDS PimTensorCalls, PimKv

Shape(l, o, r) == [layout |-> l, nout |-> o, nred |-> r]

(* A K and a V that cross into a second chunk, a K of two groups, and a V   *)
(* that lies in one chunk with padding on its growth axis.                  *)
MCShapes == {Shape("out", 2, 5), Shape("out", 3, 3), Shape("red", 2, 3), Shape("red", 1, 5)}

(* The two share no state: each moves while the other is at its start, the  *)
(* layer with one of the shapes, which are not its own.                     *)
MCInit == Init /\ LayerInit
MCNext ==
  \/ layer = <<None, None, 0, <<>>, FALSE>> /\ Next /\ UNCHANGED layer
  \/ vars = <<None, Shape("out", 2, 5), FALSE>> /\ LayerNext /\ UNCHANGED vars
MCSpec == MCInit /\ [][MCNext]_<<vars, layer>>
==============================================================================
