-------------------------------- MODULE MCPool --------------------------------
(* Two contexts over a card of three DRAM hugepages of two granules: enough *)
(* of a hugepage to be partly used, and of them for an allocation of four   *)
(* granules to be scattered.  And two processes of two threads that come to *)
(* a default context and fork.                                              *)
EXTENDS PimPool, PimDefault

MCHugepages == [dram |-> 3]
MCGpb == [dram |-> 2]

(* The two share no state: each moves while the other is at its start.      *)
MCInit == Init /\ DefaultInit
MCNext ==
  \/ DefaultInit /\ Next /\ UNCHANGED defaults
  \/ Init /\ DefaultNext /\ UNCHANGED vars
MCSpec == MCInit /\ [][MCNext]_<<vars, defaults>>

MCSymmetry == Permutations(Ctx) \cup Permutations(VRange) \cup Permutations(Threads)
==============================================================================
