------------------------------ MODULE MCPrograms ------------------------------
(* Two channels of two banks, rows of two beats of two elements; a matrix   *)
(* of three groups and three chunks whose units lie in reversed rows.       *)
EXTENDS PimPrograms

MCMatrix == Plan("out", 11, 11)
MCRowOf == [u \in 0 .. 8 |-> 20 - u]
MCChan == 0 .. 1
MCWord == 0 .. 15
MCLatches == {0, 1}

(* By hand: two vector lengths, two result words, both latches.             *)
W(sz) == [op |-> "WRVEC", sz |-> sz, row |-> 1, ch |-> Chan, t |-> 0]
M(sz, t) == [op |-> "MAC", sz |-> sz, row |-> 1, ch |-> {0}, t |-> t]
R(w, t) == [op |-> "RD_MAC", sz |-> 0, row |-> w, ch |-> {0}, t |-> t]
E == [op |-> "EOS", sz |-> 0, row |-> 1, ch |-> Chan, t |-> 0]
MCAlphabet == {W(1), W(2), M(1, 0), M(2, 0), M(1, 1), R(1, 0), R(2, 0), R(2, 1), E}

(* Accumulators of both channels, drained one at a time.                    *)
MCTwoChannels == {W(1), [M(1, 0) EXCEPT !.ch = Chan], R(1, 0), [R(2, 0) EXCEPT !.ch = {1}], E}

(* GEMV: one row with a tail, groups and chunks with tails, an odd number   *)
(* of groups for two latches.                                               *)
MCWeights == {Plan("out", 5, 3), Plan("out", 5, 5), Plan("out", 11, 11)}
==============================================================================
