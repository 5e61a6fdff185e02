------------------------------- MODULE MCEngine -------------------------------
(* Small instances of PimEngine: programs for two channels.                 *)
EXTENDS PimEngine

W(sz) == [op |-> "WRVEC", sz |-> sz, row |-> 1, ch |-> Chan, t |-> 0]
M(sz) == [op |-> "MAC", sz |-> sz, row |-> 1, ch |-> Chan, t |-> 0]
R(w, c) == [op |-> "RD_MAC", sz |-> 0, row |-> w, ch |-> {c}, t |-> 0]
E == [op |-> "EOS", sz |-> 0, row |-> 1, ch |-> Chan, t |-> 0]

(* One chunk; two chunks of different lengths; and one the verifier refuses.*)
MCShort == <<W(1), M(1), R(1, 0), R(2, 1), E>>
MCLong == <<W(2), M(2), W(1), M(1), R(2, 0), R(1, 1), E>>
MCRefused == <<W(1), M(2), R(1, 0), R(2, 1), E>>
MCPrograms == {MCShort, MCLong, MCRefused}
MCScrub == ScrubProgram(<<0, 1>>, <<1, 2>>)
==============================================================================
