------------------------------ MODULE PimTokens -------------------------------
(***************************************************************************)
(* What a growing tensor promises its caller: a sequence of steps that can *)
(* be extended, rewritten in place and cut back.  A call that fails loses  *)
(* at most the steps it was asked to touch; a lost step is 0.              *)
(***************************************************************************)
EXTENDS Integers, Sequences

CONSTANT Name      \* what steps are stored under

VARIABLES
  tokens,    \* the steps
  capacity   \* how many may be stored, fixed at the outset

vars == <<tokens, capacity>>

Lost == 0

Init == tokens = <<>> /\ capacity \in Nat

(* Steps first + 1 .. first + count become v.                               *)
Store(first, count, v) ==
  /\ first <= Len(tokens) /\ first + count <= capacity
  /\ tokens' = [i \in 1 .. (IF first + count > Len(tokens) THEN first + count ELSE Len(tokens)) |->
                  IF i \in first + 1 .. first + count THEN v ELSE tokens[i]]

CutBack(pos) == pos <= Len(tokens) /\ tokens' = SubSeq(tokens, 1, pos)

(* A failed call on the steps from first on.                                *)
Fail(first, v) ==
  /\ Len(tokens') = Len(tokens)
  /\ \A i \in 1 .. Len(tokens) :
       tokens'[i] = tokens[i] \/ (i > first /\ tokens'[i] \in {v, Lost})

Next ==
  \/ \E first \in 0 .. capacity, count \in 1 .. capacity, v \in Name : Store(first, count, v)
  \/ \E pos \in 0 .. capacity : CutBack(pos)
  \/ \E first \in 0 .. capacity, v \in Name : Fail(first, v)

Spec == Init /\ [][Next /\ UNCHANGED capacity]_vars
==============================================================================
