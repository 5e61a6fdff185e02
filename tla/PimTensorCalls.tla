---------------------------- MODULE PimTensorCalls ----------------------------
(***************************************************************************)
(* One growing matrix in the hands of one caller: pim_tensor.c's calls in  *)
(* any order, on memory that held anything before.                         *)
(***************************************************************************)
EXTENDS PimTensor

CONSTANTS
  Shapes,    \* [layout, nout, nred] a caller may ask for
  Name,      \* what it stores steps under, naturals other than 0
  MaxCount,  \* steps appended at once
  Forward    \* the caller also truncates past the frontier

ASSUME CallsAssumption ==
  /\ Name \subseteq Nat \ {0} /\ MaxCount \in Nat /\ Forward \in BOOLEAN
  /\ \A s \in Shapes : s.layout \in Layout /\ s.nout \in Nat \ {0} /\ s.nred \in Nat \ {0}

VARIABLES t,      \* the tensor, or None before pim_tensor_alloc
          shape,  \* what this caller allocates
          torn    \* a call that failed has changed the tensor

live == t # None

vars == <<t, shape, torn>>

Init == t = None /\ shape \in Shapes /\ torn = FALSE

AllocTensor(zero) ==
  /\ ~live
  /\ t' = Alloc(shape.layout, shape.nout, shape.nred, zero)
  /\ UNCHANGED <<shape, torn>>

FreeTensor == live /\ t' = None /\ torn' = FALSE /\ UNCHANGED shape

Outcome(outcomes) ==
  /\ live
  /\ \E o \in outcomes : t' = o.t /\ torn' = (torn \/ (~o.ok /\ o.t # t))
  /\ UNCHANGED shape

UploadTensor(v) == Outcome(Upload(t, v))

(* count # 0; an append of nothing changes nothing.                         *)
AppendTensor(first, count, v) == live /\ Outcome(AppendSteps(t, first, count, v))

TruncateTensor(pos) == live /\ (Forward \/ pos <= t.frontier) /\ Outcome(Truncate(t, pos))

Growth == 0 .. (IF shape.layout = "out" THEN shape.nout ELSE shape.nred)

Next ==
  \/ \E zero \in BOOLEAN : AllocTensor(zero)
  \/ FreeTensor
  \/ \E v \in Name : UploadTensor(v)
  \/ \E first \in Growth, count \in 1 .. MaxCount, v \in Name : AppendTensor(first, count, v)
  \/ \E pos \in Growth : TruncateTensor(pos)

Spec == Init /\ [][Next]_vars

------------------------------------------------------------------------------

(* The zero contract of pim_tensor.h: the rest of the last beat that a      *)
(* launch of `frontier' steps reads is zero, for every output, padding      *)
(* included, as long as no call failed half way.                            *)
ZeroTail ==
  live /\ ~torn /\ t.layout = "red" =>
    \A o \in 0 .. t.noutpad - 1, red \in t.frontier .. Least(RoundUp(t.frontier, Epb), t.nredpad) - 1 :
      Seen(t, o, red) = Zero

(* What a launch sees below the frontier is a sequence of steps that only   *)
(* extends, is rewritten in place or is cut back; a step is never found     *)
(* half old, half new or in another's place unless a call on it failed, and *)
(* there is no gap that nothing wrote: "A GAP WOULD BE SILENT"              *)
(* (pim_tensor.c:298).                                                      *)
Tokens == INSTANCE PimTokens WITH
  Name <- Name, capacity <- IF shape.layout = "out" THEN shape.nout ELSE shape.nred,
  tokens <- IF live THEN [i \in 1 .. t.frontier |-> StepAt(t, i - 1)] ELSE <<>>
Remembers == Tokens!Spec
==============================================================================
