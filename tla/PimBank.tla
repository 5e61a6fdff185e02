------------------------------- MODULE PimBank --------------------------------
(***************************************************************************)
(* One bank under a stream of beats.  `acc' is fed what the model of       *)
(* pim_mac_exact.c feeds: the live lanes, and zeros behind them.  `twin'   *)
(* is fed what the card is: the lanes in another order, and behind them    *)
(* whatever the row holds against the zeros the host padded its vector     *)
(* with (pim_gemv_upload_x, pim_op_add).                                   *)
(***************************************************************************)
EXTENDS PimMac

CONSTANTS
  Weight,   \* of a live lane, in a row
  Operand,  \* of a live lane, in the vector
  Stale,    \* what a dead lane of a row may hold
  Live      \* live lanes of a beat

ASSUME BankAssumption ==
  Weight \subseteq Bf /\ Operand \subseteq Bf /\ Stale \subseteq Bf /\ Live \subseteq 1 .. Lanes

VARIABLES
  acc,      \* accumulator of the model
  twin,     \* accumulator of the card
  tainted   \* a dead lane held an infinity or a NaN since the last drain

bank == <<acc, twin, tainted>>

Padded(v, n, with) == [i \in 1 .. Lanes |-> IF i <= n THEN v[i] ELSE with]
Turned(v) == [i \in 1 .. Lanes |-> v[Lanes + 1 - i]]

Start == acc = Empty /\ twin = Empty /\ tainted = FALSE

Clean(w, x, n) == Products(Padded(w, n, BfZero), Padded(x, n, BfZero))
Real(w, x, n, g) == Products(Turned(Padded(w, n, g)), Turned(Padded(x, n, BfZero)))
Beats ==
  UNION {{[p |-> Beat(Clean(w, x, n)), r |-> Beat(Real(w, x, n, g)), bad |-> n < Lanes /\ ~Finite(g)] :
            w \in [1 .. n -> Weight], x \in [1 .. n -> Operand],
            g \in (IF n < Lanes THEN Stale ELSE {BfZero})} : n \in Live}

Mac(b) ==
  /\ acc' = Accumulate(acc, b.p)
  /\ twin' = Accumulate(twin, b.r)
  /\ tainted' = (tainted \/ b.bad)

(* RD_MAC leaves the accumulator empty.                                     *)
Drain == acc' = Empty /\ twin' = Empty /\ tainted' = FALSE

Feed == (\E b \in Beats : Mac(b)) \/ Drain

------------------------------------------------------------------------------
(* Neither the order of the lanes nor what a row holds behind a zero of the *)
(* vector can be seen in an answer, unless it is an infinity or a NaN: then *)
(* the answer is a NaN, however long ago it was met and whatever came after.*)
OnlyProductsCount ==
  IF tainted THEN ToBf(twin) = ToBf(NotANumber) ELSE twin = acc

(* Exact values, in units below the smallest product's last place.         *)
AccValue(a) == Signed(a.s, a.m) * 2^(Effective(a.e) - 1 + Bias)
ExactSum(p) == SumFunction([i \in DOMAIN p |-> Signed(p[i].s, p[i].m * 2^(Pad + p[i].e + Bias))])
Weighed ==
  UNION {{[b |-> Beat(Clean(w, x, n)), exact |-> ExactSum(Clean(w, x, n)), top |-> TopExp(Clean(w, x, n))] :
            w \in [1 .. n -> Weight], x \in [1 .. n -> Operand]} : n \in Live}

(* A beat changes the accumulator by the exact sum of its products, but for *)
(* what the alignment cuts off (less than one last place of the largest     *)
(* product per lane, and as much again when the sum is cut to width) and    *)
(* one last place of the result.  A beat of zeros is left out: it halves a  *)
(* subnormal accumulator.                                                   *)
Near(a, after, exact, top) ==
  Abs(AccValue(after) - AccValue(a) - exact)
    <= 2 * Lanes * 2^(top + Bias) + 2^(Effective(after.e) - 1 + Bias)
LosesOnlyLastPlaces ==
  ~acc.inf /\ ~acc.nan =>
    \A v \in {u \in Weighed : ~u.b.zero /\ ~u.b.inf /\ ~u.b.nan} :
      LET after == Accumulate(acc, v.b) IN after.inf \/ Near(acc, after, v.exact, v.top)
==============================================================================
