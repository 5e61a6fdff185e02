-------------------------------- MODULE PimMac --------------------------------
(***************************************************************************)
(* What one bank's MAC computes (pim_mac_exact.c, transcribed from the     *)
(* RTL): the products of a beat, aligned to the largest exponent and added *)
(* exactly, then added to the accumulator with rounding.                   *)
(*                                                                         *)
(* Widths are parameters, so that small numbers meet every branch; on the  *)
(* board they are 8, 7, 8 and 16.  A BF16 is [s, e, f]; the accumulator is *)
(* [s, e, m, inf, nan], m having Man bits with the point below the first.  *)
(* The code's 10-bit exponents and 28-bit sums hold every value that can   *)
(* occur, so they are integers here.                                       *)
(***************************************************************************)
EXTENDS Integers, Functions

CONSTANTS
  ExpBits,   \* exponent of a BF16 (8)
  FracBits,  \* its fraction (7)
  Pad,       \* bits a product is padded with before it is aligned (8)
  Lanes      \* products per beat (16)

ASSUME MacAssumption ==
  /\ ExpBits \in Nat \ {0} /\ FracBits \in Nat \ {0} /\ Pad \in Nat \ {0} /\ Lanes \in Nat \ {0}

Sets == INSTANCE FiniteSetsExt

Bias == 2^(ExpBits - 1) - 1
MaxExp == 2^ExpBits - 1
Man == 2 * (FracBits + 1) + Pad

Bf == [s : {0, 1}, e : 0 .. MaxExp, f : 0 .. 2^FracBits - 1]
BfZero == [s |-> 0, e |-> 0, f |-> 0]
BfOne == [s |-> 0, e |-> Bias, f |-> 0]

IsZero(a) == a.e = 0 /\ a.f = 0
IsInf(a) == a.e = MaxExp /\ a.f = 0
IsNan(a) == a.e = MaxExp /\ a.f # 0
Finite(a) == a.e # MaxExp

Signed(s, v) == IF s = 1 THEN -v ELSE v
Abs(v) == IF v < 0 THEN -v ELSE v
Msb(v) == CHOOSE k \in 0 .. 30 : 2^k <= v /\ v < 2^(k + 1)
Floor(v, places) == v \div 2^places
Sticky(v, places) == IF v % 2^places # 0 THEN 1 ELSE 0

------------------------------------------------------------------------------
(* bf16_mul: exact.  What is zero, infinite or not a number has exponent 0  *)
(* and mantissa 0.  Mutant: a zero keeps the exponent of its product.       *)
Hidden(a) == IF a.e = 0 THEN a.f ELSE 2^FracBits + a.f
Effective(e) == IF e = 0 THEN 1 ELSE e

MulNan(a, b) == IsNan(a) \/ IsNan(b) \/ (IsZero(a) /\ IsInf(b)) \/ (IsInf(a) /\ IsZero(b))
MulInf(a, b) == ~MulNan(a, b) /\ (IsInf(a) \/ IsInf(b))
MulExpKept(a, b) ==
  IF MulNan(a, b) \/ MulInf(a, b) THEN 0 ELSE Effective(a.e) + Effective(b.e) - Bias
MulExp(a, b) ==
  IF MulNan(a, b) \/ MulInf(a, b) \/ IsZero(a) \/ IsZero(b) THEN 0
  ELSE Effective(a.e) + Effective(b.e) - Bias
Mul(a, b) ==
  [s |-> (a.s + b.s) % 2, nan |-> MulNan(a, b), inf |-> MulInf(a, b), e |-> MulExp(a, b),
   m |-> IF MulNan(a, b) \/ MulInf(a, b) \/ IsZero(a) \/ IsZero(b) THEN 0 ELSE Hidden(a) * Hidden(b)]

------------------------------------------------------------------------------
(* bwms and the adder tree: the lanes p of a beat, each shifted down to the *)
(* largest exponent and cut off, then added exactly.                        *)
TopExp(p) == Sets!Max({p[i].e : i \in DOMAIN p})

Aligned(lane, top) ==
  Signed(lane.s, IF top - lane.e >= Man THEN 0 ELSE Floor(lane.m * 2^Pad, top - lane.e))

(* What the accumulator is handed: leading bit up, the bits below cut off.  *)
Ingest(nan, inf, s, v, top) ==
  [nan |-> nan, inf |-> inf, s |-> s, zero |-> v = 0 /\ ~nan /\ ~inf,
   e |-> IF v = 0 THEN top + 1 ELSE top + Msb(v) - (Man - 1) + 1,
   m |-> IF v = 0 THEN 0 ELSE Floor(v * 2^(Man - 1), Msb(v))]

Tree(p, sum, top) ==
  LET plus == \E i \in DOMAIN p : p[i].inf /\ p[i].s = 0
      minus == \E i \in DOMAIN p : p[i].inf /\ p[i].s = 1
      nan == (\E i \in DOMAIN p : p[i].nan) \/ (plus /\ minus)
      inf == ~nan /\ (plus \/ minus)
  IN  Ingest(nan, inf, IF inf THEN (IF plus THEN 0 ELSE 1) ELSE IF sum < 0 THEN 1 ELSE 0, Abs(sum), top)

TreeSum(p, top) == SumFunction([i \in DOMAIN p |-> Aligned(p[i], top)])
Beat(p) == Tree(p, TreeSum(p, TopExp(p)), TopExp(p))

Products(w, x) == [i \in DOMAIN w |-> Mul(w[i], x[i])]

------------------------------------------------------------------------------
(* The accumulator.                                                         *)
Empty == [s |-> 0, e |-> 0, m |-> 0, inf |-> FALSE, nan |-> FALSE]
Infinite(s) == [Empty EXCEPT !.s = s, !.e = MaxExp, !.inf = TRUE]
NotANumber == [Empty EXCEPT !.nan = TRUE]
Number(s, e, m) == [Empty EXCEPT !.s = s, !.e = e, !.m = m]

AccZero(acc) == acc.m = 0 /\ ~acc.inf /\ ~acc.nan

(* The smaller operand under the larger, three bits below its last place;   *)
(* what falls off is ORed into the last of them.                            *)
Jam(m, places) ==
  LET at == IF places > Man + 3 THEN Man + 3 ELSE places
      v == Floor(8 * m, at)
  IN  IF v % 2 = 0 THEN v + Sticky(8 * m, at) ELSE v

(* Leading bit to bit Man + 2, a bit that falls off ORed in.                *)
Normal(v) ==
  IF Msb(v) = Man + 3
  THEN Floor(v, 1) + (IF Floor(v, 1) % 2 = 0 THEN v % 2 ELSE 0)
  ELSE v * 2^(Man + 2 - Msb(v))

(* Round to nearest, ties to even, on the three low bits.                   *)
RoundUpBit(n) == IF (n \div 4) % 2 = 1 /\ (n % 4 # 0 \/ (n \div 8) % 2 = 1) THEN 1 ELSE 0
Rounded(s, n, e) ==
  LET m == (n \div 8) + RoundUpBit(n)
  IN  IF m = 2^Man THEN [s |-> s, e |-> e + 1, m |-> m \div 2] ELSE [s |-> s, e |-> e, m |-> m]

Added(big, bige, small, diff) ==
  LET sum == Signed(big.s, 8 * big.m) + Signed(small.s, Jam(small.m, diff))
  IN  IF sum = 0 THEN [s |-> 0, e |-> 0, m |-> 0]
      ELSE Rounded(IF sum < 0 THEN 1 ELSE 0, Normal(Abs(sum)), bige + Msb(Abs(sum)) - (Man + 2))

(* The sum before it is encoded; a zero on either side skips the rounder,   *)
(* and the accumulator then goes on with its raw exponent.                  *)
Sum(acc, b) ==
  LET e == IF acc.m # 0 THEN Effective(acc.e) ELSE acc.e
  IN  IF AccZero(acc) /\ b.zero THEN [s |-> 0, e |-> 0, m |-> 0]
      ELSE IF AccZero(acc) THEN b
      ELSE IF b.zero THEN acc
      ELSE IF e >= b.e THEN Added(acc, e, b, e - b.e)
      ELSE Added(b, b.e, acc, b.e - e)

(* Mutant: what is too small for the exponent is flushed to zero.           *)
EncodedFlush(v) ==
  IF v.m = 0 \/ v.e < 1 THEN Empty ELSE IF v.e > MaxExp - 1 THEN Infinite(v.s) ELSE Number(v.s, v.e, v.m)
Encoded(v) ==
  IF v.m = 0 THEN Empty
  ELSE IF v.e > MaxExp - 1 THEN Infinite(v.s)
  ELSE IF v.e >= 1 THEN Number(v.s, v.e, v.m)
  ELSE IF v.e >= 2 - Man THEN Number(v.s, 0, Floor(v.m, 1 - v.e))
  ELSE Empty

Accumulate(acc, b) ==
  IF acc.nan \/ b.nan \/ (acc.inf /\ b.inf /\ acc.s # b.s) THEN NotANumber
  ELSE IF acc.inf THEN acc
  ELSE IF b.inf THEN Infinite(b.s)
  ELSE Encoded(Sum(acc, b))

------------------------------------------------------------------------------
(* RD_MAC: the accumulator as a BF16, to nearest, ties to even.             *)
Cut == Man - 1 - FracBits
ToBf(acc) ==
  LET up == IF Floor(acc.m, Cut - 1) % 2 = 1 /\ (acc.m % 2^(Cut - 1) # 0 \/ Floor(acc.m, Cut) % 2 = 1)
            THEN 1 ELSE 0
      r == Floor(acc.m, Cut) + up
      carry == r = IF Floor(acc.m, Man - 1) = 1 THEN 2^(FracBits + 1) ELSE 2^FracBits
      e == IF carry THEN acc.e + 1 ELSE acc.e
  IN  CASE acc.nan -> [s |-> 0, e |-> MaxExp, f |-> 2^(FracBits - 1)]
        [] acc.inf \/ e > MaxExp - 1 -> [s |-> acc.s, e |-> MaxExp, f |-> 0]
        [] AccZero(acc) -> [s |-> acc.s, e |-> 0, f |-> 0]
        [] OTHER -> [s |-> acc.s, e |-> e, f |-> IF carry THEN 0 ELSE r % 2^FracBits]
==============================================================================
