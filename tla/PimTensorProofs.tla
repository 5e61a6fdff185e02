---------------------------- MODULE PimTensorProofs ----------------------------
(***************************************************************************)
(* For every geometry, every shape and every order of calls on a growing   *)
(* matrix: what lies behind the frontier is zero, and what lies before it  *)
(* is the sequence of steps PimTokens promises.  And for the KV cache made *)
(* of two of them: the tokens transformers was told of are in both, and    *)
(* attention reads them and nothing else, unless a freed layer is used     *)
(* again before it is reset.                                               *)
(***************************************************************************)
EXTENDS PimTensorCalls, PimKv, TLAPS

------------------------------------------------------------------------------
(* What pim_tensor.c's arithmetic comes to, for every geometry: elements    *)
(* have places of their own, a transfer writes the elements it is for and   *)
(* no others, and each call of PimTensor is judged by what a launch sees of *)
(* the matrix T afterwards.                                                 *)
(* Division with remainder, as the code uses it.                            *)
LEMMA DivMod ==
  ASSUME NEW n \in Nat, NEW d \in Nat \ {0}
  PROVE  n \div d \in Nat /\ n % d \in 0 .. d - 1 /\ n = d * (n \div d) + (n % d)
BY SMT

(* A multiple grows with its factor ...                                    *)
LEMMA Monotone ==
  ASSUME NEW d \in Nat, NEW a \in Nat, NEW b \in Nat, a <= b
  PROVE  d * a <= d * b
<1>1. d * b = d * a + d * (b - a)
  BY SMT
<1>2. b - a \in Nat
  BY SMT
<1>3. \A h \in Nat : d * h >= 0
  BY SMT
<1> QED BY <1>1, <1>2, <1>3, SMT

(* ... and by at least the number it is a multiple of.                     *)
LEMMA NextMultiple ==
  ASSUME NEW d \in Nat, NEW a \in Nat, NEW b \in Nat, a + 1 <= b
  PROVE  d * a + d <= d * b
<1>1. d * b = d * a + d + d * (b - a - 1)
  BY SMT
<1>2. b - a - 1 \in Nat
  BY SMT
<1>3. \A h \in Nat : d * h >= 0
  BY SMT
<1> QED BY <1>1, <1>2, <1>3, SMT

(* Quotient and remainder are unique ...                                    *)
LEMMA DivUnique ==
  ASSUME NEW d \in Nat \ {0}, NEW q \in Nat, NEW r \in 0 .. d - 1,
         NEW p \in Nat, NEW s \in 0 .. d - 1, d * q + r = d * p + s
  PROVE  q = p /\ r = s
<1>1. ~ (q + 1 <= p)
  BY NextMultiple, SMT
<1>2. ~ (p + 1 <= q)
  BY NextMultiple, SMT
<1>3. q = p
  BY <1>1, <1>2, SMT
<1> QED BY <1>3, SMT

(* ... so a number built from them is taken apart into them again.          *)
LEMMA DivOfSum ==
  ASSUME NEW d \in Nat \ {0}, NEW q \in Nat, NEW r \in 0 .. d - 1
  PROVE  (d * q + r) \div d = q /\ (d * q + r) % d = r
<1> DEFINE n == d * q + r
<1>1. n \in Nat
  BY SMT
<1>2. n \div d \in Nat /\ n % d \in 0 .. d - 1 /\ n = d * (n \div d) + (n % d)
  BY <1>1, DivMod
<1> HIDE DEF n
<1>3. d * q + r = d * (n \div d) + (n % d)
  BY <1>2 DEF n
<1>4. n \div d = q /\ n % d = r
  BY <1>2, <1>3, DivUnique
<1> QED BY <1>4 DEF n

(* Sizes multiplied are sizes, ...                                         *)
LEMMA ProductNat ==
  ASSUME NEW a \in Nat, NEW b \in Nat
  PROVE  a * b \in Nat
BY SMT

(* ... and positive ones stay positive.                                    *)
LEMMA ProductPositive ==
  ASSUME NEW a \in Nat \ {0}, NEW b \in Nat \ {0}
  PROVE  a * b \in Nat \ {0}
BY SMT

(* A quotient is below what the dividend stays below a multiple of.         *)
LEMMA DivBelow ==
  ASSUME NEW n \in Nat, NEW d \in Nat \ {0}, NEW h \in Nat, n < d * h
  PROVE  n \div d \in 0 .. h - 1
<1>1. n \div d \in Nat /\ n % d \in 0 .. d - 1 /\ n = d * (n \div d) + (n % d)
  BY DivMod
<1>2. CASE h <= n \div d
  <2>1. CASE h = n \div d
    BY <1>1, <2>1, SMT
  <2>2. CASE h + 1 <= n \div d
    <3>1. d * h + d <= d * (n \div d)
      BY <1>1, <2>2, NextMultiple
    <3>2. d * h \in Nat /\ d * (n \div d) \in Nat
      BY <1>1, ProductNat
    <3> QED BY <1>1, <3>1, <3>2, SMT
  <2> QED BY <1>1, <1>2, <2>1, <2>2, SMT
<1> QED BY <1>1, <1>2, SMT

(* Dividing rounds down, so it keeps the order.                             *)
LEMMA DivMonotone ==
  ASSUME NEW d \in Nat \ {0}, NEW a \in Nat, NEW b \in Nat, a <= b
  PROVE  a \div d <= b \div d
<1>1. a \div d \in Nat /\ a % d \in 0 .. d - 1 /\ a = d * (a \div d) + (a % d)
  BY DivMod
<1>2. b \div d \in Nat /\ b % d \in 0 .. d - 1 /\ b = d * (b \div d) + (b % d)
  BY DivMod
<1>3. CASE b \div d + 1 <= a \div d
  <2>1. d * (b \div d) + d <= d * (a \div d)
    BY <1>1, <1>2, <1>3, NextMultiple
  <2>2. d * (b \div d) \in Nat /\ d * (a \div d) \in Nat
    BY <1>1, <1>2, ProductNat
  <2> QED BY <1>1, <1>2, <2>1, <2>2, SMT
<1> QED BY <1>1, <1>2, <1>3, SMT

(* Rounding up reaches the number and stays within d of it.                 *)
LEMMA Ceil ==
  ASSUME NEW n \in Nat, NEW d \in Nat \ {0}
  PROVE  /\ CeilDiv(n, d) \in Nat
         /\ d * CeilDiv(n, d) \in Nat
         /\ n <= d * CeilDiv(n, d)
         /\ d * CeilDiv(n, d) <= n + d - 1
         /\ RoundUp(n, d) = d * CeilDiv(n, d)
<1> DEFINE q == (n + d - 1) \div d
           r == (n + d - 1) % d
<1>1. n + d - 1 \in Nat
  BY SMT
<1>2. q \in Nat /\ r \in 0 .. d - 1 /\ n + d - 1 = d * q + r
  BY <1>1, DivMod
<1>3. CeilDiv(n, d) = q
  BY DEF CeilDiv
<1> HIDE DEF q, r
<1>4. d * q \in Nat /\ q * d = d * q
  BY <1>2, ProductNat, SMT
<1> QED BY <1>2, <1>3, <1>4, SMT DEF RoundUp

------------------------------------------------------------------------------
(* The plan and its sizes: a laid tensor is its plan, a frontier, the        *)
(* chunks that were cleared and a memory of the planned size.               *)
Laid(T) ==
  /\ T.layout \in Layout /\ T.nout \in Nat \ {0} /\ T.nred \in Nat \ {0}
  /\ T = [layout |-> T.layout, nout |-> T.nout, nred |-> T.nred,
          noutpad |-> RoundUp(T.nout, PerGroup), nredpad |-> RoundUp(T.nred, Epb),
          ngroups |-> CeilDiv(T.nout, PerGroup),
          nchunks |-> CeilDiv(RoundUp(T.nred, Epb), Epr),
          frontier |-> T.frontier, zeroed |-> T.zeroed, mem |-> T.mem]
  /\ DOMAIN T.mem = Elems(T)
  /\ T.frontier \in 0 .. Grow(T) /\ T.zeroed \in 0 .. T.nchunks

(* An element of the padded matrix.                                         *)
Inside(T, o, red) == o \in 0 .. T.noutpad - 1 /\ red \in 0 .. T.nredpad - 1

LEMMA Sizes ==
  /\ PerGroup \in Nat \ {0} /\ UnitElems \in Nat \ {0} /\ UnitElems = Epr * PerGroup
  /\ Epr \in Nat \ {0} /\ Epb \in Nat \ {0} /\ Nch \in Nat \ {0} /\ Nbank \in Nat \ {0}
  /\ Epr \div Epb \in Nat \ {0} /\ Epr = Epb * (Epr \div Epb)
<1>1. PerGroup \in Nat \ {0}
  BY TensorAssumption, ProductPositive DEF PerGroup
<1>2. UnitElems \in Nat \ {0}
  BY <1>1, TensorAssumption, ProductPositive DEF UnitElems
<1>3. UnitElems = Epr * PerGroup
  BY <1>1, TensorAssumption, SMT DEF UnitElems
<1>4. Epr \div Epb \in Nat /\ Epr = Epb * (Epr \div Epb) + (Epr % Epb)
  BY TensorAssumption, DivMod
<1>5. Epr \div Epb # 0
  BY <1>4, TensorAssumption, SMT
<1> QED BY <1>1, <1>2, <1>3, <1>4, <1>5, TensorAssumption, SMT

(* The plan covers the matrix, in whole groups, beats and chunks.           *)
LEMMA PlanSizes ==
  ASSUME NEW T, Laid(T)
  PROVE  /\ T.ngroups \in Nat \ {0} /\ T.nchunks \in Nat \ {0}
         /\ T.noutpad = PerGroup * T.ngroups /\ T.noutpad \in Nat /\ T.nout <= T.noutpad
         /\ T.nredpad = RoundUp(T.nred, Epb)
         /\ T.nredpad \in Nat /\ T.nred <= T.nredpad /\ T.nredpad <= Epr * T.nchunks
         /\ Epr * T.nchunks <= T.nredpad + Epr - 1
         /\ T.nout \in Nat \ {0} /\ T.nred \in Nat \ {0}
         /\ Grow(T) \in Nat /\ T.frontier \in 0 .. Grow(T) /\ T.zeroed \in 0 .. T.nchunks
<1>1. /\ T.noutpad = RoundUp(T.nout, PerGroup) /\ T.nredpad = RoundUp(T.nred, Epb)
      /\ T.ngroups = CeilDiv(T.nout, PerGroup) /\ T.nchunks = CeilDiv(T.nredpad, Epr)
      /\ T.nout \in Nat \ {0} /\ T.nred \in Nat \ {0}
      /\ T.frontier \in 0 .. Grow(T) /\ T.zeroed \in 0 .. T.nchunks
  BY DEF Laid
<1>2. /\ T.ngroups \in Nat /\ PerGroup * T.ngroups \in Nat
      /\ T.nout <= PerGroup * T.ngroups /\ T.noutpad = PerGroup * T.ngroups
  BY <1>1, Ceil, Sizes
<1>3. T.nredpad = Epb * CeilDiv(T.nred, Epb) /\ T.nredpad \in Nat /\ T.nred <= T.nredpad
  <2>1. T.nred \in Nat /\ Epb \in Nat \ {0}
    BY <1>1, Sizes
  <2>2. /\ Epb * CeilDiv(T.nred, Epb) \in Nat /\ T.nred <= Epb * CeilDiv(T.nred, Epb)
        /\ RoundUp(T.nred, Epb) = Epb * CeilDiv(T.nred, Epb)
    BY <2>1, Ceil
  <2> QED BY <1>1, <2>2
<1>4. /\ T.nchunks \in Nat /\ Epr * T.nchunks \in Nat /\ T.nredpad <= Epr * T.nchunks
      /\ Epr * T.nchunks <= T.nredpad + Epr - 1
  <2>1. T.nchunks = CeilDiv(T.nredpad, Epr)
    BY <1>1
  <2>2. T.nredpad \in Nat /\ Epr \in Nat \ {0}
    BY <1>3, Sizes
  <2> QED BY <2>1, <2>2, Ceil
<1>5. T.ngroups # 0
  <2>1. PerGroup * 0 = 0
    BY Sizes, SMT
  <2> QED BY <1>1, <1>2, <2>1, SMT
<1>6. T.nchunks # 0
  <2>1. Epr * 0 = 0
    BY Sizes, SMT
  <2> QED BY <1>1, <1>3, <1>4, <2>1, SMT
<1>7. Grow(T) \in Nat
  BY <1>1 DEF Grow
<1> QED BY <1>1, <1>2, <1>3, <1>4, <1>5, <1>6, <1>7

------------------------------------------------------------------------------
(* Where an element lies, without the detour over banks and beats.          *)
Place(T, o, red) ==
  Epr * (PerGroup * (T.nchunks * (o \div PerGroup) + red \div Epr) + (o % PerGroup)) + (red % Epr)

(* Outputs are dealt to channels and banks ...                              *)
LEMMA Lanes ==
  ASSUME NEW o \in Nat
  PROVE  /\ o % PerGroup = ((o \div Nbank) % Nch) * Nbank + (o % Nbank)
         /\ (o % PerGroup) \div Nbank = (o \div Nbank) % Nch
<1> DEFINE q == o \div Nbank
           b == o % Nbank
           g == q \div Nch
           c == q % Nch
<1>1. q \in Nat /\ b \in 0 .. Nbank - 1 /\ o = Nbank * q + b
  BY Sizes, DivMod
<1>2. g \in Nat /\ c \in 0 .. Nch - 1 /\ q = Nch * g + c
  BY <1>1, Sizes, DivMod
<1> HIDE DEF q, b, g, c
<1>3. o = PerGroup * g + (Nbank * c + b)
  <2>1. Nbank * q = Nbank * (Nch * g) + Nbank * c
    BY <1>2, Sizes, SMT
  <2>2. Nbank * (Nch * g) = (Nch * Nbank) * g
    BY <1>2, Sizes, SMT
  <2>3. PerGroup = Nch * Nbank
    BY DEF PerGroup
  <2> HIDE DEF PerGroup
  <2>4. (Nch * Nbank) * g = PerGroup * g
    BY <2>3
  <2>5. Nbank * q \in Nat /\ Nbank * (Nch * g) \in Nat /\ Nbank * c \in Nat /\ PerGroup * g \in Nat
    BY <1>1, <1>2, Sizes, ProductNat, <2>2, <2>4
  <2> QED BY <1>1, <2>1, <2>2, <2>4, <2>5, SMT
<1>4. Nbank * c + b \in 0 .. PerGroup - 1
  <2>1. Nbank * c + Nbank <= Nbank * Nch
    BY <1>2, Sizes, NextMultiple, SMT
  <2>2. Nbank * c \in Nat /\ Nbank * Nch \in Nat /\ PerGroup = Nbank * Nch
    BY <1>2, Sizes, ProductNat, SMT DEF PerGroup
  <2> QED BY <1>1, <2>1, <2>2, Sizes, SMT
<1>5. o % PerGroup = Nbank * c + b
  BY <1>2, <1>3, <1>4, Sizes, DivOfSum
<1>6. (Nbank * c + b) \div Nbank = c
  BY <1>1, <1>2, Sizes, DivOfSum
<1>7. Nbank * c = c * Nbank
  BY <1>2, Sizes, SMT
<1> QED BY <1>5, <1>6, <1>7 DEF c, q, b

(* ... and elements of a row to beats and lanes.                            *)
LEMMA Beats ==
  ASSUME NEW red \in Nat
  PROVE  /\ red % Epr = ((red % Epr) \div Epb) * Epb + (red % Epb)
         /\ (red % Epr) % Epb = red % Epb
<1> DEFINE c == red \div Epr
           w == red % Epr
           h == w \div Epb
           l == w % Epb
           e == Epr \div Epb
<1>1. c \in Nat /\ w \in 0 .. Epr - 1 /\ red = Epr * c + w
  BY Sizes, DivMod
<1>2. h \in Nat /\ l \in 0 .. Epb - 1 /\ w = Epb * h + l
  <2>1. w \in Nat
    BY <1>1, Sizes
  <2> HIDE DEF w
  <2> QED BY <2>1, Sizes, DivMod
<1>3. e \in Nat /\ Epr = Epb * e
  BY Sizes
<1> HIDE DEF c, w, h, l, e
<1>4. red = Epb * (e * c + h) + l
  <2>1. Epr * c = (Epb * e) * c
    BY <1>3
  <2>2. (Epb * e) * c = Epb * (e * c)
    BY <1>1, <1>3, Sizes, SMT
  <2>3. Epb * (e * c + h) = Epb * (e * c) + Epb * h
    BY <1>1, <1>2, <1>3, Sizes, SMT
  <2>4. Epr * c \in Nat /\ Epb * (e * c) \in Nat /\ Epb * h \in Nat
    BY <1>1, <1>2, <1>3, Sizes, ProductNat
  <2> QED BY <1>1, <1>2, <2>1, <2>2, <2>3, <2>4, SMT
<1>5. e * c + h \in Nat
  BY <1>1, <1>2, <1>3, ProductNat, SMT
<1>6. red % Epb = l
  BY <1>2, <1>4, <1>5, Sizes, DivOfSum
<1>7. Epb * h = h * Epb
  BY <1>2, Sizes, SMT
<1>8. w = h * Epb + l
  BY <1>2, <1>7
<1> QED BY <1>6, <1>8 DEF w, h, l

(* Both the host's arithmetic and a launch's come to Place.                 *)
LEMMA PlaceOf ==
  ASSUME NEW T, Laid(T), NEW o \in Nat, NEW red \in Nat
  PROVE  Offset(T, o, red) = Place(T, o, red) /\ Seen(T, o, red) = T.mem[Place(T, o, red)]
<1> DEFINE u == Unit(T, o \div PerGroup, red \div Epr)
           p == o % PerGroup
           w == red % Epr
           x == T.nchunks * (o \div PerGroup) + red \div Epr
           h == w \div Epb
           l == red % Epb
           ch == (o \div Nbank) % Nch
           b == o % Nbank
<1>1. T.nchunks \in Nat /\ T.ngroups \in Nat
  BY PlanSizes
<1>2. /\ o \div PerGroup \in Nat /\ red \div Epr \in Nat
      /\ o % Nbank \in Nat /\ o \div Nbank \in Nat /\ red % Epr \in Nat /\ red % Epb \in Nat
      /\ o % PerGroup \in Nat
  BY Sizes, DivMod
<1>3. u = x /\ x \in Nat
  BY <1>1, <1>2, ProductNat, SMT DEF Unit
<1>4. p = ch * Nbank + b /\ p \div Nbank = ch
  BY Lanes
<1>5. w = h * Epb + l /\ w % Epb = l
  BY Beats
<1>6. ch \in Nat /\ b \in Nat /\ l \in Nat /\ w \in Nat
  BY <1>2, Sizes, DivMod
<1>7. h \in Nat
  BY <1>6, Sizes, DivMod
<1>8. Offset(T, o, red) = u * UnitElems + ch * Nbank * Epr + b * Epr + h * Epb + (w % Epb)
  BY DEF Offset
<1>9. Seen(T, o, red) = T.mem[u * UnitElems + (ch * Nbank + b) * Epr + h * Epb + l]
  BY <1>4 DEF Seen, Fed, FedAt
<1>10. Place(T, o, red) = Epr * (PerGroup * x + p) + w
  BY DEF Place
<1> HIDE DEF u, p, w, x, h, l, ch, b
<1>11. x * UnitElems + (ch * Nbank + b) * Epr = Epr * (PerGroup * x + p)
  <2>1. x * UnitElems = Epr * (PerGroup * x)
    BY <1>3, Sizes, SMT
  <2>2. p \in Nat /\ PerGroup * x \in Nat
    BY <1>3, <1>4, <1>6, Sizes, ProductNat, SMT
  <2>3. Epr * (PerGroup * x + p) = Epr * (PerGroup * x) + p * Epr
    <3>1. \A y, z \in Nat : Epr * (y + z) = Epr * y + z * Epr
      BY Sizes, SMT
    <3> QED BY <2>2, <3>1
  <2> QED BY <1>4, <2>1, <2>3
<1>12. ch * Nbank * Epr + b * Epr = (ch * Nbank + b) * Epr
  BY <1>6, Sizes, ProductNat, SMT
<1>13. /\ x * UnitElems \in Nat /\ ch * Nbank * Epr \in Nat /\ b * Epr \in Nat
       /\ (ch * Nbank + b) * Epr \in Nat /\ h * Epb \in Nat
  <2>1. ch * Nbank \in Nat
    BY <1>6, Sizes, ProductNat
  <2>2. ch * Nbank + b \in Nat
    BY <2>1, <1>6, SMT
  <2> QED BY <2>1, <2>2, <1>3, <1>6, <1>7, Sizes, ProductNat
<1>14. Offset(T, o, red) = Place(T, o, red)
  BY <1>3, <1>5, <1>6, <1>8, <1>10, <1>11, <1>12, <1>13, SMT
<1>15. u * UnitElems + (ch * Nbank + b) * Epr + h * Epb + l = Place(T, o, red)
  BY <1>3, <1>5, <1>6, <1>10, <1>11, <1>13, SMT
<1> QED BY <1>9, <1>14, <1>15

(* Every element of the padded matrix has a place in the allocation, ...    *)
LEMMA PlaceExists ==
  ASSUME NEW T, Laid(T), NEW o, NEW red, Inside(T, o, red)
  PROVE  Place(T, o, red) \in DOMAIN T.mem
<1> DEFINE g == o \div PerGroup
           p == o % PerGroup
           c == red \div Epr
           w == red % Epr
           u == T.nchunks * g + c
<1>1. o \in Nat /\ red \in Nat /\ T.nchunks \in Nat /\ T.ngroups \in Nat
  BY PlanSizes, SMT DEF Inside
<1>2. g \in 0 .. T.ngroups - 1 /\ p \in 0 .. PerGroup - 1
  <2>1. o < PerGroup * T.ngroups
    BY PlanSizes, SMT DEF Inside
  <2> QED BY <1>1, <2>1, Sizes, DivBelow, DivMod
<1>3. c \in 0 .. T.nchunks - 1 /\ w \in 0 .. Epr - 1
  <2>1. red < Epr * T.nchunks
    BY PlanSizes, Sizes, <1>1, ProductNat, SMT DEF Inside
  <2> QED BY <1>1, <2>1, Sizes, DivBelow, DivMod
<1>4. Place(T, o, red) = Epr * (PerGroup * u + p) + w
  BY DEF Place
<1>5. DOMAIN T.mem = 0 .. T.ngroups * T.nchunks * UnitElems - 1
  BY DEF Laid, Elems
<1> HIDE DEF g, p, c, w, u
<1>6. u \in Nat /\ u + 1 <= T.nchunks * T.ngroups
  <2>1. T.nchunks * g + T.nchunks <= T.nchunks * T.ngroups
    BY <1>1, <1>2, NextMultiple, SMT
  <2>2. T.nchunks * g \in Nat /\ T.nchunks * T.ngroups \in Nat
    BY <1>1, <1>2, ProductNat, SMT
  <2> QED BY <1>1, <1>3, <2>1, <2>2, SMT DEF u
<1>7. T.nchunks * T.ngroups \in Nat
  BY <1>1, ProductNat
<1>8. PerGroup * u + p + 1 <= PerGroup * (T.nchunks * T.ngroups) /\ PerGroup * u + p \in Nat
  <2>1. PerGroup * u + PerGroup <= PerGroup * (T.nchunks * T.ngroups)
    BY <1>6, <1>7, Sizes, NextMultiple
  <2>2. PerGroup * u \in Nat /\ PerGroup * (T.nchunks * T.ngroups) \in Nat
    BY <1>6, <1>7, Sizes, ProductNat
  <2> QED BY <1>2, <2>1, <2>2, Sizes, SMT
<1>9. Epr * (PerGroup * u + p) + Epr <= Epr * (PerGroup * (T.nchunks * T.ngroups))
  <2>1. PerGroup * (T.nchunks * T.ngroups) \in Nat
    BY <1>7, Sizes, ProductNat
  <2> QED BY <1>8, <2>1, Sizes, NextMultiple
<1>10. Epr * (PerGroup * (T.nchunks * T.ngroups)) = T.ngroups * T.nchunks * UnitElems
  <2>1. T.nchunks * T.ngroups = T.ngroups * T.nchunks
    BY <1>1, SMT
  <2>2. (T.nchunks * T.ngroups) * (Epr * PerGroup) = Epr * (PerGroup * (T.nchunks * T.ngroups))
    BY <1>7, Sizes, SMT
  <2> QED BY <2>1, <2>2, Sizes
<1>11. Epr * (PerGroup * u + p) \in Nat /\ Epr * (PerGroup * (T.nchunks * T.ngroups)) \in Nat
  BY <1>7, <1>8, Sizes, ProductNat
<1> QED BY <1>3, <1>4, <1>5, <1>9, <1>10, <1>11, Sizes, SMT

(* ... and no two of them the same.                                         *)
LEMMA PlaceUnique ==
  ASSUME NEW T, Laid(T), NEW o, NEW red, Inside(T, o, red),
         NEW o2, NEW red2, Inside(T, o2, red2), Place(T, o, red) = Place(T, o2, red2)
  PROVE  o = o2 /\ red = red2
<1> DEFINE p == o % PerGroup
           w == red % Epr
           u == T.nchunks * (o \div PerGroup) + red \div Epr
           p2 == o2 % PerGroup
           w2 == red2 % Epr
           u2 == T.nchunks * (o2 \div PerGroup) + red2 \div Epr
<1>1. /\ o \in Nat /\ red \in Nat /\ o2 \in Nat /\ red2 \in Nat
      /\ T.nchunks \in Nat \ {0} /\ T.ngroups \in Nat
  BY PlanSizes, SMT DEF Inside
<1>2. red < Epr * T.nchunks /\ red2 < Epr * T.nchunks
  BY PlanSizes, Sizes, <1>1, ProductNat, SMT DEF Inside
<1>3. red \div Epr \in 0 .. T.nchunks - 1 /\ red2 \div Epr \in 0 .. T.nchunks - 1
  BY <1>1, <1>2, Sizes, DivBelow
<1>4. /\ w \in 0 .. Epr - 1 /\ w2 \in 0 .. Epr - 1
      /\ red = Epr * (red \div Epr) + w /\ red2 = Epr * (red2 \div Epr) + w2
  BY <1>1, Sizes, DivMod
<1>5. /\ o \div PerGroup \in Nat /\ p \in 0 .. PerGroup - 1 /\ o = PerGroup * (o \div PerGroup) + p
      /\ o2 \div PerGroup \in Nat /\ p2 \in 0 .. PerGroup - 1 /\ o2 = PerGroup * (o2 \div PerGroup) + p2
  BY <1>1, Sizes, DivMod
<1>6. u \in Nat /\ u2 \in Nat
  BY <1>1, <1>3, <1>5, ProductNat, SMT
<1>7. Epr * (PerGroup * u + p) + w = Epr * (PerGroup * u2 + p2) + w2
  BY DEF Place
<1>8. PerGroup * u + p \in Nat /\ PerGroup * u2 + p2 \in Nat
  BY <1>5, <1>6, Sizes, ProductNat, SMT
<1>9. PerGroup * u + p = PerGroup * u2 + p2 /\ w = w2
  <2> DEFINE a == PerGroup * u + p
             a2 == PerGroup * u2 + p2
  <2>1. a \in Nat /\ a2 \in Nat /\ Epr * a + w = Epr * a2 + w2
    BY <1>7, <1>8
  <2> HIDE DEF a, a2, w, w2
  <2>2. a = a2 /\ w = w2
    BY <1>4, <2>1, Sizes, DivUnique
  <2> QED BY <2>2 DEF a, a2
<1>10. u = u2 /\ p = p2
  <2> HIDE DEF u, p, w, u2, p2, w2
  <2>1. PerGroup * u + p = PerGroup * u2 + p2
    BY <1>9
  <2>2. p \in 0 .. PerGroup - 1 /\ p2 \in 0 .. PerGroup - 1
    BY <1>5
  <2>3. u \in Nat /\ u2 \in Nat /\ PerGroup \in Nat \ {0}
    BY <1>6, Sizes
  <2> QED BY <2>1, <2>2, <2>3, DivUnique
<1>11. o \div PerGroup = o2 \div PerGroup /\ red \div Epr = red2 \div Epr
  <2> DEFINE g == o \div PerGroup
             g2 == o2 \div PerGroup
             c == red \div Epr
             c2 == red2 \div Epr
  <2>1. T.nchunks * g + c = T.nchunks * g2 + c2
    BY <1>10
  <2>2. /\ g \in Nat /\ g2 \in Nat /\ T.nchunks \in Nat \ {0}
        /\ c \in 0 .. T.nchunks - 1 /\ c2 \in 0 .. T.nchunks - 1
    BY <1>1, <1>3, <1>5
  <2> HIDE DEF g, g2, c, c2
  <2>3. g = g2 /\ c = c2
    BY <2>1, <2>2, DivUnique
  <2> QED BY <2>3 DEF g, g2, c, c2
<1> QED BY <1>4, <1>5, <1>9, <1>10, <1>11

------------------------------------------------------------------------------
(* A rectangle that lies in the padded matrix, and its elements.            *)
Fits(T, r) ==
  /\ r.out0 \in Nat /\ r.nout \in Nat /\ r.red0 \in Nat /\ r.nred \in Nat
  /\ r.nout # 0 /\ r.nred # 0 => r.out0 + r.nout <= T.noutpad /\ r.red0 + r.nred <= T.nredpad

Covers(r, o, red) ==
  o \in r.out0 .. r.out0 + r.nout - 1 /\ red \in r.red0 .. r.red0 + r.nred - 1

(* Chunks of a rectangle, counted from the one it starts in.                *)
LEMMA ChunkCount ==
  ASSUME NEW T, Laid(T), NEW r, Fits(T, r), r.nout # 0, r.nred # 0
  PROVE  /\ r.red0 \div Epr \in Nat /\ ChunksOf(r) \in Nat \ {0}
         /\ (r.red0 + r.nred - 1) \div Epr = r.red0 \div Epr + ChunksOf(r) - 1
         /\ Runs(r) = r.nout * ChunksOf(r) /\ Runs(r) \in Nat
<1>1. r.red0 \in Nat /\ r.nred \in Nat \ {0} /\ r.nout \in Nat /\ r.red0 + r.nred - 1 \in Nat
  BY SMT DEF Fits
<1>2. r.red0 \div Epr \in Nat /\ (r.red0 + r.nred - 1) \div Epr \in Nat
  BY <1>1, Sizes, DivMod
<1>3. r.red0 \div Epr <= (r.red0 + r.nred - 1) \div Epr
  <2>1. r.red0 <= r.red0 + r.nred - 1
    BY <1>1, SMT
  <2> QED BY <1>1, <2>1, Sizes, DivMonotone
<1>4. ChunksOf(r) = (r.red0 + r.nred - 1) \div Epr - r.red0 \div Epr + 1
  BY DEF ChunksOf
<1>5. ChunksOf(r) \in Nat \ {0}
  BY <1>2, <1>3, <1>4, SMT
<1>6. Runs(r) = r.nout * ChunksOf(r)
  BY DEF Runs
<1>7. r.nout * ChunksOf(r) \in Nat
  BY <1>1, <1>5, ProductNat
<1> QED BY <1>2, <1>4, <1>5, <1>6, <1>7, SMT

(* A run is for one output and stays in one chunk of the rectangle.         *)
LEMMA RunInChunk ==
  ASSUME NEW T, Laid(T), NEW r, Fits(T, r), NEW h \in Nat, h < Runs(r)
  PROVE  LET run == Run(r, h)
             c   == r.red0 \div Epr + (h % ChunksOf(r))
         IN  /\ run.out = r.out0 + h \div ChunksOf(r) /\ run.out \in r.out0 .. r.out0 + r.nout - 1
             /\ run.red \in Nat /\ run.len \in Nat \ {0} /\ c \in Nat
             /\ run.red = Most(r.red0, c * Epr)
             /\ run.red + run.len = Least(r.red0 + r.nred, (c + 1) * Epr)
             /\ r.red0 <= run.red /\ run.red + run.len <= r.red0 + r.nred
             /\ Epr * c <= run.red /\ run.red + run.len <= Epr * c + Epr
<1>1. r.nout # 0 /\ r.nred # 0
  BY SMT DEF Runs
<1>2. /\ r.red0 \div Epr \in Nat /\ ChunksOf(r) \in Nat \ {0}
      /\ (r.red0 + r.nred - 1) \div Epr = r.red0 \div Epr + ChunksOf(r) - 1
      /\ Runs(r) = r.nout * ChunksOf(r) /\ Runs(r) \in Nat
  BY <1>1, ChunkCount
<1>3. r.out0 \in Nat /\ r.nout \in Nat \ {0} /\ r.red0 \in Nat /\ r.nred \in Nat \ {0}
  BY <1>1 DEF Fits
<1> DEFINE n == ChunksOf(r)
           c == r.red0 \div Epr + (h % n)
           last == r.red0 + r.nred - 1
<1>4. h \div n \in 0 .. r.nout - 1 /\ h % n \in 0 .. n - 1
  <2>1. r.nout * n = n * r.nout
    BY <1>2, <1>3, SMT
  <2>2. h < n * r.nout
    BY <1>2, <2>1
  <2> HIDE DEF n
  <2>3. n \in Nat \ {0}
    BY <1>2 DEF n
  <2> QED BY <1>3, <2>2, <2>3, DivBelow, DivMod
<1>5. c \in Nat /\ r.red0 \div Epr <= c /\ c <= last \div Epr
  BY <1>2, <1>4, SMT
<1>6. c * Epr = Epr * c /\ (c + 1) * Epr = Epr * c + Epr /\ Epr * c \in Nat
  <2> HIDE DEF c
  <2> QED BY <1>5, Sizes, ProductNat, SMT
<1>7. r.red0 <= Epr * c + Epr - 1
  <2>1. r.red0 = Epr * (r.red0 \div Epr) + (r.red0 % Epr) /\ r.red0 % Epr \in 0 .. Epr - 1
    BY <1>3, Sizes, DivMod
  <2>2. Epr * (r.red0 \div Epr) <= Epr * c
    <3> DEFINE d == r.red0 \div Epr
    <3>1. d \in Nat /\ d <= c /\ c \in Nat
      BY <1>2, <1>5
    <3> HIDE DEF d, c
    <3>2. Epr * d <= Epr * c
      BY <3>1, Sizes, Monotone
    <3> QED BY <3>2 DEF d
  <2>3. Epr * (r.red0 \div Epr) \in Nat
    BY <1>2, Sizes, ProductNat
  <2> HIDE DEF c
  <2> QED BY <1>6, <2>1, <2>2, <2>3, Sizes, SMT
<1>8. Epr * c <= last
  <2>1. last \in Nat
    BY <1>3, SMT
  <2>2. last \div Epr \in Nat /\ last % Epr \in 0 .. Epr - 1 /\ last = Epr * (last \div Epr) + (last % Epr)
    <3> HIDE DEF last
    <3> QED BY <2>1, Sizes, DivMod
  <2>3. Epr * c <= Epr * (last \div Epr)
    <3> DEFINE d == last \div Epr
    <3>1. d \in Nat /\ c <= d /\ c \in Nat
      BY <1>5, <2>2
    <3> HIDE DEF d, c
    <3>2. Epr * c <= Epr * d
      BY <3>1, Sizes, Monotone
    <3> QED BY <3>2 DEF d
  <2>4. Epr * (last \div Epr) \in Nat
    BY <2>2, Sizes, ProductNat
  <2> HIDE DEF c, last
  <2> QED BY <1>6, <2>1, <2>2, <2>3, <2>4, Sizes, SMT
<1>9. /\ Run(r, h).out = r.out0 + h \div n
      /\ Run(r, h).red = Most(r.red0, c * Epr)
      /\ Run(r, h).len = Least(r.red0 + r.nred, (c + 1) * Epr) - Most(r.red0, c * Epr)
  BY DEF Run, RunEnd
<1>10. Run(r, h).out \in r.out0 .. r.out0 + r.nout - 1
  BY <1>3, <1>4, <1>9, SMT
<1> DEFINE from == Most(r.red0, c * Epr)
           to == Least(r.red0 + r.nred, (c + 1) * Epr)
<1>11. /\ from \in Nat /\ to \in Nat /\ from < to
       /\ r.red0 <= from /\ Epr * c <= from /\ to <= r.red0 + r.nred /\ to <= Epr * c + Epr
  <2> HIDE DEF c
  <2> QED BY <1>3, <1>6, <1>7, <1>8, Sizes, SMT DEF Most, Least
<1>12. Run(r, h).len \in Nat \ {0} /\ Run(r, h).red + Run(r, h).len = to
  <2> HIDE DEF from, to
  <2> QED BY <1>9, <1>11, SMT DEF from, to
<1> HIDE DEF n
<1> QED BY <1>5, <1>9, <1>10, <1>11, <1>12 DEF n

(* Along a run the places are consecutive.                                  *)
LEMMA Consecutive ==
  ASSUME NEW T, Laid(T), NEW o \in Nat, NEW red \in Nat, NEW c \in Nat, NEW j \in Nat,
         Epr * c <= red, red + j < Epr * c + Epr
  PROVE  Place(T, o, red + j) = Place(T, o, red) + j
<1>1. Epr * c \in Nat
  BY Sizes, ProductNat
<1> DEFINE w == red - Epr * c
<1>2. w \in Nat /\ w \in 0 .. Epr - 1 /\ w + j \in 0 .. Epr - 1
  BY <1>1, Sizes, SMT
<1>3. red = Epr * c + w /\ red + j = Epr * c + (w + j)
  BY <1>1, Sizes, SMT
<1> HIDE DEF w
<1>4. red \div Epr = c /\ red % Epr = w
  BY <1>2, <1>3, Sizes, DivOfSum
<1>5. (red + j) \div Epr = c /\ (red + j) % Epr = w + j
  <2> DEFINE V == w + j
  <2>1. V \in 0 .. Epr - 1 /\ red + j = Epr * c + V
    BY <1>2, <1>3
  <2> HIDE DEF V
  <2>2. (red + j) \div Epr = c /\ (red + j) % Epr = V
    BY <2>1, Sizes, DivOfSum
  <2> QED BY <2>2 DEF V
<1> DEFINE base == Epr * (PerGroup * (T.nchunks * (o \div PerGroup) + c) + (o % PerGroup))
<1>6. Place(T, o, red) = base + w /\ Place(T, o, red + j) = base + (w + j)
  BY <1>4, <1>5 DEF Place
<1>7. base \in Nat
  <2>1. o \div PerGroup \in Nat /\ o % PerGroup \in Nat /\ T.nchunks \in Nat
    <3>1. o \div PerGroup \in Nat /\ o % PerGroup \in Nat
      BY Sizes, DivMod
    <3>2. T.nchunks \in Nat
      BY PlanSizes
    <3> QED BY <3>1, <3>2
  <2>2. T.nchunks * (o \div PerGroup) + c \in Nat
    BY <2>1, ProductNat, SMT
  <2>3. PerGroup * (T.nchunks * (o \div PerGroup) + c) + (o % PerGroup) \in Nat
    BY <2>1, <2>2, Sizes, ProductNat, SMT
  <2> QED BY <2>3, Sizes, ProductNat
<1> HIDE DEF base
<1> QED BY <1>2, <1>6, <1>7, SMT

(* The transfer of a run writes the elements it is for, each with its own   *)
(* value of the host's, and no other element of the matrix.                  *)
LEMMA RunWrites ==
  ASSUME NEW T, Laid(T), NEW r, Fits(T, r), NEW h \in Nat, h < Runs(r),
         NEW o, NEW red, Inside(T, o, red)
  PROVE  LET run == Run(r, h)
             d   == Place(T, o, red) - Offset(T, run.out, run.red)
         IN  /\ d \in 0 .. run.len - 1 <=> o = run.out /\ red \in run.red .. run.red + run.len - 1
             /\ d \in 0 .. run.len - 1 => run.red + d = red
<1> DEFINE out == Run(r, h).out
           from == Run(r, h).red
           len == Run(r, h).len
           c == r.red0 \div Epr + (h % ChunksOf(r))
<1>1. /\ out \in r.out0 .. r.out0 + r.nout - 1 /\ from \in Nat /\ len \in Nat \ {0} /\ c \in Nat
      /\ from + len <= r.red0 + r.nred /\ Epr * c <= from /\ from + len <= Epr * c + Epr
  BY RunInChunk
<1>2. r.out0 \in Nat /\ r.out0 + r.nout <= T.noutpad /\ r.red0 + r.nred <= T.nredpad /\ r.nout \in Nat
  <2>1. r.nout # 0 /\ r.nred # 0
    BY SMT DEF Runs
  <2> QED BY <2>1 DEF Fits
<1> HIDE DEF out, from, len, c
<1>3. out \in Nat /\ out <= T.noutpad - 1
  BY <1>1, <1>2, PlanSizes, SMT
<1>4. \A j \in 0 .. len - 1 : Inside(T, out, from + j)
  BY <1>1, <1>2, <1>3, PlanSizes, SMT DEF Inside, Fits
<1>5. Offset(T, out, from) = Place(T, out, from)
  BY <1>1, <1>3, PlaceOf
<1>6. \A j \in 0 .. len - 1 : Place(T, out, from + j) = Place(T, out, from) + j
  <2> TAKE j \in 0 .. len - 1
  <2>1. from + j < Epr * c + Epr /\ j \in Nat
    BY <1>1, Sizes, ProductNat, SMT
  <2> QED BY <1>1, <1>3, <2>1, Consecutive
<1> DEFINE y == Place(T, o, red)
           x == Place(T, out, from)
<1>7. x \in Nat /\ y \in Nat
  <2>1. Inside(T, out, from)
    <3>1. 0 \in 0 .. len - 1 /\ from + 0 = from
      BY <1>1, SMT
    <3> QED BY <3>1, <1>4
  <2>2. x \in DOMAIN T.mem /\ y \in DOMAIN T.mem
    BY <2>1, PlaceExists
  <2> QED BY <2>2, SMT DEF Laid, Elems
<1>8. ASSUME y - x \in 0 .. len - 1
      PROVE  o = out /\ red = from + (y - x)
  <2> DEFINE j == y - x
  <2>1. Place(T, out, from + j) = x + j
    BY <1>6, <1>8
  <2>2. x + j = y
    BY <1>7, SMT
  <2>3. Inside(T, out, from + j)
    BY <1>4, <1>8
  <2> QED BY <2>1, <2>2, <2>3, PlaceUnique
<1>9. ASSUME o = out, red \in from .. from + len - 1
      PROVE  y - x = red - from
  <2> DEFINE j == red - from
  <2>1. j \in 0 .. len - 1 /\ from + j = red
    BY <1>1, <1>9, SMT
  <2>2. y = x + j
    BY <1>6, <1>9, <2>1
  <2> QED BY <2>1, <2>2, <1>7, SMT
<1> HIDE DEF x, y
<1>10. y - x \in 0 .. len - 1 <=> o = out /\ red \in from .. from + len - 1
  BY <1>1, <1>7, <1>8, <1>9, SMT
<1>11. y - x \in 0 .. len - 1 => from + (y - x) = red
  BY <1>8
<1> QED BY <1>5, <1>10, <1>11 DEF out, from, len, x, y

(* Every element of a rectangle is in one of its runs.                      *)
LEMMA RunFor ==
  ASSUME NEW T, Laid(T), NEW r, Fits(T, r), NEW o, NEW red, Covers(r, o, red)
  PROVE  \E h \in 0 .. Runs(r) - 1 :
           o = Run(r, h).out /\ red \in Run(r, h).red .. Run(r, h).red + Run(r, h).len - 1
<1>1. /\ r.out0 \in Nat /\ r.nout \in Nat \ {0} /\ r.red0 \in Nat /\ r.nred \in Nat \ {0}
      /\ o \in Nat /\ red \in Nat /\ o - r.out0 \in 0 .. r.nout - 1 /\ r.red0 <= red
      /\ red <= r.red0 + r.nred - 1
  BY SMT DEF Fits, Covers
<1> DEFINE c0 == r.red0 \div Epr
           n == ChunksOf(r)
           c == red \div Epr
           i == o - r.out0
           h == n * i + (c - c0)
<1>2. /\ c0 \in Nat /\ n \in Nat \ {0} /\ Runs(r) = r.nout * n /\ Runs(r) \in Nat
      /\ (r.red0 + r.nred - 1) \div Epr = c0 + n - 1
  BY <1>1, ChunkCount
<1>3. c \in Nat /\ red % Epr \in 0 .. Epr - 1 /\ red = Epr * c + (red % Epr)
  BY <1>1, Sizes, DivMod
<1>4. c0 <= c /\ c <= c0 + n - 1
  <2>1. c0 <= c
    BY <1>1, Sizes, DivMonotone
  <2>2. r.red0 + r.nred - 1 \in Nat
    BY <1>1, SMT
  <2>3. c <= (r.red0 + r.nred - 1) \div Epr
    BY <1>1, <2>2, Sizes, DivMonotone
  <2> QED BY <1>2, <2>1, <2>3
<1> HIDE DEF c, c0, n, i
<1>5. i \in Nat /\ i + 1 <= r.nout
  BY <1>1, SMT DEF i
<1>6. c - c0 \in 0 .. n - 1
  BY <1>2, <1>3, <1>4, SMT
<1>7. h \in Nat /\ h < Runs(r)
  <2>1. n * i + n <= n * r.nout
    BY <1>1, <1>2, <1>5, NextMultiple
  <2>2. n * i \in Nat /\ n * r.nout \in Nat /\ n * r.nout = r.nout * n
    BY <1>1, <1>2, <1>5, ProductNat, SMT
  <2> QED BY <1>2, <1>6, <2>1, <2>2, SMT
<1>8. h \div n = i /\ h % n = c - c0
  BY <1>2, <1>5, <1>6, DivOfSum
<1> HIDE DEF h
<1>9. r.out0 + i = o /\ c0 + (c - c0) = c
  BY <1>1, <1>2, <1>3, SMT DEF i
<1>10. /\ Run(r, h).out = o /\ Run(r, h).red = Most(r.red0, c * Epr)
       /\ Run(r, h).red + Run(r, h).len = Least(r.red0 + r.nred, (c + 1) * Epr)
       /\ Run(r, h).red \in Nat /\ Run(r, h).len \in Nat
  <2>1. /\ Run(r, h).out = r.out0 + h \div n
        /\ Run(r, h).red = Most(r.red0, (c0 + (h % n)) * Epr)
        /\ Run(r, h).red + Run(r, h).len = Least(r.red0 + r.nred, (c0 + (h % n) + 1) * Epr)
        /\ Run(r, h).red \in Nat /\ Run(r, h).len \in Nat
    BY <1>7, RunInChunk DEF c0, n
  <2> QED BY <1>8, <1>9, <2>1
<1>11. c * Epr <= red /\ red < (c + 1) * Epr
  <2>1. c * Epr = Epr * c /\ (c + 1) * Epr = Epr * c + Epr /\ Epr * c \in Nat
    BY <1>3, Sizes, ProductNat, SMT
  <2> QED BY <1>1, <1>3, <2>1, Sizes, SMT
<1>12. c * Epr \in Nat /\ (c + 1) * Epr \in Nat
  BY <1>3, Sizes, ProductNat, SMT
<1>13. Most(r.red0, c * Epr) <= red /\ red < Least(r.red0 + r.nred, (c + 1) * Epr)
  BY <1>1, <1>11, <1>12, SMT DEF Most, Least
<1>14. red \in Run(r, h).red .. Run(r, h).red + Run(r, h).len - 1
  <2> DEFINE a == Run(r, h).red
             b == Run(r, h).len
  <2>1. a \in Nat /\ b \in Nat /\ a <= red /\ red < a + b
    BY <1>10, <1>13
  <2> HIDE DEF a, b
  <2>2. red \in a .. a + b - 1
    BY <1>1, <2>1, SMT
  <2> QED BY <2>2 DEF a, b
<1>15. h \in 0 .. Runs(r) - 1
  BY <1>2, <1>7, SMT
<1> QED BY <1>10, <1>14, <1>15

------------------------------------------------------------------------------
(* Two states of one matrix.                                                *)
SamePlan(s, T) ==
  /\ s.layout = T.layout /\ s.nout = T.nout /\ s.nred = T.nred
  /\ s.noutpad = T.noutpad /\ s.nredpad = T.nredpad
  /\ s.ngroups = T.ngroups /\ s.nchunks = T.nchunks

SameMarks(s, T) == s.frontier = T.frontier /\ s.zeroed = T.zeroed

(* What transfers of r may have done to T: elements of the rectangle have   *)
(* their old value or the host's, ...                                       *)
Wrote(s, T, r, src) ==
  /\ Laid(s) /\ SamePlan(s, T)
  /\ \A o, red : Inside(T, o, red) =>
       /\ Seen(s, o, red) \in {Seen(T, o, red), Host(T, src, o, red)}
       /\ ~Covers(r, o, red) => Seen(s, o, red) = Seen(T, o, red)

(* ... the host's if all of them went through.                              *)
Filled(s, T, r, src) ==
  \A o, red : Inside(T, o, red) /\ Covers(r, o, red) => Seen(s, o, red) = Host(T, src, o, red)

(* Memory changes and the plan stays.                                       *)
LEMMA NewMemory ==
  ASSUME NEW T, Laid(T), NEW m, DOMAIN m = DOMAIN T.mem,
         NEW s, s = [T EXCEPT !.mem = m]
  PROVE  Laid(s) /\ SamePlan(s, T) /\ SameMarks(s, T) /\ s.mem = m
<1>1. T = [layout |-> T.layout, nout |-> T.nout, nred |-> T.nred,
           noutpad |-> RoundUp(T.nout, PerGroup), nredpad |-> RoundUp(T.nred, Epb),
           ngroups |-> CeilDiv(T.nout, PerGroup),
           nchunks |-> CeilDiv(RoundUp(T.nred, Epb), Epr),
           frontier |-> T.frontier, zeroed |-> T.zeroed, mem |-> T.mem]
  BY DEF Laid
<1>2. s = [layout |-> T.layout, nout |-> T.nout, nred |-> T.nred,
           noutpad |-> RoundUp(T.nout, PerGroup), nredpad |-> RoundUp(T.nred, Epb),
           ngroups |-> CeilDiv(T.nout, PerGroup),
           nchunks |-> CeilDiv(RoundUp(T.nred, Epb), Epr),
           frontier |-> T.frontier, zeroed |-> T.zeroed, mem |-> m]
  BY <1>1
<1>3. SamePlan(s, T) /\ SameMarks(s, T) /\ s.mem = m
  BY <1>1, <1>2 DEF SamePlan, SameMarks
<1>4. Laid(s)
  <2>1. /\ s.layout \in Layout /\ s.nout \in Nat \ {0} /\ s.nred \in Nat \ {0}
        /\ s.frontier \in 0 .. Grow(s) /\ s.zeroed \in 0 .. s.nchunks
    BY <1>3 DEF SamePlan, SameMarks, Laid, Grow
  <2>2. DOMAIN s.mem = Elems(s)
    BY <1>3 DEF SamePlan, Laid, Elems
  <2>3. s = [layout |-> s.layout, nout |-> s.nout, nred |-> s.nred,
             noutpad |-> RoundUp(s.nout, PerGroup), nredpad |-> RoundUp(s.nred, Epb),
             ngroups |-> CeilDiv(s.nout, PerGroup),
             nchunks |-> CeilDiv(RoundUp(s.nred, Epb), Epr),
             frontier |-> s.frontier, zeroed |-> s.zeroed, mem |-> s.mem]
    BY <1>2, <1>3 DEF SamePlan, SameMarks
  <2> QED BY <2>1, <2>2, <2>3 DEF Laid
<1> QED BY <1>3, <1>4

(* Marks change and the memory stays.                                       *)
Marked(T, f, z) == [T EXCEPT !.frontier = f, !.zeroed = z]

LEMMA NewMarks ==
  ASSUME NEW T, Laid(T), NEW f \in 0 .. Grow(T), NEW z \in 0 .. T.nchunks,
         NEW s, s = Marked(T, f, z)
  PROVE  /\ Laid(s) /\ SamePlan(s, T) /\ s.frontier = f /\ s.zeroed = z
         /\ \A o, red : Seen(s, o, red) = Seen(T, o, red)
<1>1. T = [layout |-> T.layout, nout |-> T.nout, nred |-> T.nred,
           noutpad |-> RoundUp(T.nout, PerGroup), nredpad |-> RoundUp(T.nred, Epb),
           ngroups |-> CeilDiv(T.nout, PerGroup),
           nchunks |-> CeilDiv(RoundUp(T.nred, Epb), Epr),
           frontier |-> T.frontier, zeroed |-> T.zeroed, mem |-> T.mem]
  BY DEF Laid
<1>2. s = [layout |-> T.layout, nout |-> T.nout, nred |-> T.nred,
           noutpad |-> RoundUp(T.nout, PerGroup), nredpad |-> RoundUp(T.nred, Epb),
           ngroups |-> CeilDiv(T.nout, PerGroup),
           nchunks |-> CeilDiv(RoundUp(T.nred, Epb), Epr),
           frontier |-> f, zeroed |-> z, mem |-> T.mem]
  <2> DEFINE R(g, y) ==
        [layout |-> T.layout, nout |-> T.nout, nred |-> T.nred,
         noutpad |-> RoundUp(T.nout, PerGroup), nredpad |-> RoundUp(T.nred, Epb),
         ngroups |-> CeilDiv(T.nout, PerGroup),
         nchunks |-> CeilDiv(RoundUp(T.nred, Epb), Epr),
         frontier |-> g, zeroed |-> y, mem |-> T.mem]
  <2>1. T = R(T.frontier, T.zeroed)
    BY <1>1
  <2>2. \A g, y, w : [R(g, y) EXCEPT !.frontier = w] = R(w, y)
    OBVIOUS
  <2>3. \A g, y, w : [R(g, y) EXCEPT !.zeroed = w] = R(g, w)
    OBVIOUS
  <2>4. s = [[T EXCEPT !.frontier = f] EXCEPT !.zeroed = z]
    BY DEF Marked
  <2> HIDE DEF R
  <2>5. [T EXCEPT !.frontier = f] = R(f, T.zeroed)
    BY <2>1, <2>2
  <2>6. s = [R(f, T.zeroed) EXCEPT !.zeroed = z]
    BY <2>4, <2>5
  <2>7. s = R(f, z)
    BY <2>3, <2>6
  <2> QED BY <2>7 DEF R
<1>3. SamePlan(s, T) /\ s.frontier = f /\ s.zeroed = z /\ s.mem = T.mem
  BY <1>1, <1>2 DEF SamePlan
<1>4. Laid(s)
  <2>1. /\ s.layout \in Layout /\ s.nout \in Nat \ {0} /\ s.nred \in Nat \ {0}
        /\ s.frontier \in 0 .. Grow(s) /\ s.zeroed \in 0 .. s.nchunks
    BY <1>3 DEF SamePlan, Laid, Grow
  <2>2. DOMAIN s.mem = Elems(s)
    BY <1>3 DEF SamePlan, Laid, Elems
  <2>3. s = [layout |-> s.layout, nout |-> s.nout, nred |-> s.nred,
             noutpad |-> RoundUp(s.nout, PerGroup), nredpad |-> RoundUp(s.nred, Epb),
             ngroups |-> CeilDiv(s.nout, PerGroup),
             nchunks |-> CeilDiv(RoundUp(s.nred, Epb), Epr),
             frontier |-> s.frontier, zeroed |-> s.zeroed, mem |-> s.mem]
    BY <1>2, <1>3 DEF SamePlan
  <2> QED BY <2>1, <2>2, <2>3 DEF Laid
<1>5. ASSUME NEW o, NEW red
      PROVE  Seen(s, o, red) = Seen(T, o, red)
  BY <1>3 DEF SamePlan, Seen, Fed, Unit
<1> QED BY <1>3, <1>4, <1>5

(* The first n transfers of a rectangle.                                    *)
LEMMA ScatterWrites ==
  ASSUME NEW T, Laid(T), NEW r, Fits(T, r), NEW src, NEW n \in 0 .. Runs(r),
         NEW s, s = [T EXCEPT !.mem = Scatter(T, r, n, src)]
  PROVE  Wrote(s, T, r, src) /\ (n = Runs(r) => Filled(s, T, r, src)) /\ SameMarks(s, T)
<1>1. Runs(r) \in Nat /\ ((r.nout # 0 /\ r.nred # 0) \/ Runs(r) = 0)
  <2>1. CASE r.nout = 0 \/ r.nred = 0
    BY <2>1 DEF Runs
  <2>2. CASE r.nout # 0 /\ r.nred # 0
    BY <2>2, ChunkCount
  <2> QED BY <2>1, <2>2
<1> DEFINE m == Scatter(T, r, n, src)
           At(h) == Offset(T, Run(r, h).out, Run(r, h).red)
           Hits(x) == {h \in 0 .. n - 1 : x - At(h) \in 0 .. Run(r, h).len - 1}
           Put(x, h) == Host(T, src, Run(r, h).out, Run(r, h).red + (x - At(h)))
<1>2. m = [x \in DOMAIN T.mem |->
             IF Hits(x) = {} THEN T.mem[x] ELSE Put(x, CHOOSE h \in Hits(x) : TRUE)]
  BY DEF Scatter
<1> HIDE DEF m
<1>3. Laid(s) /\ SamePlan(s, T) /\ SameMarks(s, T) /\ s.mem = m
  <2>1. DOMAIN m = DOMAIN T.mem
    BY <1>2
  <2>2. s = [T EXCEPT !.mem = m]
    BY DEF m
  <2> QED BY <2>1, <2>2, NewMemory
<1>4. ASSUME NEW o, NEW red, Inside(T, o, red)
      PROVE  /\ Seen(s, o, red) \in {Seen(T, o, red), Host(T, src, o, red)}
             /\ ~Covers(r, o, red) => Seen(s, o, red) = Seen(T, o, red)
             /\ n = Runs(r) /\ Covers(r, o, red) => Seen(s, o, red) = Host(T, src, o, red)
  <2> DEFINE x == Place(T, o, red)
  <2>1. o \in Nat /\ red \in Nat
    BY <1>4, PlanSizes, SMT DEF Inside
  <2>2. x \in DOMAIN T.mem
    BY <1>4, PlaceExists
  <2>3. Seen(T, o, red) = T.mem[x]
    BY <2>1, PlaceOf
  <2>4. Seen(s, o, red) = m[x]
    <3>1. Seen(s, o, red) = s.mem[Place(s, o, red)]
      BY <1>3, <2>1, PlaceOf
    <3>2. Place(s, o, red) = x
      BY <1>3 DEF SamePlan, Place
    <3> QED BY <1>3, <3>1, <3>2
  <2>5. ASSUME NEW h \in 0 .. n - 1
        PROVE  /\ h \in Hits(x) <=> o = Run(r, h).out
                                    /\ red \in Run(r, h).red .. Run(r, h).red + Run(r, h).len - 1
               /\ h \in Hits(x) => Put(x, h) = Host(T, src, o, red) /\ Covers(r, o, red)
    <3>1. h \in Nat /\ h < Runs(r)
      BY <1>1, SMT
    <3>2. /\ x - At(h) \in 0 .. Run(r, h).len - 1 <=>
               o = Run(r, h).out /\ red \in Run(r, h).red .. Run(r, h).red + Run(r, h).len - 1
          /\ x - At(h) \in 0 .. Run(r, h).len - 1 => Run(r, h).red + (x - At(h)) = red
      BY <1>4, <3>1, RunWrites
    <3>3. o = Run(r, h).out /\ red \in Run(r, h).red .. Run(r, h).red + Run(r, h).len - 1
            => Covers(r, o, red)
      <4> DEFINE a == Run(r, h).red
                 b == Run(r, h).len
                 c == Run(r, h).out
      <4>1. /\ c \in r.out0 .. r.out0 + r.nout - 1 /\ a \in Nat /\ b \in Nat
            /\ r.red0 <= a /\ a + b <= r.red0 + r.nred
        BY <3>1, RunInChunk
      <4> HIDE DEF a, b, c
      <4>2. o = c /\ red \in a .. a + b - 1 => Covers(r, o, red)
        BY <2>1, <4>1, SMT DEF Covers, Fits
      <4> QED BY <4>2 DEF a, b, c
    <3> HIDE DEF x, At
    <3> QED BY <3>2, <3>3
  <2>6. CASE Hits(x) = {}
    <3>1. m[x] = T.mem[x]
      BY <1>2, <2>2, <2>6
    <3>2. ~ (n = Runs(r) /\ Covers(r, o, red))
      <4>1. SUFFICES ASSUME n = Runs(r), Covers(r, o, red)
                     PROVE  FALSE
        OBVIOUS
      <4>2. PICK h \in 0 .. n - 1 :
              o = Run(r, h).out /\ red \in Run(r, h).red .. Run(r, h).red + Run(r, h).len - 1
        BY <4>1, RunFor
      <4>3. h \in Hits(x)
        <5> HIDE DEF x, Hits
        <5> QED BY <2>5, <4>2
      <4> QED BY <2>6, <4>3
    <3> QED BY <2>3, <2>4, <3>1, <3>2
  <2>7. CASE Hits(x) # {}
    <3> DEFINE h == CHOOSE h \in Hits(x) : TRUE
    <3>1. h \in Hits(x)
      <4> HIDE DEF Hits
      <4> QED BY <2>7
    <3>2. m[x] = Put(x, h)
      <4> HIDE DEF Hits, Put, x
      <4> QED BY <1>2, <2>2, <2>7
    <3>3. h \in 0 .. n - 1
      BY <3>1
    <3> HIDE DEF h, Hits, Put, x
    <3>4. Put(x, h) = Host(T, src, o, red) /\ Covers(r, o, red)
      BY <2>5, <3>1, <3>3
    <3> QED BY <2>4, <3>2, <3>4
  <2> QED BY <2>6, <2>7
<1> QED BY <1>3, <1>4 DEF Wrote, Filled

LEMMA SentWrote ==
  ASSUME NEW T, Laid(T), NEW r, Fits(T, r), NEW src, NEW s, s = Sent(T, r, src)
  PROVE  Wrote(s, T, r, src) /\ Filled(s, T, r, src) /\ SameMarks(s, T)
<1>1. Runs(r) \in Nat
  <2>1. CASE r.nout = 0 \/ r.nred = 0
    BY <2>1 DEF Runs
  <2>2. CASE r.nout # 0 /\ r.nred # 0
    BY <2>2, ChunkCount
  <2> QED BY <2>1, <2>2
<1>2. Runs(r) \in 0 .. Runs(r) /\ s = [T EXCEPT !.mem = Scatter(T, r, Runs(r), src)]
  BY <1>1, SMT DEF Sent
<1> QED BY <1>2, ScatterWrites

LEMMA CutWrote ==
  ASSUME NEW T, Laid(T), NEW r, Fits(T, r), NEW src, NEW s \in CutShort(T, r, src)
  PROVE  Wrote(s, T, r, src) /\ SameMarks(s, T)
<1>1. PICK n \in 0 .. Runs(r) - 1 : s = [T EXCEPT !.mem = Scatter(T, r, n, src)]
  BY DEF CutShort
<1>2. Runs(r) \in Nat
  <2>1. CASE r.nout = 0 \/ r.nred = 0
    BY <2>1 DEF Runs
  <2>2. CASE r.nout # 0 /\ r.nred # 0
    BY <2>2, ChunkCount
  <2> QED BY <2>1, <2>2
<1>3. n \in 0 .. Runs(r)
  BY <1>2, SMT
<1>4. Wrote(s, T, r, src) /\ (n = Runs(r) => Filled(s, T, r, src)) /\ SameMarks(s, T)
  BY <1>1, <1>3, ScatterWrites
<1> QED BY <1>4

------------------------------------------------------------------------------
(* Steps.  What a launch sees of step i at index j of the other axis.       *)
Elem(T, i, j) == IF T.layout = "out" THEN Seen(T, i, j) ELSE Seen(T, j, i)
Others(T) == IF T.layout = "out" THEN 0 .. T.nred - 1 ELSE 0 .. T.nout - 1

LEMMA StepsInside ==
  ASSUME NEW T, Laid(T), NEW i \in 0 .. Grow(T) - 1, NEW j \in Others(T)
  PROVE  /\ i \in Nat /\ j \in Nat
         /\ T.layout = "out" => Inside(T, i, j) /\ i < T.nout /\ j < T.nred
         /\ T.layout = "red" => Inside(T, j, i) /\ j < T.nout /\ i < T.nred
<1>1. /\ T.nout \in Nat /\ T.noutpad \in Nat /\ T.nout <= T.noutpad
      /\ T.nred \in Nat /\ T.nredpad \in Nat /\ T.nred <= T.nredpad
  BY PlanSizes
<1>2. CASE T.layout = "out"
  BY <1>1, <1>2, SMT DEF Grow, Others, Inside
<1>3. CASE T.layout = "red"
  BY <1>1, <1>3, SMT DEF Grow, Others, Inside
<1> QED BY <1>2, <1>3 DEF Laid, Layout

LEMMA FirstOther ==
  ASSUME NEW T, Laid(T)
  PROVE  0 \in Others(T)
<1>1. T.nout \in Nat \ {0} /\ T.nred \in Nat \ {0}
  BY DEF Laid
<1> QED BY <1>1, SMT DEF Others

LEMMA StoredIsData ==
  ASSUME NEW V, NEW i, NEW j
  PROVE  /\ Stored(V, i, j) \notin {Zero, Junk} /\ Stored(V, i, j)[1] = V
         /\ \A w : Stored(V, i, j) = Stored(w, i, j) => V = w
<1>1. \A x, y, z : <<x, y, z>> # <<>> /\ <<x, y, z>> # <<0>> /\ <<x, y, z>>[1] = x
  BY SMT
<1> QED BY <1>1 DEF Stored, Zero, Junk

(* A step stored whole is found; one that is not is lost.                   *)
LEMMA StepFound ==
  ASSUME NEW T, Laid(T), NEW i, NEW V, \A j \in Others(T) : Elem(T, i, j) = Stored(V, i, j)
  PROVE  StepAt(T, i) = V
<1> DEFINE At(j) == Elem(T, i, j)
           Found == {w \in {At(0)} \ {Zero, Junk} : \A j \in Others(T) : At(j) = Stored(w[1], i, j)}
<1>1. StepAt(T, i) = IF Found = {} THEN 0 ELSE At(0)[1]
  BY DEF StepAt, Elem, Others
<1>2. At(0) = Stored(V, i, 0)
  BY FirstOther
<1>3. At(0) \notin {Zero, Junk} /\ At(0)[1] = V
  BY <1>2, StoredIsData
<1> HIDE DEF At
<1>4. \A j \in Others(T) : At(j) = Stored(At(0)[1], i, j)
  BY <1>3 DEF At
<1>5. At(0) \in Found
  BY <1>3, <1>4
<1> QED BY <1>1, <1>3, <1>5

LEMMA StepLost ==
  ASSUME NEW T, NEW i, \A V : \E j \in Others(T) : Elem(T, i, j) # Stored(V, i, j)
  PROVE  StepAt(T, i) = 0
<1> DEFINE At(j) == Elem(T, i, j)
           Found == {w \in {At(0)} \ {Zero, Junk} : \A j \in Others(T) : At(j) = Stored(w[1], i, j)}
<1>1. StepAt(T, i) = IF Found = {} THEN 0 ELSE At(0)[1]
  BY DEF StepAt, Elem, Others
<1>2. Found = {}
  OBVIOUS
<1> QED BY <1>1, <1>2

(* What is not touched is found as before, ...                              *)
LEMMA StepKept ==
  ASSUME NEW T, NEW s, Laid(T), Laid(s), SamePlan(s, T), NEW i,
         \A j \in Others(T) : Elem(s, i, j) = Elem(T, i, j)
  PROVE  StepAt(s, i) = StepAt(T, i)
<1>1. Others(s) = Others(T)
  BY DEF SamePlan, Others
<1>2. CASE \E V : \A j \in Others(T) : Elem(T, i, j) = Stored(V, i, j)
  <2>1. PICK V : \A j \in Others(T) : Elem(T, i, j) = Stored(V, i, j)
    BY <1>2
  <2>2. StepAt(T, i) = V
    BY <2>1, StepFound
  <2>3. StepAt(s, i) = V
    BY <1>1, <2>1, StepFound
  <2> QED BY <2>2, <2>3
<1>3. CASE \A V : \E j \in Others(T) : Elem(T, i, j) # Stored(V, i, j)
  <2>1. StepAt(T, i) = 0
    BY <1>3, StepLost
  <2>2. StepAt(s, i) = 0
    BY <1>1, <1>3, StepLost
  <2> QED BY <2>1, <2>2
<1> QED BY <1>2, <1>3

(* ... and what is touched is as before, new, or lost.                      *)
LEMMA StepTouched ==
  ASSUME NEW T, NEW s, Laid(T), Laid(s), SamePlan(s, T), NEW i, NEW V,
         \A j \in Others(T) : Elem(s, i, j) \in {Elem(T, i, j), Zero, Stored(V, i, j)}
  PROVE  StepAt(s, i) \in {StepAt(T, i), V, 0}
<1>1. Others(s) = Others(T)
  BY DEF SamePlan, Others
<1>2. CASE \E w : \A j \in Others(T) : Elem(s, i, j) = Stored(w, i, j)
  <2>1. PICK w : \A j \in Others(T) : Elem(s, i, j) = Stored(w, i, j)
    BY <1>2
  <2>2. StepAt(s, i) = w
    BY <1>1, <2>1, StepFound
  <2>3. CASE w = V
    BY <2>2, <2>3
  <2>4. CASE w # V
    <3>1. ASSUME NEW j \in Others(T)
          PROVE  Elem(T, i, j) = Stored(w, i, j)
      <4>1. Elem(s, i, j) # Zero /\ Elem(s, i, j) # Stored(V, i, j)
        BY <2>1, <2>4, StoredIsData
      <4> QED BY <2>1, <4>1
    <3>2. StepAt(T, i) = w
      BY <3>1, StepFound
    <3> QED BY <2>2, <3>2
  <2> QED BY <2>3, <2>4
<1>3. CASE \A w : \E j \in Others(T) : Elem(s, i, j) # Stored(w, i, j)
  <2>1. StepAt(s, i) = 0
    BY <1>1, <1>3, StepLost
  <2> QED BY <2>1
<1> QED BY <1>2, <1>3

------------------------------------------------------------------------------
(* What a rectangle does to the steps.                                      *)
Touches(T, r, i, j) == IF T.layout = "out" THEN Covers(r, i, j) ELSE Covers(r, j, i)
FromHost(src, i, j) == IF src = Null THEN Zero ELSE Stored(src, i, j)

LEMMA WroteElem ==
  ASSUME NEW T, Laid(T), NEW s, NEW r, NEW src, Wrote(s, T, r, src),
         NEW i \in 0 .. Grow(T) - 1, NEW j \in Others(T)
  PROVE  /\ Elem(s, i, j) \in {Elem(T, i, j), FromHost(src, i, j)}
         /\ ~Touches(T, r, i, j) => Elem(s, i, j) = Elem(T, i, j)
         /\ Filled(s, T, r, src) /\ Touches(T, r, i, j) => Elem(s, i, j) = FromHost(src, i, j)
<1>1. s.layout = T.layout
  BY DEF Wrote, SamePlan
<1>2. CASE T.layout = "out"
  <2>1. Inside(T, i, j)
    BY <1>2, StepsInside
  <2>2. Host(T, src, i, j) = FromHost(src, i, j)
    BY <1>2 DEF Host, FromHost
  <2> QED BY <1>1, <1>2, <2>1, <2>2 DEF Wrote, Filled, Elem, Touches
<1>3. CASE T.layout = "red"
  <2>1. Inside(T, j, i)
    BY <1>3, StepsInside
  <2>2. Host(T, src, j, i) = FromHost(src, i, j)
    BY <1>3 DEF Host, FromHost
  <2> QED BY <1>1, <1>3, <2>1, <2>2 DEF Wrote, Filled, Elem, Touches
<1> QED BY <1>2, <1>3 DEF Laid, Layout

(* A step no element of which lies in it stays, ...                         *)
LEMMA RectMisses ==
  ASSUME NEW T, Laid(T), NEW s, NEW r, NEW src, Wrote(s, T, r, src),
         NEW i \in 0 .. Grow(T) - 1, \A j \in Others(T) : ~Touches(T, r, i, j)
  PROVE  StepAt(s, i) = StepAt(T, i)
<1>1. \A j \in Others(T) : Elem(s, i, j) = Elem(T, i, j)
  BY WroteElem
<1>2. Laid(s) /\ SamePlan(s, T)
  BY DEF Wrote
<1> QED BY <1>1, <1>2, StepKept

(* ... any step stays, becomes the host's or is lost, ...                   *)
LEMMA RectTouches ==
  ASSUME NEW T, Laid(T), NEW s, NEW r, NEW src, Wrote(s, T, r, src),
         NEW V, src \in {Null, V}, NEW i \in 0 .. Grow(T) - 1
  PROVE  StepAt(s, i) \in {StepAt(T, i), V, 0}
<1>1. ASSUME NEW j \in Others(T)
      PROVE  Elem(s, i, j) \in {Elem(T, i, j), Zero, Stored(V, i, j)}
  <2>1. Elem(s, i, j) \in {Elem(T, i, j), FromHost(src, i, j)}
    BY WroteElem
  <2> QED BY <2>1 DEF FromHost
<1>2. Laid(s) /\ SamePlan(s, T)
  BY DEF Wrote
<1> QED BY <1>1, <1>2, StepTouched

(* ... and one that lies in it is the host's when all of it went through.   *)
LEMMA RectFills ==
  ASSUME NEW T, Laid(T), NEW s, NEW r, NEW V, V # Null, Wrote(s, T, r, V), Filled(s, T, r, V),
         NEW i \in 0 .. Grow(T) - 1, \A j \in Others(T) : Touches(T, r, i, j)
  PROVE  StepAt(s, i) = V
<1>1. ASSUME NEW j \in Others(T)
      PROVE  Elem(s, i, j) = Stored(V, i, j)
  <2>1. Elem(s, i, j) = FromHost(V, i, j)
    BY WroteElem
  <2> QED BY <2>1 DEF FromHost
<1>2. Laid(s) /\ SamePlan(s, T)
  BY DEF Wrote
<1>3. Others(s) = Others(T)
  BY <1>2 DEF SamePlan, Others
<1> QED BY <1>1, <1>2, <1>3, StepFound

(* Plans that are the same are so both ways and for everything made of them. *)
LEMMA SamePlans ==
  ASSUME NEW T, NEW s, SamePlan(s, T)
  PROVE  /\ Grow(s) = Grow(T) /\ Others(s) = Others(T)
         /\ \A o, red : Inside(s, o, red) = Inside(T, o, red)
         /\ \A r : Fits(s, r) = Fits(T, r)
         /\ \A r, i, j : Touches(s, r, i, j) = Touches(T, r, i, j)
         /\ \A src, o, red : Host(s, src, o, red) = Host(T, src, o, red)
BY DEF SamePlan, Grow, Others, Inside, Fits, Touches, Host

------------------------------------------------------------------------------
(* The zero contract, as far as the lazy clear has come: behind the frontier *)
(* a tensor that grows along its reduction is zero, padding included.       *)
Cleared(T) ==
  T.layout = "red" =>
    \A o, red : Inside(T, o, red) /\ T.frontier <= red /\ red < Epr * T.zeroed => Seen(T, o, red) = Zero

(* The frontier is in a chunk that was cleared.                             *)
Reached(T) == T.layout = "red" => T.frontier <= Epr * T.zeroed

(* What an upload leaves behind.                                            *)
UploadDone(T, V, s) ==
  /\ s.frontier = Grow(T)
  /\ \A i \in 0 .. Grow(T) - 1 : StepAt(s, i) = V
  /\ Cleared(s) /\ Reached(s)
UploadFailed(T, V, s) ==
  /\ SameMarks(s, T)
  /\ \A i \in 0 .. Grow(T) - 1 : StepAt(s, i) \in {StepAt(T, i), V, 0}

LEMMA UploadDoes ==
  ASSUME NEW T, Laid(T), NEW V, V # Null, NEW o \in Upload(T, V)
  PROVE  /\ Laid(o.t) /\ SamePlan(o.t, T)
         /\ \/ o.ok = TRUE /\ UploadDone(T, V, o.t)
            \/ o.ok = FALSE /\ UploadFailed(T, V, o.t)
<1> DEFINE rows == Rect(T.nout, T.noutpad - T.nout, 0, T.nredpad)
           tail == Rect(0, T.nout, T.nred, T.nredpad - T.nred)
           all  == Rect(0, T.nout, 0, T.nred)
           t1 == Sent(T, rows, Null)
           t2 == Sent(t1, tail, Null)
           t3 == Sent(t2, all, V)
           t4 == [t3 EXCEPT !.zeroed = T.nchunks, !.frontier = Grow(T)]
<1>1. /\ T.nout \in Nat \ {0} /\ T.noutpad \in Nat /\ T.nout <= T.noutpad
      /\ T.nred \in Nat \ {0} /\ T.nredpad \in Nat /\ T.nred <= T.nredpad
      /\ T.nchunks \in Nat /\ Grow(T) \in Nat
      /\ T.nredpad <= Epr * T.nchunks
  BY PlanSizes
<1>2. Fits(T, rows) /\ Fits(T, tail) /\ Fits(T, all)
  BY <1>1, SMT DEF Fits, Rect
<1>3. /\ \A p, q : Covers(rows, p, q) <=> p \in T.nout .. T.noutpad - 1 /\ q \in 0 .. T.nredpad - 1
      /\ \A p, q : Covers(tail, p, q) <=> p \in 0 .. T.nout - 1 /\ q \in T.nred .. T.nredpad - 1
      /\ \A p, q : Covers(all, p, q) <=> p \in 0 .. T.nout - 1 /\ q \in 0 .. T.nred - 1
  BY <1>1, SMT DEF Covers, Rect
<1>4. o \in {Error(s) : s \in CutShort(T, rows, Null) \cup CutShort(t1, tail, Null) \cup CutShort(t2, all, V)}
            \cup {Ok(t4)}
  BY DEF Upload
<1> HIDE DEF rows, tail, all
<1>5. Wrote(t1, T, rows, Null) /\ Filled(t1, T, rows, Null) /\ SameMarks(t1, T)
  BY <1>2, SentWrote
<1> HIDE DEF t1
<1>6. Laid(t1) /\ SamePlan(t1, T)
  BY <1>5 DEF Wrote
<1>7. Wrote(t2, t1, tail, Null) /\ Filled(t2, t1, tail, Null) /\ SameMarks(t2, t1)
  <2>1. Fits(t1, tail)
    BY <1>2, <1>6, SamePlans
  <2> QED BY <1>6, <2>1, SentWrote
<1> HIDE DEF t2
<1>8. Laid(t2) /\ SamePlan(t2, T)
  BY <1>6, <1>7 DEF Wrote, SamePlan
<1>9. Wrote(t3, t2, all, V) /\ Filled(t3, t2, all, V) /\ SameMarks(t3, t2)
  <2>1. Fits(t2, all)
    BY <1>2, <1>8, SamePlans
  <2> QED BY <1>8, <2>1, SentWrote
<1> HIDE DEF t3
<1>10. Laid(t3) /\ SamePlan(t3, T)
  BY <1>8, <1>9 DEF Wrote, SamePlan
<1>11. ASSUME NEW i \in 0 .. Grow(T) - 1, NEW j \in Others(T)
       PROVE  ~Touches(T, rows, i, j) /\ ~Touches(T, tail, i, j) /\ Touches(T, all, i, j)
  <2>1. /\ i \in Nat /\ j \in Nat
        /\ T.layout = "out" => i < T.nout /\ j < T.nred
        /\ T.layout = "red" => j < T.nout /\ i < T.nred
    BY StepsInside
  <2>2. T.layout \in {"out", "red"}
    BY DEF Laid, Layout
  <2>3. CASE T.layout = "out"
    <3>1. ~Covers(rows, i, j) /\ ~Covers(tail, i, j) /\ Covers(all, i, j)
      BY <1>1, <1>3, <2>1, <2>3, SMT
    <3> QED BY <2>3, <3>1 DEF Touches
  <2>4. CASE T.layout = "red"
    <3>1. ~Covers(rows, j, i) /\ ~Covers(tail, j, i) /\ Covers(all, j, i)
      BY <1>1, <1>3, <2>1, <2>4, SMT
    <3> QED BY <2>4, <3>1 DEF Touches
  <2> QED BY <2>2, <2>3, <2>4
<1>12. \A i \in 0 .. Grow(T) - 1 : StepAt(t1, i) = StepAt(T, i)
  BY <1>5, <1>11, RectMisses
<1>13. \A i \in 0 .. Grow(T) - 1 : StepAt(t2, i) = StepAt(T, i)
  <2>1. \A i \in 0 .. Grow(t1) - 1 : StepAt(t2, i) = StepAt(t1, i)
    <3>1. \A i \in 0 .. Grow(t1) - 1 : \A j \in Others(t1) : ~Touches(t1, tail, i, j)
      BY <1>6, <1>11, SamePlans
    <3> QED BY <1>6, <1>7, <3>1, RectMisses
  <2> QED BY <1>6, <1>12, <2>1, SamePlans
<1>14. CASE o = Ok(t4)
  <2>1. /\ Laid(t4) /\ SamePlan(t4, t3) /\ t4.frontier = Grow(T) /\ t4.zeroed = T.nchunks
        /\ \A p, q : Seen(t4, p, q) = Seen(t3, p, q)
    <3>1. t3.nchunks = T.nchunks /\ Grow(t3) = Grow(T)
      BY <1>10, SamePlans DEF SamePlan
    <3>2. Grow(T) \in 0 .. Grow(t3) /\ T.nchunks \in 0 .. t3.nchunks
      BY <1>1, <3>1, SMT
    <3>3. t4 = Marked(t3, Grow(T), T.nchunks)
      BY DEF Marked
    <3> DEFINE f == Grow(T)
               z == T.nchunks
    <3>4. f \in 0 .. Grow(t3) /\ z \in 0 .. t3.nchunks /\ t4 = Marked(t3, f, z)
      BY <3>2, <3>3
    <3> HIDE DEF t4, f, z
    <3>5. /\ Laid(t4) /\ SamePlan(t4, t3) /\ t4.frontier = f /\ t4.zeroed = z
          /\ \A p, q : Seen(t4, p, q) = Seen(t3, p, q)
      BY <1>10, <3>4, NewMarks
    <3> QED BY <3>5 DEF f, z
  <2> HIDE DEF t4
  <2>2. SamePlan(t4, T)
    BY <1>10, <2>1 DEF SamePlan
  <2>3. ASSUME NEW i \in 0 .. Grow(T) - 1
        PROVE  StepAt(t4, i) = V
    <3>1. \A j \in Others(t2) : Touches(t2, all, i, j)
      BY <1>8, <1>11, SamePlans
    <3>2. i \in 0 .. Grow(t2) - 1
      BY <1>8, SamePlans
    <3>3. StepAt(t3, i) = V
      BY <1>8, <1>9, <3>1, <3>2, RectFills
    <3>4. \A j \in Others(t3) : Elem(t4, i, j) = Elem(t3, i, j)
      BY <2>1 DEF Elem, SamePlan
    <3> QED BY <1>10, <2>1, <3>3, <3>4, StepKept
  <2>4. Cleared(t4)
    <3> SUFFICES ASSUME t4.layout = "red", NEW p, NEW q, Inside(t4, p, q), t4.frontier <= q
                 PROVE  Seen(t4, p, q) = Zero
      BY DEF Cleared
    <3>1. t4.frontier = T.nred
      BY <2>1, <2>2 DEF SamePlan, Grow
    <3>2. /\ Inside(T, p, q) /\ Inside(t1, p, q) /\ Inside(t2, p, q)
          /\ p \in Nat /\ q \in Nat /\ T.nred <= q /\ q < T.nredpad /\ p < T.noutpad
      <4>1. Inside(T, p, q) /\ Inside(t1, p, q) /\ Inside(t2, p, q)
        BY <1>6, <1>8, <2>2, SamePlans
      <4> QED BY <1>1, <3>1, <4>1, SMT DEF Inside
    <3>3. Seen(t3, p, q) = Seen(t2, p, q)
      <4>1. ~Covers(all, p, q)
        BY <1>1, <1>3, <3>2, SMT
      <4> QED BY <1>9, <3>2, <4>1 DEF Wrote
    <3>4. Seen(t2, p, q) = Zero
      <4>1. CASE p < T.nout
        <5>1. Covers(tail, p, q)
          BY <1>1, <1>3, <3>2, <4>1, SMT
        <5>2. Host(t1, Null, p, q) = Zero
          BY DEF Host
        <5> QED BY <1>7, <3>2, <5>1, <5>2 DEF Wrote, Filled
      <4>2. CASE T.nout <= p
        <5>1. Covers(rows, p, q) /\ ~Covers(tail, p, q)
          BY <1>1, <1>3, <3>2, <4>2, SMT
        <5>2. Host(T, Null, p, q) = Zero
          BY DEF Host
        <5> QED BY <1>5, <1>7, <3>2, <5>1, <5>2 DEF Wrote, Filled
      <4> QED BY <1>1, <3>2, <4>1, <4>2, SMT
    <3> QED BY <2>1, <3>3, <3>4
  <2>5. Reached(t4)
    <3> SUFFICES ASSUME t4.layout = "red"
                 PROVE  t4.frontier <= Epr * t4.zeroed
      BY DEF Reached
    <3>1. t4.frontier = T.nred
      BY <2>1, <2>2 DEF SamePlan, Grow
    <3>2. Epr * T.nchunks \in Nat
      BY <1>1, Sizes, ProductNat
    <3> QED BY <1>1, <2>1, <3>1, <3>2, SMT
  <2>6. o.ok = TRUE /\ o.t = t4
    BY <1>14 DEF Ok
  <2> QED BY <2>1, <2>2, <2>3, <2>4, <2>5, <2>6 DEF UploadDone
<1>15. ASSUME NEW s \in CutShort(T, rows, Null) \cup CutShort(t1, tail, Null) \cup CutShort(t2, all, V)
       PROVE  Laid(s) /\ SamePlan(s, T) /\ UploadFailed(T, V, s)
  <2>1. CASE s \in CutShort(T, rows, Null)
    <3>1. Wrote(s, T, rows, Null) /\ SameMarks(s, T)
      BY <1>2, <2>1, CutWrote
    <3>2. \A i \in 0 .. Grow(T) - 1 : StepAt(s, i) = StepAt(T, i)
      BY <1>11, <3>1, RectMisses
    <3> QED BY <3>1, <3>2 DEF Wrote, UploadFailed
  <2>2. CASE s \in CutShort(t1, tail, Null)
    <3>1. Wrote(s, t1, tail, Null) /\ SameMarks(s, t1)
      <4>1. Fits(t1, tail)
        BY <1>2, <1>6, SamePlans
      <4> QED BY <1>6, <2>2, <4>1, CutWrote
    <3>2. \A i \in 0 .. Grow(t1) - 1 : StepAt(s, i) = StepAt(t1, i)
      <4>1. \A i \in 0 .. Grow(t1) - 1 : \A j \in Others(t1) : ~Touches(t1, tail, i, j)
        BY <1>6, <1>11, SamePlans
      <4> QED BY <1>6, <3>1, <4>1, RectMisses
    <3>3. \A i \in 0 .. Grow(T) - 1 : StepAt(s, i) = StepAt(T, i)
      BY <1>6, <1>12, <3>2, SamePlans
    <3>4. Laid(s) /\ SamePlan(s, T) /\ SameMarks(s, T)
      BY <1>5, <1>6, <3>1 DEF Wrote, SamePlan, SameMarks
    <3> QED BY <3>3, <3>4 DEF UploadFailed
  <2>3. CASE s \in CutShort(t2, all, V)
    <3>1. Wrote(s, t2, all, V) /\ SameMarks(s, t2)
      <4>1. Fits(t2, all)
        BY <1>2, <1>8, SamePlans
      <4> QED BY <1>8, <2>3, <4>1, CutWrote
    <3>2. \A i \in 0 .. Grow(t2) - 1 : StepAt(s, i) \in {StepAt(t2, i), V, 0}
      <4>1. V \in {Null, V}
        OBVIOUS
      <4> QED BY <1>8, <3>1, <4>1, RectTouches
    <3>3. \A i \in 0 .. Grow(T) - 1 : StepAt(s, i) \in {StepAt(T, i), V, 0}
      BY <1>8, <1>13, <3>2, SamePlans
    <3>4. Laid(s) /\ SamePlan(s, T) /\ SameMarks(s, T)
      BY <1>5, <1>7, <1>8, <3>1 DEF Wrote, SamePlan, SameMarks
    <3> QED BY <3>3, <3>4 DEF UploadFailed
  <2> QED BY <2>1, <2>2, <2>3
<1>16. CASE \E s \in CutShort(T, rows, Null) \cup CutShort(t1, tail, Null) \cup CutShort(t2, all, V) : o = Error(s)
  <2>1. PICK s \in CutShort(T, rows, Null) \cup CutShort(t1, tail, Null) \cup CutShort(t2, all, V) : o = Error(s)
    BY <1>16
  <2>2. o.ok = FALSE /\ o.t = s
    BY <2>1 DEF Error
  <2> QED BY <1>15, <2>2
<1> HIDE DEF t4
<1> QED BY <1>4, <1>14, <1>16

LEMMA MarkedAlone ==
  ASSUME NEW T, Laid(T), NEW f, NEW z
  PROVE  /\ [T EXCEPT !.zeroed = z] = Marked(T, T.frontier, z)
         /\ [T EXCEPT !.frontier = f] = Marked(T, f, T.zeroed)
<1> DEFINE R(g, y) ==
      [layout |-> T.layout, nout |-> T.nout, nred |-> T.nred,
       noutpad |-> RoundUp(T.nout, PerGroup), nredpad |-> RoundUp(T.nred, Epb),
       ngroups |-> CeilDiv(T.nout, PerGroup),
       nchunks |-> CeilDiv(RoundUp(T.nred, Epb), Epr),
       frontier |-> g, zeroed |-> y, mem |-> T.mem]
<1>1. T = R(T.frontier, T.zeroed)
  BY DEF Laid
<1>2. \A g, y, w : [R(g, y) EXCEPT !.frontier = w] = R(w, y)
  OBVIOUS
<1>3. \A g, y, w : [R(g, y) EXCEPT !.zeroed = w] = R(g, w)
  OBVIOUS
<1> HIDE DEF R
<1>5. \A w : [T EXCEPT !.frontier = w] = R(w, T.zeroed)
  BY <1>1, <1>2
<1>6. [T EXCEPT !.zeroed = z] = R(T.frontier, z)
  BY <1>1, <1>3
<1>8. ASSUME NEW g, NEW y
      PROVE  Marked(T, g, y) = R(g, y)
  <2>1. Marked(T, g, y) = [[T EXCEPT !.frontier = g] EXCEPT !.zeroed = y]
    BY DEF Marked
  <2>2. [T EXCEPT !.frontier = g] = R(g, T.zeroed)
    BY <1>5
  <2>3. Marked(T, g, y) = [R(g, T.zeroed) EXCEPT !.zeroed = y]
    BY <2>1, <2>2
  <2> QED BY <1>3, <2>3
<1>9. [T EXCEPT !.frontier = f] = R(f, T.zeroed)
  BY <1>5
<1>10. Marked(T, T.frontier, z) = R(T.frontier, z) /\ Marked(T, f, T.zeroed) = R(f, T.zeroed)
  BY <1>8
<1> QED BY <1>6, <1>9, <1>10

------------------------------------------------------------------------------
(* What lies below a multiple of d is rounded up to it at most.             *)
LEMMA CeilBelow ==
  ASSUME NEW n \in Nat, NEW d \in Nat \ {0}, NEW h \in Nat, n <= d * h
  PROVE  CeilDiv(n, d) <= h /\ RoundUp(n, d) <= d * h
<1> DEFINE q == CeilDiv(n, d)
<1>1. q \in Nat /\ d * q \in Nat /\ d * q <= n + d - 1 /\ RoundUp(n, d) = d * q
  BY Ceil
<1> HIDE DEF q
<1>2. d * h \in Nat
  BY ProductNat
<1>3. CASE h + 1 <= q
  <2>1. d * h + d <= d * q
    BY <1>1, <1>3, NextMultiple
  <2> QED BY <1>1, <1>2, <2>1, SMT
<1>4. CASE q <= h
  <2>1. d * q <= d * h
    BY <1>1, <1>4, Monotone
  <2> QED BY <1>1, <1>4, <2>1 DEF q
<1> QED BY <1>1, <1>3, <1>4, SMT

(* The chunks an append clears.                                             *)
LEMMA ChunkRectIs ==
  ASSUME NEW T, Laid(T), NEW from \in Nat, NEW to \in Nat, to <= T.nchunks
  PROVE  /\ Fits(T, ChunkRect(T, from, to))
         /\ \A o, red : Covers(ChunkRect(T, from, to), o, red) =>
                          Epr * from <= red /\ red < Epr * to
         /\ \A o, red : Inside(T, o, red) /\ Epr * from <= red /\ red < Epr * to =>
                          Covers(ChunkRect(T, from, to), o, red)
<1> DEFINE r == ChunkRect(T, from, to)
<1>1. /\ T.noutpad \in Nat /\ T.nredpad \in Nat /\ T.nchunks \in Nat
      /\ T.nredpad <= Epr * T.nchunks /\ Epr * T.nchunks <= T.nredpad + Epr - 1
  BY PlanSizes
<1>2. /\ from * Epr = Epr * from /\ Epr * from \in Nat /\ Epr * to \in Nat
      /\ Epr * T.nchunks \in Nat
  BY <1>1, Sizes, ProductNat, SMT
<1>3. CASE from >= to
  <2>1. r = Rect(0, 0, 0, 0)
    BY <1>3 DEF ChunkRect, Nothing
  <2>2. Epr * to <= Epr * from
    BY <1>3, Sizes, Monotone, SMT
  <2>3. Fits(T, r) /\ \A o, red : ~Covers(r, o, red)
    BY <2>1, SMT DEF Fits, Covers, Rect
  <2>4. \A o, red : Inside(T, o, red) => ~(Epr * from <= red /\ red < Epr * to)
    BY <1>1, <1>2, <2>2, SMT DEF Inside
  <2> HIDE DEF r
  <2>5. Fits(T, r) /\ \A o, red : ~Covers(r, o, red)
    BY <2>3
  <2> QED BY <2>4, <2>5 DEF r
<1>4. CASE from < to
  <2> DEFINE len == Least((to - from) * Epr, T.nredpad - from * Epr)
  <2>1. r = Rect(0, T.noutpad, from * Epr, len)
    BY <1>4, SMT DEF ChunkRect
  <2>2. (to - from) * Epr = Epr * to - Epr * from
    BY <1>4, Sizes, SMT
  <2>3. Epr * from + Epr <= Epr * T.nchunks
    <3>1. from + 1 <= T.nchunks
      BY <1>1, <1>4, SMT
    <3> QED BY <1>1, <3>1, Sizes, NextMultiple
  <2>4. /\ len \in Nat
        /\ Epr * from + len <= T.nredpad /\ Epr * from + len <= Epr * to
        /\ \A q \in Nat : q < T.nredpad /\ q < Epr * to => q < Epr * from + len
    <3>1. Epr * from + Epr <= Epr * to
      BY <1>4, Sizes, NextMultiple, SMT
    <3>2. len = Least(Epr * to - Epr * from, T.nredpad - Epr * from)
      BY <1>2, <2>2
    <3> HIDE DEF len
    <3> QED BY <1>1, <1>2, <2>3, <3>1, <3>2, Sizes, SMT DEF Least
  <2> HIDE DEF len, r
  <2>5. r.out0 = 0 /\ r.nout = T.noutpad /\ r.red0 = Epr * from /\ r.nred = len
    BY <1>2, <2>1 DEF Rect
  <2>6. Fits(T, r)
    BY <1>1, <1>2, <2>4, <2>5, SMT DEF Fits
  <2>7. \A o, red : Covers(r, o, red) => Epr * from <= red /\ red < Epr * to
    BY <1>2, <2>4, <2>5, SMT DEF Covers
  <2>8. ASSUME NEW o, NEW red, Inside(T, o, red), Epr * from <= red, red < Epr * to
        PROVE  Covers(r, o, red)
    BY <1>1, <1>2, <2>4, <2>5, <2>8, SMT DEF Covers, Inside
  <2> QED BY <2>6, <2>7, <2>8 DEF r
<1> QED BY <1>3, <1>4, SMT

(* What an append leaves behind.                                            *)
AppendDone(T, first, count, V, s) ==
  /\ first + count <= Grow(T) /\ first <= T.frontier
  /\ s.frontier = Most(T.frontier, first + count)
  /\ \A i \in first .. first + count - 1 : StepAt(s, i) = V
  /\ Reached(T) => \A i \in 0 .. T.frontier - 1 :
                     i \notin first .. first + count - 1 => StepAt(s, i) = StepAt(T, i)
  /\ Cleared(T) => Cleared(s)
  /\ Reached(T) \/ T.frontier = first => Reached(s)
AppendFailed(T, first, V, s) ==
  /\ s.frontier = T.frontier
  /\ Reached(T) =>
       /\ Reached(s)
       /\ \A i \in 0 .. T.frontier - 1 :
            StepAt(s, i) = StepAt(T, i) \/ (first <= i /\ StepAt(s, i) \in {V, 0})

LEMMA AppendDoes ==
  ASSUME NEW T, Laid(T), NEW first \in Nat, NEW count \in Nat \ {0},
         NEW V, V # Null, NEW o \in AppendSteps(T, first, count, V)
  PROVE  /\ Laid(o.t) /\ SamePlan(o.t, T)
         /\ \/ o.ok = TRUE /\ AppendDone(T, first, count, V, o.t)
            \/ o.ok = FALSE /\ AppendFailed(T, first, V, o.t)
<1> DEFINE want  == Wants(T, first, count)
           clear == ChunkRect(T, T.zeroed, want)
           t0    == Sent(T, clear, Null)
           z     == Most(T.zeroed, want)
           t1    == [t0 EXCEPT !.zeroed = Most(@, want)]
           fill  == IF T.layout = "out" THEN Rect(first, count, 0, T.nred) ELSE Rect(0, T.nout, first, count)
           t2    == Sent(t1, fill, V)
           t3    == [t2 EXCEPT !.frontier = Most(@, first + count)]
<1>1. /\ T.nout \in Nat \ {0} /\ T.noutpad \in Nat /\ T.nout <= T.noutpad
      /\ T.nred \in Nat \ {0} /\ T.nredpad \in Nat /\ T.nred <= T.nredpad
      /\ T.nchunks \in Nat /\ Grow(T) \in Nat
      /\ T.nredpad <= Epr * T.nchunks /\ T.frontier \in 0 .. Grow(T) /\ T.zeroed \in 0 .. T.nchunks
  BY PlanSizes
<1>2. T.layout \in {"out", "red"} /\ (T.layout = "out" => Grow(T) = T.nout) /\ (T.layout = "red" => Grow(T) = T.nred)
  BY DEF Laid, Layout, Grow
<1>3. CASE ~MayAppend(T, first, count)
  <2>1. o = Error(T)
    BY <1>3 DEF AppendSteps
  <2>2. o.ok = FALSE /\ o.t = T
    BY <2>1 DEF Error
  <2>3. AppendFailed(T, first, V, T) /\ SamePlan(T, T)
    BY DEF AppendFailed, SamePlan
  <2> QED BY <2>2, <2>3
<1>4. CASE MayAppend(T, first, count)
  <2>1. first + count <= Grow(T) /\ first <= T.frontier
    BY <1>4 DEF MayAppend
  <2>2. o \in {Error(s) : s \in CutShort(T, clear, Null) \cup CutShort(t1, fill, V)} \cup {Ok(t3)}
    BY <1>4 DEF AppendSteps
  <2>3. /\ want \in Nat /\ want <= T.nchunks
        /\ T.layout = "red" => first + count <= Epr * want
        /\ T.layout = "out" => want = 0
    <3>1. CASE T.layout = "out"
      BY <1>1, <3>1 DEF Wants
    <3>2. CASE T.layout = "red"
      <4>1. want = CeilDiv(first + count, Epr)
        BY <3>2 DEF Wants
      <4>2. first + count \in Nat /\ first + count <= Epr * T.nchunks
        <5>1. Epr * T.nchunks \in Nat
          BY <1>1, Sizes, ProductNat
        <5> QED BY <1>1, <1>2, <2>1, <3>2, <5>1, SMT
      <4> DEFINE n == first + count
      <4>3. n \in Nat /\ n <= Epr * T.nchunks /\ want = CeilDiv(n, Epr)
        BY <4>1, <4>2
      <4> HIDE DEF n, want
      <4>4. want \in Nat /\ n <= Epr * want
        BY <4>3, Sizes, Ceil
      <4>5. want <= T.nchunks
        BY <1>1, <4>3, Sizes, CeilBelow
      <4> QED BY <3>2, <4>4, <4>5 DEF n
    <3> QED BY <1>2, <3>1, <3>2
  <2> HIDE DEF want
  <2>4. /\ Fits(T, clear)
        /\ \A p, q : Covers(clear, p, q) => Epr * T.zeroed <= q /\ q < Epr * want
        /\ \A p, q : Inside(T, p, q) /\ Epr * T.zeroed <= q /\ q < Epr * want => Covers(clear, p, q)
    <3> DEFINE y == T.zeroed
    <3>1. y \in Nat
      BY <1>1
    <3> HIDE DEF y
    <3>2. /\ Fits(T, ChunkRect(T, y, want))
          /\ \A p, q : Covers(ChunkRect(T, y, want), p, q) => Epr * y <= q /\ q < Epr * want
          /\ \A p, q : Inside(T, p, q) /\ Epr * y <= q /\ q < Epr * want => Covers(ChunkRect(T, y, want), p, q)
      BY <2>3, <3>1, ChunkRectIs
    <3> QED BY <3>2 DEF y
  <2>5. Fits(T, fill)
    BY <1>1, <1>2, <2>1, SMT DEF Fits, Rect
  <2>6. /\ T.layout = "out" => \A p, q : Covers(fill, p, q) <=> p \in first .. first + count - 1 /\ q \in 0 .. T.nred - 1
        /\ T.layout = "red" => \A p, q : Covers(fill, p, q) <=> p \in 0 .. T.nout - 1 /\ q \in first .. first + count - 1
    BY <1>1, SMT DEF Covers, Rect
  <2> HIDE DEF clear, fill
  <2>7. Wrote(t0, T, clear, Null) /\ Filled(t0, T, clear, Null) /\ SameMarks(t0, T)
    BY <2>4, SentWrote
  <2> HIDE DEF t0
  <2>8. Laid(t0) /\ SamePlan(t0, T) /\ t0.frontier = T.frontier /\ t0.zeroed = T.zeroed
    BY <2>7 DEF Wrote, SameMarks
  <2>9. z \in 0 .. T.nchunks /\ T.zeroed <= z /\ want <= z /\ (z = T.zeroed \/ z = want)
    BY <1>1, <2>3, SMT DEF Most
  <2>10. /\ Laid(t1) /\ SamePlan(t1, t0) /\ t1.frontier = T.frontier /\ t1.zeroed = z
         /\ \A p, q : Seen(t1, p, q) = Seen(t0, p, q)
    <3>1. t1 = [t0 EXCEPT !.zeroed = z]
      BY <2>8
    <3> HIDE DEF t1, z
    <3>2. t1 = Marked(t0, t0.frontier, z)
      BY <2>8, <3>1, MarkedAlone
    <3>3. t0.frontier \in 0 .. Grow(t0) /\ z \in 0 .. t0.nchunks
      BY <1>1, <2>8, <2>9, SamePlans DEF SamePlan
    <3>4. /\ Laid(t1) /\ SamePlan(t1, t0) /\ t1.frontier = t0.frontier /\ t1.zeroed = z
          /\ \A p, q : Seen(t1, p, q) = Seen(t0, p, q)
      BY <2>8, <3>2, <3>3, NewMarks
    <3> QED BY <2>8, <3>4
  <2> HIDE DEF t1, z
  <2>11. SamePlan(t1, T)
    BY <2>8, <2>10 DEF SamePlan
  <2>12. ASSUME NEW i \in 0 .. Grow(T) - 1, NEW j \in Others(T)
         PROVE  /\ Reached(T) /\ i < T.frontier => ~Touches(T, clear, i, j)
                /\ Touches(T, fill, i, j) <=> i \in first .. first + count - 1
    <3>1. /\ i \in Nat /\ j \in Nat
          /\ T.layout = "out" => i < T.nout /\ j < T.nred
          /\ T.layout = "red" => j < T.nout /\ i < T.nred
      BY StepsInside
    <3>2. CASE T.layout = "out"
      <4>1. \A p, q : ~Covers(clear, p, q)
        <5>1. Epr * T.zeroed \in Nat /\ Epr * want = 0
          BY <1>1, <2>3, <3>2, Sizes, ProductNat, SMT
        <5> QED BY <2>4, <5>1, SMT DEF Covers, Fits
      <4>2. Touches(T, fill, i, j) <=> Covers(fill, i, j)
        BY <3>2 DEF Touches
      <4>3. Covers(fill, i, j) <=> i \in first .. first + count - 1
        BY <1>1, <2>6, <3>1, <3>2, SMT
      <4> QED BY <3>2, <4>1, <4>2, <4>3 DEF Touches
    <3>3. CASE T.layout = "red"
      <4>1. ASSUME Reached(T), i < T.frontier
            PROVE  ~Covers(clear, j, i)
        <5>1. T.frontier <= Epr * T.zeroed /\ Epr * T.zeroed \in Nat
          BY <1>1, <3>3, <4>1, Sizes, ProductNat DEF Reached
        <5> QED BY <1>1, <2>4, <3>1, <4>1, <5>1, SMT
      <4>2. Covers(fill, j, i) <=> i \in first .. first + count - 1
        BY <1>1, <2>6, <3>1, <3>3, SMT
      <4> QED BY <3>3, <4>1, <4>2 DEF Touches
    <3> QED BY <1>2, <3>2, <3>3
  <2>13. \A i \in 0 .. T.frontier - 1 : i \in 0 .. Grow(T) - 1 /\ i < T.frontier
    BY <1>1, SMT
  <2>14. ASSUME Reached(T)
         PROVE  \A i \in 0 .. T.frontier - 1 : StepAt(t1, i) = StepAt(T, i)
    <3> TAKE i \in 0 .. T.frontier - 1
    <3>1. \A j \in Others(T) : ~Touches(T, clear, i, j)
      BY <2>12, <2>13, <2>14
    <3>2. StepAt(t0, i) = StepAt(T, i)
      BY <2>7, <2>13, <3>1, RectMisses
    <3>3. \A j \in Others(t0) : Elem(t1, i, j) = Elem(t0, i, j)
      BY <2>10 DEF Elem, SamePlan
    <3>4. StepAt(t1, i) = StepAt(t0, i)
      BY <2>8, <2>10, <3>3, StepKept
    <3> QED BY <3>2, <3>4
  <2>15. ASSUME Reached(T), T.layout = "red"
         PROVE  T.frontier <= Epr * z
    <3>1. T.frontier <= Epr * T.zeroed
      BY <2>15 DEF Reached
    <3>2. Epr * T.zeroed <= Epr * z
      BY <1>1, <2>9, Sizes, Monotone
    <3>3. Epr * T.zeroed \in Nat /\ Epr * z \in Nat
      BY <1>1, <2>9, Sizes, ProductNat
    <3> QED BY <1>1, <3>1, <3>2, <3>3, SMT
  <2>16. Fits(t1, fill)
    BY <2>5, <2>11, SamePlans
  <2>17. CASE o = Ok(t3)
    <3>1. Wrote(t2, t1, fill, V) /\ Filled(t2, t1, fill, V) /\ SameMarks(t2, t1)
      BY <2>10, <2>16, SentWrote
    <3> HIDE DEF t2
    <3>2. Laid(t2) /\ SamePlan(t2, t1) /\ t2.frontier = T.frontier /\ t2.zeroed = z
      BY <2>10, <3>1 DEF Wrote, SameMarks
    <3> DEFINE f == Most(T.frontier, first + count)
    <3>3. f \in 0 .. Grow(T) /\ T.frontier <= f /\ first + count <= f /\ (f = T.frontier \/ f = first + count)
      BY <1>1, <2>1, SMT DEF Most
    <3>4. /\ Laid(t3) /\ SamePlan(t3, t2) /\ t3.frontier = f /\ t3.zeroed = z
          /\ \A p, q : Seen(t3, p, q) = Seen(t2, p, q)
      <4>1. t3 = [t2 EXCEPT !.frontier = f]
        BY <3>2
      <4> HIDE DEF t3, f
      <4>2. t3 = Marked(t2, f, t2.zeroed)
        BY <3>2, <4>1, MarkedAlone
      <4>3. f \in 0 .. Grow(t2) /\ t2.zeroed \in 0 .. t2.nchunks
        BY <2>9, <2>11, <3>2, <3>3, SamePlans DEF SamePlan
      <4>4. /\ Laid(t3) /\ SamePlan(t3, t2) /\ t3.frontier = f /\ t3.zeroed = t2.zeroed
            /\ \A p, q : Seen(t3, p, q) = Seen(t2, p, q)
        BY <3>2, <4>2, <4>3, NewMarks
      <4> QED BY <3>2, <4>4
    <3> HIDE DEF t3
    <3>5. SamePlan(t3, T) /\ SamePlan(t2, T)
      BY <2>11, <3>2, <3>4 DEF SamePlan
    <3>6. \A i : StepAt(t3, i) = StepAt(t2, i)
      <4> TAKE i
      <4>1. \A j \in Others(t2) : Elem(t3, i, j) = Elem(t2, i, j)
        BY <3>4 DEF Elem, SamePlan
      <4> QED BY <3>2, <3>4, <4>1, StepKept
    <3>7. ASSUME NEW i \in first .. first + count - 1
          PROVE  StepAt(t3, i) = V
      <4>1. i \in 0 .. Grow(T) - 1
        BY <1>1, <2>1, SMT
      <4>2. \A j \in Others(t1) : Touches(t1, fill, i, j)
        BY <2>11, <2>12, <4>1, SamePlans
      <4>3. i \in 0 .. Grow(t1) - 1
        BY <2>11, <4>1, SamePlans
      <4>4. StepAt(t2, i) = V
        BY <2>10, <3>1, <4>2, <4>3, RectFills
      <4> QED BY <3>6, <4>4
    <3>8. ASSUME Reached(T), NEW i \in 0 .. T.frontier - 1, i \notin first .. first + count - 1
          PROVE  StepAt(t3, i) = StepAt(T, i)
      <4>1. \A j \in Others(t1) : ~Touches(t1, fill, i, j)
        BY <2>11, <2>12, <2>13, <3>8, SamePlans
      <4>2. i \in 0 .. Grow(t1) - 1
        BY <2>11, <2>13, SamePlans
      <4>3. StepAt(t2, i) = StepAt(t1, i)
        BY <2>10, <3>1, <4>1, <4>2, RectMisses
      <4> QED BY <2>14, <3>6, <3>8, <4>3
    <3>9. ASSUME Cleared(T)
          PROVE  Cleared(t3)
      <4> SUFFICES ASSUME t3.layout = "red", NEW p, NEW q, Inside(t3, p, q),
                          f <= q, q < Epr * z
                   PROVE  Seen(t3, p, q) = Zero
        BY <3>4 DEF Cleared
      <4>1. T.layout = "red"
        BY <3>5 DEF SamePlan
      <4>2. Inside(T, p, q) /\ Inside(t1, p, q)
        BY <2>11, <3>5, SamePlans
      <4>3. p \in Nat /\ q \in Nat
        BY <1>1, <4>2, SMT DEF Inside
      <4>4. Seen(t3, p, q) = Seen(t1, p, q)
        <5>1. ~Covers(fill, p, q)
          BY <1>1, <2>6, <3>3, <4>1, <4>3, SMT
        <5> QED BY <3>1, <3>4, <4>2, <5>1 DEF Wrote
      <4>5. Seen(t1, p, q) = Seen(t0, p, q)
        BY <2>10
      <4>6. Epr * T.zeroed \in Nat /\ Epr * z \in Nat
        BY <1>1, <2>9, Sizes, ProductNat
      <4>7. CASE q < Epr * T.zeroed
        <5>1. ~Covers(clear, p, q)
          BY <2>4, <4>3, <4>6, <4>7, SMT
        <5>2. Seen(t0, p, q) = Seen(T, p, q)
          BY <2>7, <4>2, <5>1 DEF Wrote
        <5>3. T.frontier <= q
          BY <1>1, <3>3, <4>3, SMT
        <5>4. Seen(T, p, q) = Zero
          BY <3>9, <4>1, <4>2, <4>7, <5>3 DEF Cleared
        <5> QED BY <4>4, <4>5, <5>2, <5>4
      <4>8. CASE Epr * T.zeroed <= q
        <5>1. z = want
          <6>1. z # T.zeroed
            BY <4>3, <4>6, <4>8, SMT
          <6> QED BY <2>9, <6>1
        <5>2. Covers(clear, p, q)
          BY <2>4, <4>2, <4>8, <5>1
        <5>3. Host(T, Null, p, q) = Zero
          BY DEF Host
        <5>4. Seen(t0, p, q) = Zero
          BY <2>7, <4>2, <5>2, <5>3 DEF Filled
        <5> QED BY <4>4, <4>5, <5>4
      <4> QED BY <4>3, <4>6, <4>7, <4>8, SMT
    <3>10. ASSUME Reached(T) \/ T.frontier = first
           PROVE  Reached(t3)
      <4> SUFFICES ASSUME t3.layout = "red" PROVE f <= Epr * z
        BY <3>4 DEF Reached
      <4>1. T.layout = "red"
        BY <3>5 DEF SamePlan
      <4>2. first + count <= Epr * want /\ Epr * want <= Epr * z
        BY <2>3, <2>9, <4>1, Sizes, Monotone
      <4>3. Epr * want \in Nat /\ Epr * z \in Nat
        BY <2>3, <2>9, Sizes, ProductNat
      <4>4. T.frontier = first => f = first + count
        BY SMT DEF Most
      <4>5. T.frontier <= Epr * z \/ f = first + count
        BY <2>15, <3>10, <4>1, <4>4
      <4> HIDE DEF f
      <4> QED BY <1>1, <3>3, <4>2, <4>3, <4>5, SMT
    <3>11. o.ok = TRUE /\ o.t = t3
      BY <2>17 DEF Ok
    <3>12. AppendDone(T, first, count, V, t3)
      BY <2>1, <3>4, <3>7, <3>8, <3>9, <3>10 DEF AppendDone
    <3> QED BY <3>4, <3>5, <3>11, <3>12
  <2>18. ASSUME NEW s \in CutShort(T, clear, Null) \cup CutShort(t1, fill, V)
         PROVE  Laid(s) /\ SamePlan(s, T) /\ AppendFailed(T, first, V, s)
    <3>1. CASE s \in CutShort(T, clear, Null)
      <4>1. Wrote(s, T, clear, Null) /\ SameMarks(s, T)
        BY <2>4, <3>1, CutWrote
      <4>2. ASSUME Reached(T)
            PROVE  \A i \in 0 .. T.frontier - 1 : StepAt(s, i) = StepAt(T, i)
        <5> TAKE i \in 0 .. T.frontier - 1
        <5>1. \A j \in Others(T) : ~Touches(T, clear, i, j)
          BY <2>12, <2>13, <4>2
        <5> QED BY <2>13, <4>1, <5>1, RectMisses
      <4>3. Laid(s) /\ SamePlan(s, T)
        BY <4>1 DEF Wrote
      <4>4. s.frontier = T.frontier /\ (Reached(T) => Reached(s))
        BY <4>1, <4>3 DEF SameMarks, SamePlan, Reached
      <4> QED BY <4>2, <4>3, <4>4 DEF AppendFailed
    <3>2. CASE s \in CutShort(t1, fill, V)
      <4>1. Wrote(s, t1, fill, V) /\ SameMarks(s, t1)
        BY <2>10, <2>16, <3>2, CutWrote
      <4>2. ASSUME Reached(T), NEW i \in 0 .. T.frontier - 1
            PROVE  StepAt(s, i) = StepAt(T, i) \/ (first <= i /\ StepAt(s, i) \in {V, 0})
        <5>1. i \in 0 .. Grow(t1) - 1 /\ StepAt(t1, i) = StepAt(T, i)
          BY <2>11, <2>13, <2>14, <4>2, SamePlans
        <5>2. CASE first <= i
          <6>1. V \in {Null, V}
            OBVIOUS
          <6>2. StepAt(s, i) \in {StepAt(t1, i), V, 0}
            BY <2>10, <4>1, <5>1, <6>1, RectTouches
          <6> QED BY <5>1, <5>2, <6>2
        <5>3. CASE ~(first <= i)
          <6>1. i \notin first .. first + count - 1
            BY <5>3, SMT
          <6>2. \A j \in Others(t1) : ~Touches(t1, fill, i, j)
            BY <2>11, <2>12, <2>13, <6>1, SamePlans
          <6>3. StepAt(s, i) = StepAt(t1, i)
            BY <2>10, <4>1, <5>1, <6>2, RectMisses
          <6> QED BY <5>1, <6>3
        <5> QED BY <5>2, <5>3
      <4>3. Laid(s) /\ SamePlan(s, T)
        BY <2>11, <4>1 DEF Wrote, SamePlan
      <4>4. s.frontier = T.frontier /\ s.zeroed = z
        BY <2>10, <4>1 DEF SameMarks
      <4>5. Reached(T) => Reached(s)
        BY <2>15, <4>3, <4>4 DEF Reached, SamePlan
      <4> QED BY <4>2, <4>3, <4>4, <4>5 DEF AppendFailed
    <3> QED BY <3>1, <3>2
  <2>19. CASE \E s \in CutShort(T, clear, Null) \cup CutShort(t1, fill, V) : o = Error(s)
    <3>1. PICK s \in CutShort(T, clear, Null) \cup CutShort(t1, fill, V) : o = Error(s)
      BY <2>19
    <3>2. o.ok = FALSE /\ o.t = s
      BY <3>1 DEF Error
    <3> QED BY <2>18, <3>2
  <2> HIDE DEF t3
  <2> QED BY <2>2, <2>17, <2>19
<1> QED BY <1>3, <1>4

(* What cutting back to pos leaves behind.                                  *)
TruncateDone(T, pos, s) ==
  /\ s.frontier = pos
  /\ \A i \in 0 .. pos - 1 : StepAt(s, i) = StepAt(T, i)
  /\ Cleared(T) => Cleared(s)
  /\ Reached(T) => Reached(s)
TruncateFailed(T, pos, s) ==
  /\ SameMarks(s, T) /\ pos < T.frontier
  /\ \A i \in 0 .. T.frontier - 1 :
       StepAt(s, i) = StepAt(T, i) \/ (pos <= i /\ StepAt(s, i) = 0)

LEMMA TruncateDoes ==
  ASSUME NEW T, Laid(T), NEW pos \in 0 .. T.frontier, NEW o \in Truncate(T, pos)
  PROVE  /\ Laid(o.t) /\ SamePlan(o.t, T)
         /\ \/ o.ok = TRUE /\ TruncateDone(T, pos, o.t)
            \/ o.ok = FALSE /\ TruncateFailed(T, pos, o.t)
<1>1. /\ T.nout \in Nat \ {0} /\ T.noutpad \in Nat /\ T.nout <= T.noutpad
      /\ T.nred \in Nat \ {0} /\ T.nredpad \in Nat /\ T.nred <= T.nredpad
      /\ T.nchunks \in Nat /\ Grow(T) \in Nat
      /\ T.nredpad <= Epr * T.nchunks /\ T.frontier \in 0 .. Grow(T) /\ T.zeroed \in 0 .. T.nchunks
  BY PlanSizes
<1>2. T.layout \in {"out", "red"} /\ (T.layout = "red" => Grow(T) = T.nred)
  BY DEF Laid, Layout, Grow
<1>3. pos \in Nat /\ pos <= T.frontier /\ pos \in 0 .. Grow(T)
  BY <1>1, SMT
<1>4. ASSUME NEW u, Laid(u), SamePlan(u, T), NEW z \in 0 .. T.nchunks
      PROVE  LET s == Marked(u, pos, z)
             IN  /\ Laid(s) /\ SamePlan(s, T) /\ s.frontier = pos /\ s.zeroed = z
                 /\ \A p, q : Seen(s, p, q) = Seen(u, p, q)
                 /\ \A i : StepAt(s, i) = StepAt(u, i)
  <2> DEFINE s == Marked(u, pos, z)
  <2>1. pos \in 0 .. Grow(u) /\ z \in 0 .. u.nchunks
    BY <1>3, <1>4, SamePlans DEF SamePlan
  <2>2. /\ Laid(s) /\ SamePlan(s, u) /\ s.frontier = pos /\ s.zeroed = z
        /\ \A p, q : Seen(s, p, q) = Seen(u, p, q)
    BY <1>4, <2>1, NewMarks
  <2> HIDE DEF s
  <2>3. ASSUME NEW i
        PROVE  StepAt(s, i) = StepAt(u, i)
    <3>1. \A j \in Others(u) : Elem(s, i, j) = Elem(u, i, j)
      BY <2>2 DEF Elem, SamePlan
    <3> QED BY <1>4, <2>2, <3>1, StepKept
  <2>4. SamePlan(s, T)
    BY <1>4, <2>2 DEF SamePlan
  <2> QED BY <2>2, <2>3, <2>4 DEF s
<1>5. SamePlan(T, T)
  BY DEF SamePlan
<1>6. CASE o = Ok([T EXCEPT !.frontier = pos]) /\ (T.layout = "red" => pos = T.frontier)
  <2> DEFINE s == Marked(T, pos, T.zeroed)
  <2>1. o.ok = TRUE /\ o.t = s
    BY <1>6, MarkedAlone DEF Ok
  <2>2. /\ Laid(s) /\ SamePlan(s, T) /\ s.frontier = pos /\ s.zeroed = T.zeroed
        /\ \A p, q : Seen(s, p, q) = Seen(T, p, q)
        /\ \A i : StepAt(s, i) = StepAt(T, i)
    <3> DEFINE z == T.zeroed
    <3>1. z \in 0 .. T.nchunks /\ s = Marked(T, pos, z)
      BY <1>1
    <3> HIDE DEF z, s
    <3>2. /\ Laid(s) /\ SamePlan(s, T) /\ s.frontier = pos /\ s.zeroed = z
          /\ \A p, q : Seen(s, p, q) = Seen(T, p, q)
          /\ \A i : StepAt(s, i) = StepAt(T, i)
      BY <1>4, <1>5, <3>1
    <3> QED BY <3>2 DEF z
  <2> HIDE DEF s
  <2>3. ASSUME Cleared(T)
        PROVE  Cleared(s)
    <3> SUFFICES ASSUME s.layout = "red", NEW p, NEW q, Inside(s, p, q),
                        s.frontier <= q, q < Epr * s.zeroed
                 PROVE  Seen(s, p, q) = Zero
      BY DEF Cleared
    <3>1. T.layout = "red" /\ Inside(T, p, q)
      BY <2>2, SamePlans DEF SamePlan
    <3>2. T.frontier <= q /\ q < Epr * T.zeroed
      BY <1>6, <2>2, <3>1
    <3> QED BY <2>2, <2>3, <3>1, <3>2 DEF Cleared
  <2>4. Reached(T) => Reached(s)
    BY <1>6, <2>2 DEF Reached, SamePlan
  <2> QED BY <2>1, <2>2, <2>3, <2>4 DEF TruncateDone
<1>7. CASE pos < T.frontier /\ T.layout = "red" /\ pos = 0
  <2> DEFINE s == Marked(T, pos, 0)
  <2>1. o = Ok([T EXCEPT !.zeroed = 0, !.frontier = 0])
    BY <1>1, <1>7, SMT DEF Truncate
  <2>2. o.ok = TRUE /\ o.t = s
    BY <1>7, <2>1 DEF Ok, Marked
  <2>3. /\ Laid(s) /\ SamePlan(s, T) /\ s.frontier = pos /\ s.zeroed = 0
    BY <1>1, <1>4, <1>5
  <2> HIDE DEF s
  <2>4. Epr * s.zeroed = 0
    BY <2>3, Sizes, SMT
  <2>5. Cleared(s)
    <3> SUFFICES ASSUME NEW p, NEW q, Inside(s, p, q), q < Epr * s.zeroed
                 PROVE  FALSE
      BY DEF Cleared
    <3>1. q \in 0 .. s.nredpad - 1 /\ s.nredpad \in Nat
      BY <2>3, PlanSizes DEF Inside
    <3> QED BY <2>4, <3>1, SMT
  <2>6. Reached(s)
    BY <1>7, <2>3, <2>4, SMT DEF Reached
  <2>7. \A i \in 0 .. pos - 1 : StepAt(s, i) = StepAt(T, i)
    BY <1>7, SMT
  <2> QED BY <2>2, <2>3, <2>5, <2>6, <2>7 DEF TruncateDone
<1>8. CASE pos < T.frontier /\ T.layout = "red" /\ pos # 0
  <2> DEFINE stale == StaleRect(T, pos)
             t1 == Sent(T, stale, Null)
             t2 == [t1 EXCEPT !.frontier = pos]
  <2>1. o \in {Error(s) : s \in CutShort(T, stale, Null)} \cup {Ok(t2)}
    BY <1>1, <1>8, SMT DEF Truncate
  <2>2. /\ stale.out0 = 0 /\ stale.nout = T.noutpad
        /\ stale.red0 = pos /\ stale.nred = T.frontier - pos
    BY DEF StaleRect, Rect
  <2> HIDE DEF stale
  <2>3. Fits(T, stale)
    BY <1>1, <1>2, <1>3, <1>8, <2>2, SMT DEF Fits
  <2>4. \A p, q : Covers(stale, p, q) <=> p \in 0 .. T.noutpad - 1 /\ q \in pos .. T.frontier - 1
    BY <1>1, <1>3, <2>2, SMT DEF Covers
  <2>5. ASSUME NEW i \in 0 .. Grow(T) - 1, i < pos
        PROVE  \A j \in Others(T) : ~Touches(T, stale, i, j)
    BY <1>1, <1>3, <1>8, <2>4, <2>5, SMT DEF Touches
  <2>6. \A i \in 0 .. T.frontier - 1 : i \in 0 .. Grow(T) - 1 /\ (~(pos <= i) => i < pos)
    BY <1>1, <1>3, SMT
  <2>7. CASE o = Ok(t2)
    <3>1. Wrote(t1, T, stale, Null) /\ Filled(t1, T, stale, Null) /\ SameMarks(t1, T)
      BY <2>3, SentWrote
    <3> HIDE DEF t1
    <3>2. Laid(t1) /\ SamePlan(t1, T) /\ t1.zeroed = T.zeroed
      BY <3>1 DEF Wrote, SameMarks
    <3>3. o.ok = TRUE /\ o.t = t2
      BY <2>7 DEF Ok
    <3>4. t2 = Marked(t1, pos, t1.zeroed)
      BY <3>2, MarkedAlone
    <3> HIDE DEF t2
    <3>5. /\ Laid(t2) /\ SamePlan(t2, T) /\ t2.frontier = pos /\ t2.zeroed = T.zeroed
          /\ \A p, q : Seen(t2, p, q) = Seen(t1, p, q)
          /\ \A i : StepAt(t2, i) = StepAt(t1, i)
      <4> DEFINE z == T.zeroed
      <4>1. z \in 0 .. T.nchunks /\ t2 = Marked(t1, pos, z)
        BY <1>1, <3>2, <3>4
      <4> HIDE DEF z
      <4>2. /\ Laid(t2) /\ SamePlan(t2, T) /\ t2.frontier = pos /\ t2.zeroed = z
            /\ \A p, q : Seen(t2, p, q) = Seen(t1, p, q)
            /\ \A i : StepAt(t2, i) = StepAt(t1, i)
        BY <1>4, <3>2, <4>1
      <4> QED BY <4>2 DEF z
    <3>6. ASSUME NEW i \in 0 .. pos - 1
          PROVE  StepAt(t2, i) = StepAt(T, i)
      <4>1. i \in 0 .. Grow(T) - 1 /\ i < pos
        BY <1>1, <1>3, SMT
      <4>2. StepAt(t1, i) = StepAt(T, i)
        BY <2>5, <3>1, <4>1, RectMisses
      <4> QED BY <3>5, <4>2
    <3>7. ASSUME Cleared(T)
          PROVE  Cleared(t2)
      <4> SUFFICES ASSUME NEW p, NEW q, Inside(t2, p, q), pos <= q, q < Epr * T.zeroed
                   PROVE  Seen(t2, p, q) = Zero
        BY <3>5 DEF Cleared
      <4>1. Inside(T, p, q)
        BY <3>5, SamePlans
      <4>2. p \in 0 .. T.noutpad - 1 /\ p \in Nat /\ q \in Nat
        BY <1>1, <4>1, SMT DEF Inside
      <4>3. CASE q < T.frontier
        <5>1. Covers(stale, p, q)
          BY <1>1, <1>3, <2>4, <4>2, <4>3, SMT
        <5>2. Host(T, Null, p, q) = Zero
          BY DEF Host
        <5> QED BY <3>1, <3>5, <4>1, <5>1, <5>2 DEF Filled
      <4>4. CASE T.frontier <= q
        <5>1. ~Covers(stale, p, q)
          BY <1>1, <1>3, <2>4, <4>2, <4>4, SMT
        <5>2. Seen(t1, p, q) = Seen(T, p, q)
          BY <3>1, <4>1, <5>1 DEF Wrote
        <5>3. Seen(T, p, q) = Zero
          BY <1>8, <3>7, <4>1, <4>4 DEF Cleared
        <5> QED BY <3>5, <5>2, <5>3
      <4> QED BY <1>1, <4>2, <4>3, <4>4, SMT
    <3>8. ASSUME Reached(T)
          PROVE  Reached(t2)
      <4>1. T.frontier <= Epr * T.zeroed /\ Epr * T.zeroed \in Nat
        BY <1>1, <1>8, <3>8, Sizes, ProductNat DEF Reached
      <4>2. pos <= Epr * T.zeroed
        BY <1>1, <1>3, <4>1, SMT
      <4> QED BY <3>5, <4>2 DEF Reached
    <3>9. TruncateDone(T, pos, t2)
      BY <3>5, <3>6, <3>7, <3>8 DEF TruncateDone
    <3> QED BY <3>3, <3>5, <3>9
  <2>8. ASSUME NEW s \in CutShort(T, stale, Null), o = Error(s)
        PROVE  Laid(o.t) /\ SamePlan(o.t, T) /\ o.ok = FALSE /\ TruncateFailed(T, pos, o.t)
    <3>1. o.ok = FALSE /\ o.t = s
      BY <2>8 DEF Error
    <3>2. Wrote(s, T, stale, Null) /\ SameMarks(s, T)
      BY <2>3, CutWrote
    <3>3. ASSUME NEW i \in 0 .. T.frontier - 1
          PROVE  StepAt(s, i) = StepAt(T, i) \/ (pos <= i /\ StepAt(s, i) = 0)
      <4>1. CASE pos <= i
        <5>1. StepAt(s, i) \in {StepAt(T, i), 0, 0}
          BY <2>6, <3>2, RectTouches DEF Null
        <5> QED BY <4>1, <5>1
      <4>2. CASE ~(pos <= i)
        <5>1. i < pos
          BY <2>6, <4>2
        <5> QED BY <2>5, <2>6, <3>2, <5>1, RectMisses
      <4> QED BY <4>1, <4>2
    <3>4. Laid(s) /\ SamePlan(s, T)
      BY <3>2 DEF Wrote
    <3> QED BY <1>8, <3>1, <3>2, <3>3, <3>4 DEF TruncateFailed
  <2> HIDE DEF t2
  <2> QED BY <2>1, <2>7, <2>8
<1>9. CASE ~(pos < T.frontier) \/ T.layout = "out"
  <2>1. o = Ok([T EXCEPT !.frontier = pos])
    <3>1. CASE pos >= T.frontier
      BY <3>1 DEF Truncate
    <3>2. CASE ~(pos >= T.frontier)
      <4>1. T.layout = "out"
        BY <1>1, <1>3, <1>9, <3>2, SMT
      <4>2. T.layout # "red"
        BY <4>1
      <4> QED BY <3>2, <4>2 DEF Truncate
    <3> QED BY <3>1, <3>2
  <2>2. T.layout = "red" => pos = T.frontier
    BY <1>1, <1>3, <1>9, SMT
  <2> QED BY <1>6, <2>1, <2>2
<1> QED BY <1>2, <1>7, <1>8, <1>9

(* What a new tensor is: memory that holds anything, with nothing cleared,  *)
(* or zero everywhere.                                                      *)
LEMMA AllocDoes ==
  ASSUME NEW layout \in Layout, NEW nout \in Nat \ {0}, NEW nred \in Nat \ {0}, NEW zero \in BOOLEAN,
         NEW T, T = Alloc(layout, nout, nred, zero)
  PROVE  /\ Laid(T) /\ T.layout = layout /\ T.nout = nout /\ T.nred = nred
         /\ T.frontier = 0 /\ Cleared(T) /\ Reached(T)
<1> DEFINE p == Plan(layout, nout, nred)
           m == [x \in Elems(p) |-> IF zero THEN Zero ELSE Junk]
           z == IF zero THEN p.nchunks ELSE 0
<1>1. p = [layout |-> layout, nout |-> nout, nred |-> nred,
           noutpad |-> RoundUp(nout, PerGroup), nredpad |-> RoundUp(nred, Epb),
           ngroups |-> CeilDiv(nout, PerGroup), nchunks |-> CeilDiv(RoundUp(nred, Epb), Epr),
           frontier |-> 0, zeroed |-> 0]
  BY DEF Plan
<1>2. T = [x \in DOMAIN p \cup {"mem"} |->
             IF x = "mem" THEN m ELSE IF x = "zeroed" /\ zero THEN p.nchunks ELSE p[x]]
  BY DEF Alloc
<1> HIDE DEF p, m
<1>3. /\ DOMAIN p = {"layout", "nout", "nred", "noutpad", "nredpad", "ngroups", "nchunks", "frontier", "zeroed"}
      /\ p.layout = layout /\ p.nout = nout /\ p.nred = nred
      /\ p.noutpad = RoundUp(nout, PerGroup) /\ p.nredpad = RoundUp(nred, Epb)
      /\ p.ngroups = CeilDiv(nout, PerGroup) /\ p.nchunks = CeilDiv(RoundUp(nred, Epb), Epr)
      /\ p.frontier = 0 /\ p.zeroed = 0
  BY <1>1
<1>4. /\ DOMAIN T = {"layout", "nout", "nred", "noutpad", "nredpad", "ngroups", "nchunks", "frontier", "zeroed", "mem"}
      /\ T.layout = layout /\ T.nout = nout /\ T.nred = nred
      /\ T.noutpad = p.noutpad /\ T.nredpad = p.nredpad
      /\ T.ngroups = p.ngroups /\ T.nchunks = p.nchunks
      /\ T.frontier = 0 /\ T.zeroed = z /\ T.mem = m
  BY <1>2, <1>3
<1>5. T = [layout |-> T.layout, nout |-> T.nout, nred |-> T.nred,
           noutpad |-> T.noutpad, nredpad |-> T.nredpad,
           ngroups |-> T.ngroups, nchunks |-> T.nchunks,
           frontier |-> T.frontier, zeroed |-> T.zeroed, mem |-> T.mem]
  <2> DEFINE D == DOMAIN p \cup {"mem"}
             g(x) == IF x = "mem" THEN m ELSE IF x = "zeroed" /\ zero THEN p.nchunks ELSE p[x]
  <2>1. T = [x \in D |-> g(x)]
    BY <1>2
  <2> HIDE DEF D, g
  <2>2. T = [x \in DOMAIN T |-> T[x]]
    BY <2>1
  <2> QED BY <1>4, <2>2, ZenonT(40)
<1>6. DOMAIN T.mem = Elems(T)
  BY <1>4 DEF m, Elems
<1>7. p.nchunks \in Nat
  <2>1. Epb \in Nat \ {0} /\ Epr \in Nat \ {0}
    BY Sizes
  <2>2. RoundUp(nred, Epb) \in Nat
    BY <2>1, Ceil
  <2> QED BY <1>3, <2>1, <2>2, Ceil
<1>8. z \in 0 .. T.nchunks /\ T.frontier \in 0 .. Grow(T)
  BY <1>4, <1>7, SMT DEF Grow
<1>9. Laid(T)
  BY <1>3, <1>4, <1>5, <1>6, <1>8 DEF Laid
<1>10. Cleared(T)
  <2> SUFFICES ASSUME NEW o, NEW red, Inside(T, o, red), red < Epr * z
               PROVE  Seen(T, o, red) = Zero
    BY <1>4 DEF Cleared
  <2>1. o \in Nat /\ red \in Nat
    BY <1>9, PlanSizes, SMT DEF Inside
  <2>2. Place(T, o, red) \in DOMAIN T.mem /\ Seen(T, o, red) = T.mem[Place(T, o, red)]
    BY <1>9, <2>1, PlaceExists, PlaceOf
  <2>3. CASE zero
    BY <1>4, <2>2, <2>3 DEF m
  <2>4. CASE ~zero
    <3>1. Epr * z = 0
      BY <2>4, Sizes, SMT
    <3> QED BY <2>1, <3>1, SMT
  <2> QED BY <2>3, <2>4
<1>11. Reached(T)
  <2>1. Epr * z >= 0
    BY <1>7, Sizes, ProductNat, SMT
  <2> QED BY <1>4, <2>1 DEF Reached
<1> QED BY <1>4, <1>9, <1>10, <1>11

(* Behind the frontier a launch reads to the end of a beat, and finds zeros. *)
LEMMA TailIsZero ==
  ASSUME NEW T, Laid(T), Reached(T), Cleared(T), T.layout = "red",
         NEW o \in 0 .. T.noutpad - 1,
         NEW red \in T.frontier .. Least(RoundUp(T.frontier, Epb), T.nredpad) - 1
  PROVE  Seen(T, o, red) = Zero
<1>1. T.frontier \in Nat /\ T.zeroed \in Nat /\ T.nredpad \in Nat
  BY PlanSizes
<1> DEFINE e == Epr \div Epb
           h == e * T.zeroed
<1>2. e \in Nat /\ h \in Nat
  BY <1>1, Sizes, ProductNat
<1>3. Epr * T.zeroed = Epb * h
  <2>1. Epr = Epb * e
    BY Sizes
  <2> HIDE DEF e
  <2>2. (Epb * e) * T.zeroed = Epb * (e * T.zeroed)
    BY <1>1, <1>2, Sizes, SMT
  <2> QED BY <2>1, <2>2
<1> HIDE DEF e, h
<1>4. RoundUp(T.frontier, Epb) <= Epb * h
  <2>1. T.frontier <= Epb * h
    BY <1>3 DEF Reached
  <2> QED BY <1>1, <1>2, <2>1, Sizes, CeilBelow
<1>5. RoundUp(T.frontier, Epb) \in Nat /\ Epb * h \in Nat
  <2> DEFINE n == T.frontier
  <2>1. n \in Nat
    BY <1>1
  <2> HIDE DEF n
  <2>2. RoundUp(n, Epb) \in Nat
    BY <2>1, Sizes, Ceil
  <2>3. Epb * h \in Nat
    BY <1>2, Sizes, ProductNat
  <2> QED BY <2>2, <2>3 DEF n
<1>6. red \in 0 .. T.nredpad - 1 /\ T.frontier <= red /\ red < Epb * h
  BY <1>1, <1>4, <1>5, SMT DEF Least
<1> QED BY <1>3, <1>6 DEF Cleared, Inside

(* Without a transfer only the frontier moves, and the steps stay: along    *)
(* outputs always, along the reduction when it moves forward.               *)
LEMMA TruncateMoves ==
  ASSUME NEW T, Laid(T), NEW pos \in 0 .. Grow(T), T.layout = "out" \/ T.frontier <= pos,
         NEW o \in Truncate(T, pos)
  PROVE  /\ o.ok = TRUE /\ Laid(o.t) /\ SamePlan(o.t, T) /\ o.t.frontier = pos
         /\ \A i : StepAt(o.t, i) = StepAt(T, i)
<1>1. o = Ok([T EXCEPT !.frontier = pos])
  <2>1. pos \in Nat /\ T.frontier \in Nat
    <3>1. Grow(T) \in Nat /\ T.frontier \in 0 .. Grow(T)
      BY PlanSizes
    <3> QED BY <3>1, SMT
  <2>2. CASE T.frontier <= pos
    <3>1. pos >= T.frontier
      BY <2>1, <2>2, SMT
    <3> QED BY <3>1 DEF Truncate
  <2>3. CASE T.layout = "out"
    <3>1. T.layout # "red"
      BY <2>3
    <3> QED BY <3>1 DEF Truncate
  <2> QED BY <2>2, <2>3
<1> DEFINE s == Marked(T, pos, T.zeroed)
<1>2. o.ok = TRUE /\ o.t = s
  BY <1>1, MarkedAlone DEF Ok
<1>3. /\ Laid(s) /\ SamePlan(s, T) /\ s.frontier = pos
      /\ \A p, q : Seen(s, p, q) = Seen(T, p, q)
  <2> DEFINE z == T.zeroed
  <2>1. z \in 0 .. T.nchunks /\ s = Marked(T, pos, z)
    BY PlanSizes
  <2> HIDE DEF z, s
  <2> QED BY <2>1, NewMarks
<1> HIDE DEF s
<1>4. ASSUME NEW i
      PROVE  StepAt(s, i) = StepAt(T, i)
  <2>1. \A j \in Others(T) : Elem(s, i, j) = Elem(T, i, j)
    BY <1>3 DEF Elem, SamePlan
  <2> QED BY <1>3, <2>1, StepKept
<1> QED BY <1>2, <1>3, <1>4

------------------------------------------------------------------------------
(* The calls in any order.                                                  *)

(* A tensor is laid as its caller asked, its frontier is in a cleared chunk, *)
(* and unless a call failed half way the cleared part behind it is zero.    *)
Kept ==
  /\ Laid(t) /\ t.layout = shape.layout /\ t.nout = shape.nout /\ t.nred = shape.nred
  /\ Reached(t)
  /\ ~torn => Cleared(t)
  /\ t.frontier # 0 => Name # {}

TInv ==
  /\ shape \in Shapes /\ torn \in BOOLEAN
  /\ live => Kept

(* The three calls, as far as the invariant goes.                           *)
LEMMA KeptByOutcome ==
  ASSUME TInv, live, NEW o, t' = o.t, torn' = (torn \/ (~o.ok /\ o.t # t)), shape' = shape,
         Laid(o.t), SamePlan(o.t, t), Reached(o.t), o.ok \in BOOLEAN,
         o.ok /\ ~torn => Cleared(o.t), o.t.frontier # 0 => Name # {}
  PROVE  TInv'
<1>1. o.t.layout = shape.layout /\ o.t.nout = shape.nout /\ o.t.nred = shape.nred
  BY DEF TInv, Kept, SamePlan
<1>2. ASSUME ~torn'
      PROVE  Cleared(o.t)
  <2>1. ~torn /\ (o.ok \/ o.t = t)
    BY <1>2
  <2> QED BY <2>1 DEF TInv, Kept
<1> QED BY <1>1, <1>2 DEF TInv, Kept

LEMMA TInvStep == ASSUME ~Forward PROVE TInv /\ [Next]_vars => TInv'
<1> SUFFICES ASSUME TInv, [Next]_vars PROVE TInv'
  OBVIOUS
<1> USE CallsAssumption
<1>1. ASSUME NEW zero \in BOOLEAN, AllocTensor(zero)
      PROVE  TInv'
  <2>1. shape.layout \in Layout /\ shape.nout \in Nat \ {0} /\ shape.nred \in Nat \ {0}
    BY DEF TInv
  <2>2. t' = Alloc(shape.layout, shape.nout, shape.nred, zero) /\ shape' = shape /\ torn' = torn
    BY <1>1 DEF AllocTensor
  <2>3. /\ Laid(t') /\ t'.layout = shape.layout /\ t'.nout = shape.nout /\ t'.nred = shape.nred
        /\ t'.frontier = 0 /\ Cleared(t') /\ Reached(t')
    BY <2>1, <2>2, AllocDoes
  <2> QED BY <2>2, <2>3 DEF TInv, Kept
<1>2. CASE FreeTensor
  BY <1>2 DEF FreeTensor, TInv, live
<1>3. ASSUME NEW nm \in Name, UploadTensor(nm)
      PROVE  TInv'
  <2>1. PICK o \in Upload(t, nm) : t' = o.t /\ torn' = (torn \/ (~o.ok /\ o.t # t))
    BY <1>3 DEF UploadTensor, Outcome
  <2>2. live /\ shape' = shape
    BY <1>3 DEF UploadTensor, Outcome
  <2>3. Kept /\ nm # Null
    BY <2>2 DEF TInv, Null
  <2>4. /\ Laid(o.t) /\ SamePlan(o.t, t)
        /\ \/ o.ok = TRUE /\ UploadDone(t, nm, o.t)
           \/ o.ok = FALSE /\ UploadFailed(t, nm, o.t)
    BY <2>1, <2>3, UploadDoes DEF Kept
  <2>5. Reached(o.t) /\ o.ok \in BOOLEAN /\ (o.ok => Cleared(o.t))
    BY <2>3, <2>4 DEF Kept, UploadDone, UploadFailed, SameMarks, Reached, SamePlan
  <2> QED BY <2>1, <2>2, <2>4, <2>5, KeptByOutcome
<1>4. ASSUME NEW first \in Growth, NEW count \in 1 .. MaxCount, NEW nm \in Name, AppendTensor(first, count, nm)
      PROVE  TInv'
  <2>1. PICK o \in AppendSteps(t, first, count, nm) : t' = o.t /\ torn' = (torn \/ (~o.ok /\ o.t # t))
    BY <1>4 DEF AppendTensor, Outcome
  <2>2. live /\ shape' = shape
    BY <1>4 DEF AppendTensor, Outcome
  <2>3. Kept /\ nm # Null /\ first \in Nat /\ count \in Nat \ {0}
    BY <2>2, SMT DEF TInv, Null, Growth
  <2>4. /\ Laid(o.t) /\ SamePlan(o.t, t)
        /\ \/ o.ok = TRUE /\ AppendDone(t, first, count, nm, o.t)
           \/ o.ok = FALSE /\ AppendFailed(t, first, nm, o.t)
    BY <2>1, <2>3, AppendDoes DEF Kept
  <2>5. Reached(o.t) /\ o.ok \in BOOLEAN /\ (o.ok /\ ~torn => Cleared(o.t))
    BY <2>3, <2>4 DEF Kept, AppendDone, AppendFailed
  <2> QED BY <2>1, <2>2, <2>4, <2>5, KeptByOutcome
<1>5. ASSUME NEW pos \in Growth, TruncateTensor(pos)
      PROVE  TInv'
  <2>1. PICK o \in Truncate(t, pos) : t' = o.t /\ torn' = (torn \/ (~o.ok /\ o.t # t))
    BY <1>5 DEF TruncateTensor, Outcome
  <2>2. live /\ shape' = shape /\ pos <= t.frontier
    BY <1>5 DEF TruncateTensor, Outcome
  <2>3. Kept
    BY <2>2 DEF TInv
  <2>4. pos \in 0 .. t.frontier
    <3>1. pos \in Nat /\ t.frontier \in Nat
      <4>1. t.frontier \in 0 .. Grow(t) /\ Grow(t) \in Nat
        BY <2>3, PlanSizes DEF Kept
      <4> QED BY <4>1, SMT DEF Growth
    <3> QED BY <2>2, <3>1, SMT
  <2>5. /\ Laid(o.t) /\ SamePlan(o.t, t)
        /\ \/ o.ok = TRUE /\ TruncateDone(t, pos, o.t)
           \/ o.ok = FALSE /\ TruncateFailed(t, pos, o.t)
    BY <2>1, <2>3, <2>4, TruncateDoes DEF Kept
  <2>6. Reached(o.t) /\ o.ok \in BOOLEAN /\ (o.ok /\ ~torn => Cleared(o.t))
    BY <2>3, <2>5 DEF Kept, TruncateDone, TruncateFailed, SameMarks, Reached, SamePlan
  <2>7. o.t.frontier # 0 => t.frontier # 0
    BY <2>4, <2>5, SMT DEF TruncateDone, TruncateFailed, SameMarks
  <2>8. o.t.frontier # 0 => Name # {}
    BY <2>3, <2>7 DEF Kept
  <2> QED BY <2>1, <2>2, <2>5, <2>6, <2>8, KeptByOutcome
<1>6. CASE UNCHANGED vars
  BY <1>6 DEF vars, TInv, live, Kept
<1> QED BY <1>1, <1>2, <1>3, <1>4, <1>5, <1>6 DEF Next

LEMMA TInvHolds == ASSUME ~Forward PROVE Spec => []TInv
<1>1. Init => TInv
  BY DEF Init, TInv, live
<1>2. TInv /\ [Next]_vars => TInv'
  BY TInvStep
<1> QED BY <1>1, <1>2, PTL DEF Spec

(* The zero contract of pim_tensor.h, for every geometry, shape and order of *)
(* calls: the rest of the last beat that a launch over the stored steps     *)
(* reads is zero.  The caller cuts back and never forward.                  *)
THEOREM ZeroTailHolds == ASSUME ~Forward PROVE Spec => []ZeroTail
<1>1. TInv => ZeroTail
  <2> SUFFICES ASSUME TInv, live, ~torn, t.layout = "red",
                      NEW o \in 0 .. t.noutpad - 1,
                      NEW red \in t.frontier .. Least(RoundUp(t.frontier, Epb), t.nredpad) - 1
               PROVE  Seen(t, o, red) = Zero
    BY DEF ZeroTail
  <2>1. Laid(t) /\ Reached(t) /\ Cleared(t)
    BY DEF TInv, Kept
  <2> QED BY <2>1, TailIsZero
<1> QED BY <1>1, TInvHolds, PTL

------------------------------------------------------------------------------
(* What PimTokens sees of a tensor.                                         *)
StepsOf(s) == [i \in 1 .. s.frontier |-> StepAt(s, i - 1)]
stepsNow == IF live THEN StepsOf(t) ELSE <<>>
capacityNow == IF shape.layout = "out" THEN shape.nout ELSE shape.nred

(* A function on 1 .. n is a sequence, and cutting it back a restriction.   *)
LEMMA CutSequence ==
  ASSUME NEW n \in Nat, NEW s, s = [i \in 1 .. n |-> s[i]], NEW pos \in 0 .. n
  PROVE  Len(s) = n /\ SubSeq(s, 1, pos) = [i \in 1 .. pos |-> s[i]]
<1> DEFINE S == {s[i] : i \in 1 .. n}
<1>1. s \in [1 .. n -> S]
  OBVIOUS
<1> HIDE DEF S
<1>2. s \in Seq(S)
  BY <1>1, SMT
<1>3. Len(s) = n
  BY <1>1, <1>2, SMT
<1>4. /\ DOMAIN SubSeq(s, 1, pos) = 1 .. pos
      /\ \A i \in 1 .. pos : SubSeq(s, 1, pos)[i] = s[i]
      /\ SubSeq(s, 1, pos) \in Seq(S)
  BY <1>1, <1>2, <1>3, SMT
<1> QED BY <1>3, <1>4, SMT

LEMMA LaidIsLive == ASSUME NEW s, Laid(s) PROVE s # None
<1>1. "layout" \in DOMAIN s
  BY DEF Laid
<1>2. "layout" \notin DOMAIN None
  BY DEF None
<1> QED BY <1>1, <1>2

Promise == (Tokens!Next /\ UNCHANGED capacityNow) \/ UNCHANGED <<stepsNow, capacityNow>>

LEMMA StepsAre ==
  ASSUME NEW s, Laid(s)
  PROVE  /\ s.frontier \in Nat /\ s.frontier <= Grow(s) /\ Len(StepsOf(s)) = s.frontier
         /\ \A i \in 1 .. s.frontier : StepsOf(s)[i] = StepAt(s, i - 1)
         /\ \A i \in 1 .. s.frontier : i - 1 \in 0 .. s.frontier - 1
<1>1. s.frontier \in 0 .. Grow(s) /\ Grow(s) \in Nat
  BY PlanSizes
<1>2. s.frontier \in Nat /\ s.frontier \in 0 .. s.frontier
  BY <1>1, SMT
<1>3. \A i \in 1 .. s.frontier : StepsOf(s)[i] = StepAt(s, i - 1)
  BY DEF StepsOf
<1>4. StepsOf(s) = [i \in 1 .. s.frontier |-> StepsOf(s)[i]]
  BY DEF StepsOf
<1>5. Len(StepsOf(s)) = s.frontier
  BY <1>2, <1>4, CutSequence
<1>6. \A i \in 1 .. s.frontier : i - 1 \in 0 .. s.frontier - 1
  BY <1>2, SMT
<1> QED BY <1>1, <1>2, <1>3, <1>5, <1>6, SMT

(* The three things a call does to the steps of a tensor.                   *)
LEMMA Stores ==
  ASSUME TInv, live, shape' = shape, NEW first \in Nat, NEW count \in Nat \ {0}, NEW nm \in Name,
         Laid(t'), SamePlan(t', t),
         first <= t.frontier, first + count <= Grow(t), t'.frontier = Most(t.frontier, first + count),
         \A i \in first .. first + count - 1 : StepAt(t', i) = nm,
         \A i \in 0 .. t.frontier - 1 :
           i \notin first .. first + count - 1 => StepAt(t', i) = StepAt(t, i)
  PROVE  Promise
<1>1. Laid(t) /\ capacityNow = Grow(t) /\ capacityNow' = capacityNow
  BY DEF TInv, Kept, capacityNow, Grow
<1>2. live' /\ stepsNow' = StepsOf(t') /\ stepsNow = StepsOf(t)
  BY LaidIsLive DEF live, stepsNow, StepsOf
<1>3. /\ t.frontier \in Nat /\ t.frontier <= Grow(t) /\ Len(stepsNow) = t.frontier
      /\ \A i \in 1 .. t.frontier : stepsNow[i] = StepAt(t, i - 1)
  BY <1>1, <1>2, StepsAre
<1>4. Grow(t) \in Nat
  BY <1>1, PlanSizes
<1> DEFINE m == IF first + count > Len(stepsNow) THEN first + count ELSE Len(stepsNow)
<1>5. t'.frontier = m /\ m \in Nat
  BY <1>3, SMT DEF Most
<1>6. ASSUME NEW i \in 1 .. m
      PROVE  StepAt(t', i - 1) = IF i \in first + 1 .. first + count THEN nm ELSE stepsNow[i]
  <2>1. CASE i \in first + 1 .. first + count
    <3>1. i - 1 \in first .. first + count - 1
      BY <2>1, SMT
    <3> QED BY <2>1, <3>1
  <2>2. CASE i \notin first + 1 .. first + count
    <3>1. i \in 1 .. t.frontier /\ i - 1 \in 0 .. t.frontier - 1 /\ i - 1 \notin first .. first + count - 1
      BY <1>3, <1>5, <1>6, <2>2, SMT
    <3> QED BY <1>3, <2>2, <3>1
  <2> QED BY <2>1, <2>2
<1>7. stepsNow' = [i \in 1 .. m |-> IF i \in first + 1 .. first + count THEN nm ELSE stepsNow[i]]
  <2>1. stepsNow' = [i \in 1 .. m |-> StepAt(t', i - 1)]
    BY <1>2, <1>5 DEF StepsOf
  <2> HIDE DEF m
  <2> QED BY <1>6, <2>1
<1>8. Tokens!Store(first, count, nm)
  BY <1>1, <1>3, <1>7 DEF Tokens!Store, stepsNow, capacityNow, StepsOf
<1>9. first \in 0 .. capacityNow /\ count \in 1 .. capacityNow
  BY <1>1, <1>3, <1>4, SMT
<1>10. Tokens!Next
  BY <1>8, <1>9 DEF Tokens!Next, capacityNow
<1> QED BY <1>1, <1>10 DEF Promise

LEMMA Cuts ==
  ASSUME TInv, live, shape' = shape, NEW pos \in 0 .. t.frontier,
         Laid(t'), SamePlan(t', t), t'.frontier = pos,
         \A i \in 0 .. pos - 1 : StepAt(t', i) = StepAt(t, i)
  PROVE  Promise
<1>1. Laid(t) /\ capacityNow = Grow(t) /\ capacityNow' = capacityNow
  BY DEF TInv, Kept, capacityNow, Grow
<1>2. live' /\ stepsNow' = StepsOf(t') /\ stepsNow = StepsOf(t)
  BY LaidIsLive DEF live, stepsNow, StepsOf
<1>3. /\ t.frontier \in Nat /\ t.frontier <= Grow(t) /\ Len(stepsNow) = t.frontier
      /\ \A i \in 1 .. t.frontier : stepsNow[i] = StepAt(t, i - 1)
  BY <1>1, <1>2, StepsAre
<1>4. Grow(t) \in Nat
  BY <1>1, PlanSizes
<1>5. SubSeq(stepsNow, 1, pos) = [i \in 1 .. pos |-> stepsNow[i]]
  <2>1. stepsNow = [i \in 1 .. t.frontier |-> stepsNow[i]]
    BY <1>2 DEF StepsOf
  <2> DEFINE n == t.frontier
             s == stepsNow
  <2>2. n \in Nat /\ pos \in 0 .. n /\ s = [i \in 1 .. n |-> s[i]]
    BY <1>3, <2>1
  <2> HIDE DEF n, s
  <2>3. SubSeq(s, 1, pos) = [i \in 1 .. pos |-> s[i]]
    BY <2>2, CutSequence
  <2> QED BY <2>3 DEF s
<1>6. ASSUME NEW i \in 1 .. pos
      PROVE  StepAt(t', i - 1) = stepsNow[i]
  <2>1. i \in 1 .. t.frontier /\ i - 1 \in 0 .. pos - 1
    BY <1>3, SMT
  <2> QED BY <1>3, <2>1
<1>7. stepsNow' = SubSeq(stepsNow, 1, pos)
  <2>1. stepsNow' = [i \in 1 .. pos |-> StepAt(t', i - 1)]
    BY <1>2 DEF StepsOf
  <2> QED BY <1>5, <1>6, <2>1
<1>8. pos <= Len(stepsNow) /\ pos \in 0 .. capacityNow
  BY <1>1, <1>3, <1>4, SMT
<1>9. Tokens!CutBack(pos)
  BY <1>7, <1>8 DEF Tokens!CutBack, stepsNow, StepsOf
<1>10. Tokens!Next
  BY <1>8, <1>9 DEF Tokens!Next, capacityNow
<1> QED BY <1>1, <1>10 DEF Promise

LEMMA Fails ==
  ASSUME TInv, live, shape' = shape, NEW first \in Nat, NEW nm \in Name,
         Laid(t'), SamePlan(t', t), t'.frontier = t.frontier,
         \A i \in 0 .. t.frontier - 1 :
           StepAt(t', i) = StepAt(t, i) \/ (first <= i /\ StepAt(t', i) \in {nm, 0})
  PROVE  Promise
<1>1. Laid(t) /\ capacityNow = Grow(t) /\ capacityNow' = capacityNow
  BY DEF TInv, Kept, capacityNow, Grow
<1>2. live' /\ stepsNow' = StepsOf(t') /\ stepsNow = StepsOf(t)
  BY LaidIsLive DEF live, stepsNow, StepsOf
<1>3. /\ t.frontier \in Nat /\ t.frontier <= Grow(t) /\ Len(stepsNow) = t.frontier
      /\ \A i \in 1 .. t.frontier : stepsNow[i] = StepAt(t, i - 1)
      /\ \A i \in 1 .. t.frontier : i - 1 \in 0 .. t.frontier - 1
  BY <1>1, <1>2, StepsAre
<1>4. Grow(t) \in Nat
  BY <1>1, PlanSizes
<1>5. Len(stepsNow') = t.frontier /\ \A i \in 1 .. t.frontier : stepsNow'[i] = StepAt(t', i - 1)
  <2> DEFINE s == t'
  <2>1. Laid(s) /\ s.frontier = t.frontier
    OBVIOUS
  <2> HIDE DEF s
  <2>2. Len(StepsOf(s)) = t.frontier /\ \A i \in 1 .. t.frontier : StepsOf(s)[i] = StepAt(s, i - 1)
    BY <2>1, StepsAre
  <2> QED BY <1>2, <2>2 DEF s
<1>6. ASSUME NEW i \in 1 .. Len(stepsNow)
      PROVE  stepsNow'[i] = stepsNow[i] \/ (i > first /\ stepsNow'[i] \in {nm, Tokens!Lost})
  <2>1. i \in 1 .. t.frontier /\ i - 1 \in 0 .. t.frontier - 1
    BY <1>3
  <2>2. CASE StepAt(t', i - 1) = StepAt(t, i - 1)
    BY <1>3, <1>5, <2>1, <2>2
  <2>3. CASE first <= i - 1 /\ StepAt(t', i - 1) \in {nm, 0}
    <3>1. i > first
      BY <2>1, <2>3, SMT
    <3> QED BY <1>5, <2>1, <2>3, <3>1 DEF Tokens!Lost
  <2> QED BY <2>1, <2>2, <2>3
<1>7. CASE first <= capacityNow
  <2>1. Tokens!Fail(first, nm)
    BY <1>3, <1>5, <1>6 DEF Tokens!Fail, stepsNow, StepsOf
  <2>2. first \in 0 .. capacityNow
    BY <1>1, <1>4, <1>7, SMT
  <2>3. Tokens!Next
    BY <2>1, <2>2 DEF Tokens!Next, capacityNow
  <2> QED BY <1>1, <2>3 DEF Promise
<1>8. CASE ~(first <= capacityNow)
  <2>1. \A i \in 1 .. t.frontier : ~(i > first)
    BY <1>1, <1>3, <1>4, <1>8, SMT
  <2>2. \A i \in 1 .. t.frontier : stepsNow'[i] = stepsNow[i]
    BY <1>3, <1>6, <2>1
  <2>3. stepsNow' = stepsNow
    BY <1>2, <1>5, <2>2 DEF StepsOf
  <2> QED BY <1>1, <2>3 DEF Promise
<1> QED BY <1>7, <1>8

LEMMA StepKeepsPromise == ASSUME ~Forward PROVE TInv /\ [Next]_vars => Promise
<1> SUFFICES ASSUME TInv, [Next]_vars PROVE Promise
  OBVIOUS
<1> USE CallsAssumption
<1>1. ASSUME NEW zero \in BOOLEAN, AllocTensor(zero)
      PROVE  Promise
  <2>1. shape.layout \in Layout /\ shape.nout \in Nat \ {0} /\ shape.nred \in Nat \ {0}
    BY DEF TInv
  <2>2. t' = Alloc(shape.layout, shape.nout, shape.nred, zero) /\ shape' = shape /\ ~live
    BY <1>1 DEF AllocTensor
  <2>3. t'.frontier = 0
    BY <2>1, <2>2, AllocDoes
  <2>4. stepsNow = <<>>
    BY <2>2 DEF stepsNow
  <2>5. stepsNow' = <<>>
    <3>1. StepsOf(t') = <<>>
      BY <2>3, SMT DEF StepsOf
    <3> QED BY <3>1 DEF stepsNow, StepsOf
  <2> QED BY <2>2, <2>4, <2>5 DEF Promise, capacityNow
<1>2. CASE FreeTensor
  <2>1. live /\ t' = None /\ shape' = shape
    BY <1>2 DEF FreeTensor
  <2>2. Laid(t) /\ stepsNow = StepsOf(t) /\ stepsNow' = <<>> /\ capacityNow' = capacityNow
    BY <2>1 DEF TInv, Kept, stepsNow, live, capacityNow
  <2>3. Len(stepsNow) \in Nat /\ SubSeq(stepsNow, 1, 0) = <<>>
    <3> DEFINE n == t.frontier
               s == stepsNow
    <3>1. n \in Nat /\ s = [i \in 1 .. n |-> s[i]] /\ 0 \in 0 .. n
      BY <2>2, StepsAre DEF StepsOf
    <3> HIDE DEF n, s
    <3>2. Len(s) = n /\ SubSeq(s, 1, 0) = [i \in 1 .. 0 |-> s[i]]
      BY <3>1, CutSequence
    <3>3. [i \in 1 .. 0 |-> s[i]] = <<>>
      BY SMT
    <3> QED BY <3>1, <3>2, <3>3 DEF s
  <2>4. capacityNow \in Nat
    BY DEF TInv, capacityNow
  <2>5. Tokens!CutBack(0)
    <3>1. 0 <= Len(stepsNow) /\ stepsNow' = SubSeq(stepsNow, 1, 0)
      BY <2>2, <2>3, SMT
    <3> QED BY <3>1 DEF Tokens!CutBack, stepsNow, StepsOf
  <2>6. Tokens!Next
    <3>1. 0 \in 0 .. capacityNow
      BY <2>4, SMT
    <3> QED BY <2>5, <3>1 DEF Tokens!Next, capacityNow
  <2> QED BY <2>2, <2>6 DEF Promise
<1>3. ASSUME NEW nm \in Name, UploadTensor(nm)
      PROVE  Promise
  <2>1. PICK o \in Upload(t, nm) : t' = o.t
    BY <1>3 DEF UploadTensor, Outcome
  <2>2. live /\ shape' = shape
    BY <1>3 DEF UploadTensor, Outcome
  <2>3. Kept /\ nm # Null
    BY <2>2 DEF TInv, Null
  <2>4. /\ Laid(t') /\ SamePlan(t', t)
        /\ \/ UploadDone(t, nm, t')
           \/ UploadFailed(t, nm, t')
    BY <2>1, <2>3, UploadDoes DEF Kept
  <2>5. /\ t.frontier \in Nat /\ t.frontier <= Grow(t) /\ Grow(t) \in Nat \ {0}
    <3>1. Grow(t) \in Nat /\ t.nout \in Nat \ {0} /\ t.nred \in Nat \ {0} /\ t.frontier \in 0 .. Grow(t)
      BY <2>3, PlanSizes DEF Kept
    <3> QED BY <3>1, SMT DEF Grow
  <2>6. CASE UploadDone(t, nm, t')
    <3>1. t'.frontier = Grow(t) /\ \A i \in 0 .. Grow(t) - 1 : StepAt(t', i) = nm
      BY <2>6 DEF UploadDone
    <3> DEFINE n == Grow(t)
    <3>2. /\ 0 <= t.frontier /\ 0 + n <= n /\ t'.frontier = Most(t.frontier, 0 + n)
          /\ n \in Nat \ {0} /\ n = Grow(t)
      BY <2>5, <3>1, SMT DEF Most
    <3> HIDE DEF n
    <3>3. \A i \in 0 .. 0 + n - 1 : StepAt(t', i) = nm
      BY <3>1, <3>2, SMT
    <3>4. \A i \in 0 .. t.frontier - 1 : i \in 0 .. 0 + n - 1
      BY <2>5, <3>2, SMT
    <3>5. 0 \in Nat /\ 0 + n <= Grow(t)
      BY <3>2
    <3> QED BY <2>2, <2>4, <3>2, <3>3, <3>4, <3>5, Stores
  <2>7. CASE UploadFailed(t, nm, t')
    <3>1. t'.frontier = t.frontier
      BY <2>7 DEF UploadFailed, SameMarks
    <3>2. \A i \in 0 .. t.frontier - 1 :
            StepAt(t', i) = StepAt(t, i) \/ (0 <= i /\ StepAt(t', i) \in {nm, 0})
      <4> TAKE i \in 0 .. t.frontier - 1
      <4>1. i \in 0 .. Grow(t) - 1 /\ 0 <= i
        BY <2>5, SMT
      <4>2. StepAt(t', i) \in {StepAt(t, i), nm, 0}
        BY <2>7, <4>1 DEF UploadFailed
      <4> QED BY <4>1, <4>2
    <3>3. 0 \in Nat
      OBVIOUS
    <3> QED BY <2>2, <2>4, <3>1, <3>2, <3>3, Fails
  <2> QED BY <2>4, <2>6, <2>7
<1>4. ASSUME NEW first \in Growth, NEW count \in 1 .. MaxCount, NEW nm \in Name, AppendTensor(first, count, nm)
      PROVE  Promise
  <2>1. PICK o \in AppendSteps(t, first, count, nm) : t' = o.t
    BY <1>4 DEF AppendTensor, Outcome
  <2>2. live /\ shape' = shape
    BY <1>4 DEF AppendTensor, Outcome
  <2>3. Kept /\ nm # Null /\ first \in Nat /\ count \in Nat \ {0}
    BY <2>2, SMT DEF TInv, Null, Growth
  <2>4. /\ Laid(t') /\ SamePlan(t', t)
        /\ \/ AppendDone(t, first, count, nm, t')
           \/ AppendFailed(t, first, nm, t')
    BY <2>1, <2>3, AppendDoes DEF Kept
  <2>5. CASE AppendDone(t, first, count, nm, t')
    BY <2>2, <2>3, <2>4, <2>5, Stores DEF AppendDone, Kept
  <2>6. CASE AppendFailed(t, first, nm, t')
    BY <2>2, <2>3, <2>4, <2>6, Fails DEF AppendFailed, Kept
  <2> QED BY <2>4, <2>5, <2>6
<1>5. ASSUME NEW pos \in Growth, TruncateTensor(pos)
      PROVE  Promise
  <2>1. PICK o \in Truncate(t, pos) : t' = o.t
    BY <1>5 DEF TruncateTensor, Outcome
  <2>2. live /\ shape' = shape /\ pos <= t.frontier
    BY <1>5 DEF TruncateTensor, Outcome
  <2>3. Kept
    BY <2>2 DEF TInv
  <2>4. pos \in 0 .. t.frontier /\ pos \in Nat /\ t.frontier \in Nat
    <3>1. pos \in Nat /\ t.frontier \in Nat
      <4>1. t.frontier \in 0 .. Grow(t) /\ Grow(t) \in Nat
        BY <2>3, PlanSizes DEF Kept
      <4> QED BY <4>1, SMT DEF Growth
    <3> QED BY <2>2, <3>1, SMT
  <2>5. /\ Laid(t') /\ SamePlan(t', t)
        /\ \/ TruncateDone(t, pos, t')
           \/ TruncateFailed(t, pos, t')
    BY <2>1, <2>3, <2>4, TruncateDoes DEF Kept
  <2>6. CASE TruncateDone(t, pos, t')
    BY <2>2, <2>4, <2>5, <2>6, Cuts DEF TruncateDone
  <2>7. CASE TruncateFailed(t, pos, t')
    <3>1. t.frontier # 0
      BY <2>4, <2>7, SMT DEF TruncateFailed
    <3>2. PICK nm \in Name : TRUE
      BY <2>3, <3>1 DEF Kept
    <3>3. t'.frontier = t.frontier
      BY <2>7 DEF TruncateFailed, SameMarks
    <3>4. \A i \in 0 .. t.frontier - 1 :
            StepAt(t', i) = StepAt(t, i) \/ (pos <= i /\ StepAt(t', i) \in {nm, 0})
      BY <2>7 DEF TruncateFailed
    <3> QED BY <2>2, <2>4, <2>5, <3>3, <3>4, Fails
  <2> QED BY <2>5, <2>6, <2>7
<1>6. CASE UNCHANGED vars
  BY <1>6 DEF vars, Promise, stepsNow, capacityNow, StepsOf, live
<1> QED BY <1>1, <1>2, <1>3, <1>4, <1>5, <1>6 DEF Next

(* What a launch reads of a growing matrix is the sequence of steps the     *)
(* caller was told it holds, for every geometry, shape and order of calls,  *)
(* whichever transfers fail (pim_tensor.c:214-401).                         *)
THEOREM TensorRemembers == ASSUME ~Forward PROVE Spec => Remembers
<1>1. Init => Tokens!Init
  <2> SUFFICES ASSUME Init PROVE Tokens!Init
    OBVIOUS
  <2>1. ~live /\ shape \in Shapes
    BY DEF Init, live
  <2>2. capacityNow \in Nat
    BY <2>1, CallsAssumption DEF capacityNow
  <2> QED BY <2>1, <2>2 DEF Tokens!Init, capacityNow
<1>2. TInv /\ [Next]_vars => [Tokens!Next /\ UNCHANGED capacityNow]_<<stepsNow, capacityNow>>
  BY StepKeepsPromise DEF Promise
<1> QED BY <1>1, <1>2, TInvHolds, PTL DEF Spec, Remembers, Tokens!Spec, Tokens!vars, stepsNow, capacityNow, StepsOf

------------------------------------------------------------------------------
(* The KV cache: a K and a V that grow together.                            *)
KTensor(x) == Laid(x) /\ x.layout = "out" /\ x.nout = SMax /\ x.nred = Width
VTensor(x) == Laid(x) /\ x.layout = "red" /\ x.nout = Width /\ x.nred = SMax

(* Token i of sd is whole in x and in y.                                    *)
Both(x, y, sd, i) == StepAt(x, i - 1) = sd[i] /\ StepAt(y, i - 1) = sd[i]

(* V's frontier is in a cleared chunk and not short of the count; or the    *)
(* layer was freed with a count, and V has nothing yet.                     *)
Level(y, c, sd) == (Reached(y) /\ c <= y.frontier) \/ (y.frontier <= c /\ Len(sd) = 0)

(* Two tensors that hold the tokens sd of c counted.                        *)
Hold(x, y, c, sd) ==
  /\ KTensor(x) /\ VTensor(y) /\ Level(y, c, sd)
  /\ Len(sd) <= x.frontier
  /\ \A i \in 1 .. Len(sd) : sd[i] # 0 => Both(x, y, sd, i)

(* Both frontiers are the count, every token was told of, V's tail is clear.*)
Exact(x, y, c, sd) ==
  /\ x.frontier = c /\ y.frontier = c /\ Len(sd) = c /\ \A i \in 1 .. Len(sd) : sd[i] # 0
  /\ Reached(y) /\ Cleared(y)

KInv ==
  /\ cumulative \in 0 .. SMax /\ said \in Seq(Nat) /\ Len(said) <= cumulative /\ raised \in BOOLEAN
  /\ is_initialized => /\ Hold(k, v, cumulative, said)
                       /\ ~Reuse /\ ~raised => Exact(k, v, cumulative, said)
  /\ ~is_initialized => v = None /\ said = <<>> /\ ~raised

LEMMA TensorSizes ==
  ASSUME NEW x
  PROVE  /\ KTensor(x) => Laid(x) /\ Grow(x) = SMax /\ x.frontier \in 0 .. SMax /\ x.layout = "out" /\ Reached(x)
         /\ VTensor(x) => Laid(x) /\ Grow(x) = SMax /\ x.frontier \in 0 .. SMax
<1>1. ASSUME KTensor(x)
      PROVE  Laid(x) /\ Grow(x) = SMax /\ x.frontier \in 0 .. SMax /\ x.layout = "out" /\ Reached(x)
  BY <1>1 DEF KTensor, Laid, Grow, Reached
<1>2. ASSUME VTensor(x)
      PROVE  Laid(x) /\ Grow(x) = SMax /\ x.frontier \in 0 .. SMax
  BY <1>2 DEF VTensor, Laid, Grow
<1> QED BY <1>1, <1>2

LEMMA SameShape ==
  ASSUME NEW x, NEW s, Laid(s), SamePlan(s, x)
  PROVE  (KTensor(x) => KTensor(s)) /\ (VTensor(x) => VTensor(s))
BY DEF KTensor, VTensor, SamePlan

(* What an update works on: the layer's tensors, or new ones.               *)
LEMMA Ready ==
  ASSUME KInv
  PROVE  /\ Hold(K0, V0, cumulative, said)
         /\ ~Reuse /\ ~raised /\ ~Spent => Exact(K0, V0, cumulative, said)
<1>1. CASE is_initialized
  BY <1>1 DEF KInv, K0, V0
<1>2. CASE ~is_initialized
  <2>1. cumulative \in Nat /\ said = <<>> /\ (~Spent => cumulative = 0)
    <3>1. cumulative \in 0 .. SMax /\ said = <<>> /\ SMax \in Nat
      BY <1>2, KvAssumption DEF KInv
    <3> QED BY <1>2, <3>1, SMT DEF Spent
  <2>2. /\ K0 = Alloc("out", SMax, Width, FALSE) /\ V0 = Alloc("red", Width, SMax, FALSE)
    BY <1>2 DEF K0, V0
  <2>3. PICK zero \in BOOLEAN : ~zero
    OBVIOUS
  <2>4. \A layout, nout, nred : Alloc(layout, nout, nred, FALSE) = Alloc(layout, nout, nred, zero)
    BY <2>3 DEF Alloc
  <2>5. /\ Laid(K0) /\ K0.layout = "out" /\ K0.nout = SMax /\ K0.nred = Width /\ K0.frontier = 0
    <3>1. "out" \in Layout
      BY DEF Layout
    <3>2. SMax \in Nat \ {0} /\ Width \in Nat \ {0}
      BY KvAssumption
    <3>3. K0 = Alloc("out", SMax, Width, zero)
      BY <2>2, <2>4
    <3> QED BY <3>1, <3>2, <3>3, AllocDoes
  <2>6. /\ Laid(V0) /\ V0.layout = "red" /\ V0.nout = Width /\ V0.nred = SMax /\ V0.frontier = 0
        /\ Cleared(V0) /\ Reached(V0)
    <3>1. "red" \in Layout
      BY DEF Layout
    <3>2. SMax \in Nat \ {0} /\ Width \in Nat \ {0}
      BY KvAssumption
    <3>3. V0 = Alloc("red", Width, SMax, zero)
      BY <2>2, <2>4
    <3> QED BY <3>1, <3>2, <3>3, AllocDoes
  <2>7. Len(said) = 0 /\ \A i : i \notin 1 .. Len(said)
    BY <2>1, SMT
  <2> HIDE DEF K0, V0
  <2>8. Len(said) <= K0.frontier /\ V0.frontier <= cumulative
    BY <2>1, <2>5, <2>6, <2>7, SMT
  <2>9. Hold(K0, V0, cumulative, said)
    BY <2>5, <2>6, <2>7, <2>8 DEF Hold, Level, KTensor, VTensor
  <2>10. ~Spent => Exact(K0, V0, cumulative, said)
    BY <2>1, <2>5, <2>6, <2>7 DEF Exact
  <2> QED BY <2>9, <2>10
<1> QED BY <1>1, <1>2

(* The tokens believed after an accepted update.                            *)
LEMMA SaidAre ==
  ASSUME cumulative \in Nat, said \in Seq(Nat), Len(said) <= cumulative, NEW s \in Nat \ {0}, NEW n \in Nat
  PROVE  /\ Said(s, n) \in Seq(Nat) /\ Len(Said(s, n)) = cumulative + s
         /\ \A i \in cumulative + 1 .. cumulative + s : Said(s, n)[i] = n
         /\ \A i \in 1 .. cumulative : Said(s, n)[i] = IF i <= Len(said) THEN said[i] ELSE 0
<1> DEFINE f == Said(s, n)
           g(i) == IF i > cumulative THEN n ELSE IF i <= Len(said) THEN said[i] ELSE 0
<1>1. f = [i \in 1 .. cumulative + s |-> g(i)]
  BY DEF Said
<1>2. \A i \in 1 .. cumulative + s : g(i) \in Nat
  <2> TAKE i \in 1 .. cumulative + s
  <2>1. i <= Len(said) => said[i] \in Nat
    BY SMT
  <2> QED BY <2>1
<1>3. f \in [1 .. cumulative + s -> Nat]
  BY <1>1, <1>2
<1>4. cumulative + s \in Nat
  BY SMT
<1> HIDE DEF f, g
<1>5. f \in Seq(Nat) /\ Len(f) = cumulative + s
  BY <1>3, <1>4, SMT
<1>6. \A i \in cumulative + 1 .. cumulative + s : i \in 1 .. cumulative + s /\ i > cumulative
  BY SMT
<1>7. \A i \in 1 .. cumulative : i \in 1 .. cumulative + s /\ ~(i > cumulative)
  BY SMT
<1>8. \A i \in cumulative + 1 .. cumulative + s : f[i] = n
  BY <1>1, <1>6 DEF g
<1>9. \A i \in 1 .. cumulative : f[i] = IF i <= Len(said) THEN said[i] ELSE 0
  BY <1>1, <1>7 DEF g
<1> QED BY <1>5, <1>8, <1>9 DEF f

(* What an append at the count leaves of a tensor: if its frontier was in a *)
(* cleared chunk, the tokens below the count; and the new ones if it        *)
(* succeeds.                                                                *)
LEMMA Appended ==
  ASSUME NEW x, Laid(x), NEW c \in Nat, NEW s \in Nat \ {0}, NEW n, n # Null,
         NEW o \in AppendSteps(x, c, s, n)
  PROVE  /\ Laid(o.t) /\ SamePlan(o.t, x) /\ o.ok \in BOOLEAN
         /\ Reached(x) => /\ Reached(o.t)
                          /\ \A i \in 0 .. x.frontier - 1 : i < c => StepAt(o.t, i) = StepAt(x, i)
         /\ ~o.ok => o.t.frontier = x.frontier
         /\ o.ok => /\ o.t.frontier = Most(x.frontier, c + s) /\ c <= x.frontier
                    /\ c + s <= Grow(x)
                    /\ \A i \in c .. c + s - 1 : StepAt(o.t, i) = n
                    /\ Cleared(x) => Cleared(o.t)
                    /\ x.frontier = c => Reached(o.t)
<1>1. /\ Laid(o.t) /\ SamePlan(o.t, x)
      /\ \/ o.ok = TRUE /\ AppendDone(x, c, s, n, o.t)
         \/ o.ok = FALSE /\ AppendFailed(x, c, n, o.t)
  BY AppendDoes
<1>2. x.frontier \in Nat
  <2>1. x.frontier \in 0 .. Grow(x) /\ Grow(x) \in Nat
    BY PlanSizes
  <2> QED BY <2>1, SMT
<1>3. \A i \in 0 .. x.frontier - 1 : i < c => i \notin c .. c + s - 1 /\ ~(c <= i)
  BY <1>2, SMT
<1>4. CASE o.ok = TRUE /\ AppendDone(x, c, s, n, o.t)
  <2>1. ASSUME Reached(x)
        PROVE  Reached(o.t) /\ \A i \in 0 .. x.frontier - 1 : i < c => StepAt(o.t, i) = StepAt(x, i)
    BY <1>3, <1>4, <2>1 DEF AppendDone
  <2> QED BY <1>1, <1>4, <2>1 DEF AppendDone
<1>5. CASE o.ok = FALSE /\ AppendFailed(x, c, n, o.t)
  <2>1. ASSUME Reached(x)
        PROVE  Reached(o.t) /\ \A i \in 0 .. x.frontier - 1 : i < c => StepAt(o.t, i) = StepAt(x, i)
    BY <1>3, <1>5, <2>1 DEF AppendFailed
  <2> QED BY <1>1, <1>5, <2>1 DEF AppendFailed
<1> QED BY <1>1, <1>4, <1>5

(* An update that fails leaves every token and every frontier.              *)
LEMMA StillHold ==
  ASSUME NEW x, NEW y, NEW c \in Nat, NEW sd \in Seq(Nat), Len(sd) <= c, Hold(x, y, c, sd),
         NEW p, NEW q, KTensor(p), VTensor(q), x.frontier <= p.frontier, q.frontier = y.frontier,
         \A i \in 0 .. x.frontier - 1 : i < c => StepAt(p, i) = StepAt(x, i),
         Reached(y) => /\ Reached(q)
                       /\ \A i \in 0 .. y.frontier - 1 : i < c => StepAt(q, i) = StepAt(y, i)
  PROVE  Hold(p, q, c, sd)
<1> DEFINE l == Len(sd)
           fx == x.frontier
           fp == p.frontier
           fy == y.frontier
<1>1. l \in Nat /\ fx \in Nat /\ fp \in Nat /\ fy \in Nat
  <2>1. fx \in 0 .. SMax /\ fp \in 0 .. SMax /\ fy \in 0 .. SMax
    BY TensorSizes DEF Hold
  <2>2. l \in Nat
    OBVIOUS
  <2> HIDE DEF l, fx, fp, fy
  <2> QED BY <2>1, <2>2, KvAssumption, SMT
<1>2. l <= fx /\ l <= c /\ fx <= fp /\ Level(y, c, sd)
  BY DEF Hold
<1>3. Level(q, c, sd)
  BY <1>2 DEF Level
<1>4. ASSUME NEW i \in 1 .. l, sd[i] # 0
      PROVE  Both(p, q, sd, i)
  <2>1. Both(x, y, sd, i)
    BY <1>4 DEF Hold
  <2> HIDE DEF l, fx, fp, fy
  <2>2. l # 0
    BY <1>1, SMT
  <2>3. Reached(y) /\ c <= fy
    BY <1>2, <2>2 DEF Level, l, fy
  <2>4. i - 1 \in 0 .. fx - 1 /\ i - 1 \in 0 .. fy - 1 /\ i - 1 < c
    BY <1>1, <1>2, <2>3, SMT
  <2>5. StepAt(p, i - 1) = StepAt(x, i - 1) /\ StepAt(q, i - 1) = StepAt(y, i - 1)
    BY <2>3, <2>4 DEF fx, fy
  <2> QED BY <2>1, <2>5 DEF Both
<1>5. l <= fp
  <2> HIDE DEF l, fx, fp
  <2> QED BY <1>1, <1>2, SMT
<1> QED BY <1>3, <1>4, <1>5 DEF Hold

(* An accepted update: both appends went through.                           *)
LEMMA Accepted ==
  ASSUME KInv, NEW x, NEW y, Hold(x, y, cumulative, said),
         NEW s \in Nat \ {0}, NEW n \in Nat \ {0},
         NEW a \in AppendSteps(x, cumulative, s, n), a.ok, NEW b \in AppendSteps(y, cumulative, s, n), b.ok
  PROVE  /\ cumulative + s <= SMax
         /\ Hold(a.t, b.t, cumulative + s, Said(s, n))
         /\ Exact(x, y, cumulative, said) => Exact(a.t, b.t, cumulative + s, Said(s, n))
<1> DEFINE c == cumulative
           new == Said(s, n)
           l == Len(said)
           fx == x.frontier
           fy == y.frontier
           fa == a.t.frontier
           fb == b.t.frontier
<1>1. /\ c \in Nat /\ l \in Nat /\ l <= c /\ said \in Seq(Nat) /\ n # Null /\ SMax \in Nat
  <2>1. c \in 0 .. SMax /\ SMax \in Nat /\ said \in Seq(Nat) /\ l <= c
    BY KvAssumption DEF KInv
  <2> QED BY <2>1, SMT DEF Null
<1>2. KTensor(x) /\ VTensor(y) /\ Level(y, c, said) /\ l <= fx
  BY DEF Hold
<1>3. /\ Laid(x) /\ Reached(x) /\ Grow(x) = SMax /\ fx \in Nat
      /\ Laid(y) /\ Grow(y) = SMax /\ fy \in Nat
  BY <1>1, <1>2, TensorSizes, SMT
<1>4. /\ Laid(a.t) /\ SamePlan(a.t, x)
      /\ \A i \in 0 .. fx - 1 : i < c => StepAt(a.t, i) = StepAt(x, i)
      /\ fa = Most(fx, c + s) /\ c + s <= SMax
      /\ \A i \in c .. c + s - 1 : StepAt(a.t, i) = n
  BY <1>1, <1>3, Appended
<1>5. /\ Laid(b.t) /\ SamePlan(b.t, y)
      /\ Reached(y) => /\ Reached(b.t)
                       /\ \A i \in 0 .. fy - 1 : i < c => StepAt(b.t, i) = StepAt(y, i)
      /\ fb = Most(fy, c + s) /\ c <= fy
      /\ \A i \in c .. c + s - 1 : StepAt(b.t, i) = n
      /\ Cleared(y) => Cleared(b.t)
      /\ fy = c => Reached(b.t)
  BY <1>1, <1>3, Appended
<1>6. KTensor(a.t) /\ VTensor(b.t)
  BY <1>2, <1>4, <1>5, SameShape
<1>7. /\ new \in Seq(Nat) /\ Len(new) = c + s
      /\ \A i \in c + 1 .. c + s : new[i] = n
      /\ \A i \in 1 .. c : new[i] = IF i <= l THEN said[i] ELSE 0
  <2>1. n \in Nat
    OBVIOUS
  <2> QED BY <1>1, <2>1, SaidAre
<1> HIDE DEF new
<1>8. \A i \in 1 .. Len(new) : \/ i \in c + 1 .. c + s /\ i - 1 \in c .. c + s - 1
                               \/ i \in 1 .. c /\ (i <= l => i \in 1 .. l)
  <2> HIDE DEF c, l
  <2> QED BY <1>1, <1>7, SMT
<1>9. ASSUME NEW i \in 1 .. Len(new), new[i] # 0
      PROVE  Both(a.t, b.t, new, i)
  <2>1. CASE i \in c + 1 .. c + s /\ i - 1 \in c .. c + s - 1
    BY <1>4, <1>5, <1>7, <2>1 DEF Both
  <2>2. CASE i \in 1 .. c /\ (i <= l => i \in 1 .. l)
    <3>1. i \in 1 .. l /\ new[i] = said[i]
      BY <1>7, <1>9, <2>2
    <3>2. Both(x, y, said, i)
      BY <1>9, <3>1 DEF Hold
    <3>3. l # 0
      <4> HIDE DEF l
      <4> QED BY <1>1, <3>1, SMT
    <3>4. Reached(y)
      BY <1>2, <3>3 DEF Level
    <3>5. i - 1 \in 0 .. fx - 1 /\ i - 1 \in 0 .. fy - 1 /\ i - 1 < c
      <4>1. /\ c \in Nat /\ l \in Nat /\ fx \in Nat /\ fy \in Nat
            /\ l <= c /\ l <= fx /\ c <= fy /\ i \in 1 .. l
        BY <1>1, <1>2, <1>3, <1>5, <3>1
      <4> HIDE DEF c, l, fx, fy
      <4> QED BY <4>1, SMT
    <3>6. StepAt(a.t, i - 1) = StepAt(x, i - 1) /\ StepAt(b.t, i - 1) = StepAt(y, i - 1)
      BY <1>4, <1>5, <3>4, <3>5
    <3> QED BY <3>1, <3>2, <3>6 DEF Both
  <2> QED BY <1>8, <2>1, <2>2
<1>10. c + s <= fa /\ c + s <= fb
  <2> HIDE DEF c, fx, fy, fa, fb
  <2> QED BY <1>1, <1>3, <1>4, <1>5, SMT DEF Most
<1>11. Reached(b.t)
  <2>1. CASE Reached(y)
    BY <1>5, <2>1
  <2>2. CASE fy <= c
    <3>1. fy = c
      <4> HIDE DEF c, fy
      <4> QED BY <1>1, <1>3, <1>5, <2>2, SMT
    <3> QED BY <1>5, <3>1
  <2> QED BY <1>2, <2>1, <2>2 DEF Level
<1>12. Level(b.t, c + s, new)
  BY <1>10, <1>11 DEF Level
<1>13. Hold(a.t, b.t, c + s, new)
  BY <1>6, <1>7, <1>9, <1>10, <1>12 DEF Hold
<1>14. ASSUME Exact(x, y, c, said)
       PROVE  Exact(a.t, b.t, c + s, new)
  <2>1. fx = c /\ fy = c /\ l = c /\ Cleared(y) /\ \A i \in 1 .. l : said[i] # 0
    BY <1>14 DEF Exact
  <2>2. fa = c + s /\ fb = c + s
    <3> HIDE DEF c, fx, fy, fa, fb
    <3> QED BY <1>1, <1>4, <1>5, <2>1, SMT DEF Most
  <2>3. ASSUME NEW i \in 1 .. Len(new)
        PROVE  new[i] # 0
    <3>1. CASE i \in c + 1 .. c + s
      BY <1>7, <3>1
    <3>2. CASE i \in 1 .. c
      <4>1. i <= c
        <5> HIDE DEF c
        <5> QED BY <1>1, <3>2, SMT
      <4> QED BY <1>7, <2>1, <3>2, <4>1
    <3> QED BY <1>8, <3>1, <3>2
  <2> QED BY <1>5, <1>7, <1>11, <2>1, <2>2, <2>3 DEF Exact
<1> QED BY <1>4, <1>13, <1>14 DEF new

LEMMA UpdateKeeps ==
  ASSUME KInv, Reuse \/ ~Spent, NEW s \in Nat \ {0}, NEW n \in Token, Update(s, n)
  PROVE  is_initialized' /\ KInv'
<1> DEFINE c == cumulative
<1>1. /\ Hold(K0, V0, c, said)
      /\ ~Reuse /\ ~raised => Exact(K0, V0, c, said)
  BY Ready
<1>2. /\ c \in Nat /\ c \in 0 .. SMax /\ SMax \in Nat /\ said \in Seq(Nat) /\ Len(said) <= c
      /\ raised \in BOOLEAN /\ n \in Nat \ {0} /\ n # Null
  <2>1. c \in 0 .. SMax /\ SMax \in Nat /\ said \in Seq(Nat) /\ Len(said) <= c /\ raised \in BOOLEAN
        /\ n \in Nat \ {0}
    BY KvAssumption DEF KInv
  <2> QED BY <2>1, SMT DEF Null
<1>3. SUFFICES /\ Hold(k', v', cumulative', said')
               /\ ~Reuse /\ ~raised' => Exact(k', v', cumulative', said')
               /\ cumulative' \in 0 .. SMax
               /\ said' \in Seq(Nat) /\ Len(said') <= cumulative' /\ raised' \in BOOLEAN
  <2>1. ASSUME Hold(k', v', cumulative', said')
        PROVE  is_initialized'
    <3>1. Laid(k')
      BY <2>1 DEF Hold, KTensor
    <3> QED BY <3>1, LaidIsLive DEF is_initialized
  <2> QED BY <2>1 DEF KInv
<1>4. CASE c + s > SMax
  <2>1. k' = K0 /\ v' = V0 /\ cumulative' = c /\ said' = said /\ raised' = raised
    BY <1>4 DEF Update, Refuse
  <2> QED BY <1>1, <1>2, <2>1
<1>5. CASE ~(c + s > SMax)
  <2>1. AppendBoth(c, c, s, n)
    BY <1>5 DEF Update
  <2>2. PICK a \in AppendSteps(K0, c, s, n) :
          /\ k' = a.t
          /\ IF ~a.ok THEN v' = V0 /\ raised' = TRUE /\ UNCHANGED <<cumulative, said>>
             ELSE \E b \in AppendSteps(V0, c, s, n) :
                    /\ v' = b.t
                    /\ IF b.ok THEN cumulative' = c + s /\ said' = Said(s, n) /\ UNCHANGED raised
                       ELSE raised' = TRUE /\ UNCHANGED <<cumulative, said>>
    BY <2>1 DEF AppendBoth
  <2> HIDE DEF c
  <2>3. KTensor(K0) /\ VTensor(V0)
    BY <1>1 DEF Hold
  <2>4. Laid(K0) /\ Reached(K0) /\ K0.frontier \in Nat /\ Laid(V0) /\ V0.frontier \in Nat
    BY <1>2, <2>3, TensorSizes, SMT
  <2>5. /\ Laid(a.t) /\ SamePlan(a.t, K0) /\ a.ok \in BOOLEAN
        /\ \A i \in 0 .. K0.frontier - 1 : i < c => StepAt(a.t, i) = StepAt(K0, i)
        /\ ~a.ok => a.t.frontier = K0.frontier
        /\ a.ok => a.t.frontier = Most(K0.frontier, c + s)
    BY <1>2, <2>2, <2>4, Appended
  <2>6. KTensor(a.t) /\ K0.frontier <= a.t.frontier
    <3> DEFINE fx == K0.frontier
               fa == a.t.frontier
    <3>1. fx \in Nat /\ (fa = fx \/ fa = Most(fx, c + s))
      BY <2>4, <2>5
    <3> HIDE DEF fx, fa
    <3>2. fx <= fa
      BY <1>2, <3>1, SMT DEF Most
    <3> QED BY <2>3, <2>5, <3>2, SameShape DEF fx, fa
  <2>7. CASE ~a.ok
    <3>1. k' = a.t /\ v' = V0 /\ raised' = TRUE /\ cumulative' = c /\ said' = said
      BY <2>2, <2>7 DEF c
    <3>2. Hold(a.t, V0, c, said)
      BY <1>1, <1>2, <2>3, <2>5, <2>6, StillHold
    <3> QED BY <1>2, <3>1, <3>2
  <2>8. CASE a.ok
    <3>1. PICK b \in AppendSteps(V0, c, s, n) :
            /\ k' = a.t /\ v' = b.t
            /\ IF b.ok THEN cumulative' = c + s /\ said' = Said(s, n) /\ raised' = raised
               ELSE raised' = TRUE /\ cumulative' = c /\ said' = said
      BY <2>2, <2>8 DEF c
    <3>2. /\ Laid(b.t) /\ SamePlan(b.t, V0) /\ b.ok \in BOOLEAN
          /\ Reached(V0) => /\ Reached(b.t)
                            /\ \A i \in 0 .. V0.frontier - 1 : i < c => StepAt(b.t, i) = StepAt(V0, i)
          /\ ~b.ok => b.t.frontier = V0.frontier
      BY <1>2, <2>4, <3>1, Appended
    <3>3. CASE ~b.ok
      <4>1. VTensor(b.t)
        BY <2>3, <3>2, SameShape
      <4>2. Hold(a.t, b.t, c, said)
        BY <1>1, <1>2, <2>5, <2>6, <3>2, <3>3, <4>1, StillHold
      <4>3. k' = a.t /\ v' = b.t /\ raised' = TRUE /\ cumulative' = c /\ said' = said
        BY <3>1, <3>3
      <4> QED BY <1>2, <4>2, <4>3
    <3>4. CASE b.ok
      <4> DEFINE new == Said(s, n)
      <4>1. /\ c + s <= SMax
            /\ Hold(a.t, b.t, c + s, new)
            /\ Exact(K0, V0, c, said) => Exact(a.t, b.t, c + s, new)
        BY <1>1, <1>2, <2>2, <2>8, <3>1, <3>4, Accepted DEF c
      <4>2. new \in Seq(Nat) /\ Len(new) = c + s
        <5>1. n \in Nat
          BY <1>2
        <5> QED BY <1>2, <5>1, SaidAre DEF c
      <4> HIDE DEF new
      <4>3. c + s \in 0 .. SMax /\ Len(new) <= c + s
        BY <1>2, <4>1, <4>2, SMT
      <4>4. cumulative' = c + s /\ said' = new /\ raised' = raised /\ k' = a.t /\ v' = b.t
        BY <3>1, <3>4 DEF new
      <4> QED BY <1>1, <1>2, <4>1, <4>2, <4>3, <4>4
    <3> QED BY <3>2, <3>3, <3>4
  <2> QED BY <2>5, <2>7, <2>8
<1> QED BY <1>4, <1>5

(* Cutting both tensors back to at most the count, the tokens beyond given  *)
(* up: K's cut never fails, V's may, and then the count stands.             *)
LEMMA CutKeeps ==
  ASSUME KInv, is_initialized, NEW pos \in 0 .. cumulative, CutBoth(pos),
         said' \in Seq(Nat), Len(said') = Least(pos, Len(said)),
         \A i \in 1 .. Len(said') : said'[i] = said[i]
  PROVE  KInv'
<1> DEFINE c == cumulative
           sd == said'
           l == Len(said)
           m == Len(sd)
           fv == v.frontier
<1>1. /\ Hold(k, v, c, said)
      /\ ~Reuse /\ ~raised => Exact(k, v, c, said)
  BY DEF KInv
<1>2. /\ c \in Nat /\ c <= SMax /\ SMax \in Nat /\ l \in Nat /\ l <= c
      /\ raised \in BOOLEAN /\ pos \in Nat /\ pos <= c /\ m \in Nat /\ m <= pos /\ m <= l
  <2>1. c \in 0 .. SMax /\ SMax \in Nat /\ said \in Seq(Nat) /\ l <= c /\ raised \in BOOLEAN
    BY KvAssumption DEF KInv
  <2>2. l \in Nat /\ m \in Nat /\ m = Least(pos, l) /\ pos \in 0 .. c
    BY <2>1
  <2> HIDE DEF c, l, m
  <2> QED BY <2>1, <2>2, SMT DEF Least
<1>3. PICK a \in Truncate(k, pos), b \in Truncate(v, pos) :
        /\ k' = a.t
        /\ v' = IF a.ok THEN b.t ELSE v
        /\ cumulative' = IF a.ok /\ b.ok THEN pos ELSE cumulative
        /\ raised' = (raised \/ ~a.ok \/ ~b.ok)
  BY DEF CutBoth
<1>4. SUFFICES /\ Hold(k', v', cumulative', sd)
               /\ ~Reuse /\ ~raised' => Exact(k', v', cumulative', sd)
               /\ cumulative' \in 0 .. SMax /\ m <= cumulative' /\ raised' \in BOOLEAN
  <2>1. ASSUME Hold(k', v', cumulative', sd)
        PROVE  is_initialized'
    <3>1. Laid(k')
      BY <2>1 DEF Hold, KTensor
    <3> QED BY <3>1, LaidIsLive DEF is_initialized
  <2> QED BY <2>1 DEF KInv
<1> HIDE DEF c, sd, l
<1>5. KTensor(k) /\ VTensor(v) /\ Level(v, c, said) /\ l <= k.frontier
  BY <1>1 DEF Hold, l
<1>6. /\ Laid(k) /\ k.layout = "out" /\ Grow(k) = SMax
      /\ Laid(v) /\ Grow(v) = SMax /\ fv \in Nat
  BY <1>2, <1>5, TensorSizes, SMT
<1>7. pos \in 0 .. Grow(k) /\ pos \in 0 .. Grow(v)
  <2>1. pos \in 0 .. SMax
    BY <1>2, SMT
  <2> QED BY <1>6, <2>1
<1>8. /\ a.ok = TRUE /\ Laid(a.t) /\ SamePlan(a.t, k) /\ a.t.frontier = pos
      /\ \A i : StepAt(a.t, i) = StepAt(k, i)
  BY <1>6, <1>7, TruncateMoves
<1>9. KTensor(a.t)
  BY <1>5, <1>8, SameShape
<1>10. /\ Laid(b.t) /\ SamePlan(b.t, v)
       /\ \/ fv <= pos /\ b.ok = TRUE /\ b.t.frontier = pos /\ ~(c <= fv /\ pos # fv)
          \/ b.ok = TRUE /\ TruncateDone(v, pos, b.t)
          \/ b.ok = FALSE /\ TruncateFailed(v, pos, b.t)
  <2>1. CASE pos \in 0 .. fv
    BY <1>6, <2>1, TruncateDoes
  <2>2. CASE pos \notin 0 .. fv
    <3>1. fv <= pos /\ ~(c <= fv)
      <4> HIDE DEF fv
      <4> QED BY <1>2, <1>6, <2>2, SMT
    <3> QED BY <1>6, <1>7, <3>1, TruncateMoves
  <2> QED BY <2>1, <2>2
<1>11. VTensor(b.t)
  BY <1>5, <1>10, SameShape
<1>12. ASSUME Reached(v) /\ c <= fv => \A i \in 1 .. m : StepAt(b.t, i - 1) = StepAt(v, i - 1),
              NEW i \in 1 .. m, sd[i] # 0
       PROVE  Both(a.t, b.t, sd, i)
  <2>1. i \in 1 .. l /\ sd[i] = said[i] /\ l # 0
    <3>1. sd[i] = said[i]
      BY DEF sd
    <3>2. i \in 1 .. l /\ l # 0
      <4> HIDE DEF m
      <4> QED BY <1>2, SMT
    <3> QED BY <3>1, <3>2
  <2>2. Both(k, v, said, i)
    BY <1>1, <1>12, <2>1 DEF Hold, l
  <2>3. Reached(v) /\ c <= fv
    BY <1>5, <2>1 DEF Level, l
  <2> QED BY <1>8, <1>12, <2>1, <2>2, <2>3 DEF Both
<1>13. l = 0 => m = 0
  <2> HIDE DEF m
  <2> QED BY <1>2, SMT
<1>14. ASSUME b.ok = TRUE, b.t.frontier = pos, Level(b.t, pos, sd),
              Reached(v) /\ c <= fv => \A i \in 1 .. m : StepAt(b.t, i - 1) = StepAt(v, i - 1),
              Exact(k, v, c, said) => Reached(b.t) /\ Cleared(b.t)
       PROVE  /\ Hold(k', v', cumulative', sd)
              /\ ~Reuse /\ ~raised' => Exact(k', v', cumulative', sd)
              /\ cumulative' \in 0 .. SMax /\ m <= cumulative' /\ raised' \in BOOLEAN
  <2>1. k' = a.t /\ v' = b.t /\ cumulative' = pos /\ raised' = raised
    BY <1>2, <1>3, <1>8, <1>14
  <2>2. Hold(a.t, b.t, pos, sd)
    BY <1>2, <1>8, <1>9, <1>11, <1>12, <1>14 DEF Hold
  <2>3. ASSUME Exact(k, v, c, said)
        PROVE  Exact(a.t, b.t, pos, sd)
    <3>1. l = c /\ \A i \in 1 .. l : said[i] # 0
      BY <2>3 DEF Exact, l
    <3>2. m = pos
      <4>1. m = Least(pos, l)
        BY DEF l, sd
      <4> HIDE DEF m
      <4> QED BY <1>2, <3>1, <4>1, SMT DEF Least
    <3>3. ASSUME NEW i \in 1 .. m
          PROVE  sd[i] # 0
      <4>1. i \in 1 .. l
        <5> HIDE DEF m
        <5> QED BY <1>2, SMT
      <4> QED BY <3>1, <4>1 DEF sd
    <3> QED BY <1>8, <1>14, <2>3, <3>2, <3>3 DEF Exact
  <2>4. pos \in 0 .. SMax
    BY <1>2, SMT
  <2> QED BY <1>1, <1>2, <2>1, <2>2, <2>3, <2>4
<1>15. CASE fv <= pos /\ b.ok = TRUE /\ b.t.frontier = pos /\ ~(c <= fv /\ pos # fv) /\ pos # fv
  <2>1. ~(c <= fv) /\ Len(said) = 0
    BY <1>5, <1>15 DEF Level
  <2>2. b.t.frontier <= pos /\ Len(sd) = 0
    BY <1>2, <1>13, <1>15, <2>1 DEF l
  <2>3. Level(b.t, pos, sd)
    BY <2>2 DEF Level
  <2>4. ~Exact(k, v, c, said)
    <3>1. c <= c
      BY <1>2
    <3> QED BY <2>1, <3>1 DEF Exact
  <2> QED BY <1>14, <1>15, <2>1, <2>3, <2>4
<1>16. CASE b.ok = TRUE /\ TruncateDone(v, pos, b.t)
  <2>1. /\ b.t.frontier = pos /\ (Reached(v) => Reached(b.t)) /\ (Cleared(v) => Cleared(b.t))
        /\ \A i \in 0 .. pos - 1 : StepAt(b.t, i) = StepAt(v, i)
    BY <1>16 DEF TruncateDone
  <2>2. \A i \in 1 .. m : StepAt(b.t, i - 1) = StepAt(v, i - 1)
    <3>1. \A i \in 1 .. m : i - 1 \in 0 .. pos - 1
      <4> HIDE DEF m
      <4> QED BY <1>2, SMT
    <3> QED BY <2>1, <3>1
  <2>3. Level(b.t, pos, sd)
    <3>1. pos <= b.t.frontier /\ b.t.frontier <= pos
      BY <1>2, <2>1
    <3> QED BY <1>5, <1>13, <2>1, <3>1 DEF Level, l
  <2>4. Exact(k, v, c, said) => Reached(b.t) /\ Cleared(b.t)
    BY <2>1 DEF Exact
  <2> QED BY <1>14, <1>16, <2>1, <2>2, <2>3, <2>4
<1>17. CASE b.ok = FALSE /\ TruncateFailed(v, pos, b.t)
  <2>1. /\ b.t.frontier = fv /\ b.t.zeroed = v.zeroed
        /\ \A i \in 0 .. fv - 1 : StepAt(b.t, i) = StepAt(v, i) \/ pos <= i
    BY <1>17 DEF TruncateFailed, SameMarks
  <2>2. Reached(v) => Reached(b.t)
    BY <1>10, <2>1 DEF Reached, SamePlan
  <2>3. Level(b.t, c, sd)
    BY <1>5, <1>13, <2>1, <2>2 DEF Level, l
  <2>4. ASSUME c <= fv
        PROVE  \A i \in 1 .. m : StepAt(b.t, i - 1) = StepAt(v, i - 1)
    <3>1. \A i \in 1 .. m : i - 1 \in 0 .. fv - 1 /\ ~(pos <= i - 1)
      <4> HIDE DEF m, fv
      <4> QED BY <1>2, <1>6, <2>4, SMT
    <3> QED BY <2>1, <3>1
  <2>5. Hold(a.t, b.t, c, sd)
    BY <1>2, <1>8, <1>9, <1>11, <1>12, <2>3, <2>4 DEF Hold
  <2>6. k' = a.t /\ v' = b.t /\ cumulative' = c /\ raised' = TRUE
    BY <1>3, <1>8, <1>17 DEF c
  <2>7. c \in 0 .. SMax /\ m <= c
    BY <1>2, SMT
  <2> QED BY <2>5, <2>6, <2>7
<1>18. CASE fv <= pos /\ b.ok = TRUE /\ b.t.frontier = pos /\ pos = fv
  <2>1. TruncateDone(v, pos, b.t) \/ pos # fv
    <3>1. pos \in 0 .. fv
      BY <1>2, <1>6, <1>18, SMT
    <3>2. \/ b.ok = TRUE /\ TruncateDone(v, pos, b.t)
          \/ b.ok = FALSE /\ TruncateFailed(v, pos, b.t)
      BY <1>6, <3>1, TruncateDoes
    <3> QED BY <1>18, <3>2
  <2> QED BY <1>16, <1>18, <2>1
<1> QED BY <1>10, <1>15, <1>16, <1>17, <1>18

(* SaidUpTo(m) are the first tokens of said.                                *)
LEMMA SaidUpToIs ==
  ASSUME said \in Seq(Nat), NEW m \in Nat
  PROVE  /\ SaidUpTo(m) \in Seq(Nat) /\ Len(SaidUpTo(m)) = Least(m, Len(said))
         /\ \A i \in 1 .. Len(SaidUpTo(m)) : SaidUpTo(m)[i] = said[i]
<1> DEFINE l == Least(m, Len(said))
<1>1. l \in Nat /\ l <= Len(said)
  BY SMT DEF Least
<1> HIDE DEF l
<1>2. SaidUpTo(m) = SubSeq(said, 1, l)
  BY DEF SaidUpTo, l
<1>3. /\ SubSeq(said, 1, l) \in Seq(Nat) /\ Len(SubSeq(said, 1, l)) = l
      /\ \A i \in 1 .. l : SubSeq(said, 1, l)[i] = said[i]
  BY <1>1, SMT
<1> QED BY <1>2, <1>3 DEF l

LEMMA CropKeeps ==
  ASSUME KInv, NEW m \in 0 .. SMax, Crop(m)
  PROVE  KInv'
<1>1. is_initialized /\ m < cumulative /\ CutBoth(m) /\ said' = SaidUpTo(m)
  BY DEF Crop
<1>2. m \in 0 .. cumulative /\ m \in Nat /\ said \in Seq(Nat)
  BY <1>1, KvAssumption, SMT DEF KInv
<1>3. /\ said' \in Seq(Nat) /\ Len(said') = Least(m, Len(said))
      /\ \A i \in 1 .. Len(said') : said'[i] = said[i]
  BY <1>1, <1>2, SaidUpToIs
<1> QED BY <1>1, <1>2, <1>3, CutKeeps

LEMMA ResetKeeps ==
  ASSUME KInv, Reset
  PROVE  KInv'
<1>1. cumulative \in 0 .. SMax /\ said \in Seq(Nat) /\ SMax \in Nat
  BY KvAssumption DEF KInv
<1>2. said' = <<>> /\ said' \in Seq(Nat) /\ Len(said') = 0 /\ Len(said) \in Nat
  BY <1>1, SMT DEF Reset
<1>3. CASE is_initialized
  <2>1. CutBoth(0)
    BY <1>3 DEF Reset
  <2>2. 0 \in 0 .. cumulative /\ Len(said') = Least(0, Len(said))
        /\ \A i : i \notin 1 .. Len(said')
    BY <1>1, <1>2, SMT DEF Least
  <2> QED BY <1>2, <1>3, <2>1, <2>2, CutKeeps
<1>4. CASE ~is_initialized
  <2>1. cumulative' = 0 /\ k' = k /\ v' = v /\ raised' = raised
    BY <1>4 DEF Reset
  <2>2. 0 \in 0 .. SMax
    BY <1>1, SMT
  <2>3. v = None /\ ~raised
    BY <1>4 DEF KInv
  <2>4. ~is_initialized'
    BY <1>4, <2>1 DEF is_initialized
  <2>5. raised' \in BOOLEAN
    BY <2>1 DEF KInv
  <2>6. Len(said') <= cumulative'
    BY <1>2, <2>1
  <2> QED BY <1>2, <2>1, <2>2, <2>3, <2>4, <2>5, <2>6 DEF KInv
<1> QED BY <1>3, <1>4

LEMMA FreeKeeps ==
  ASSUME KInv, Free
  PROVE  KInv'
<1>1. /\ k' = None /\ v' = None /\ said' = <<>> /\ raised' = FALSE /\ cumulative' = cumulative
  BY DEF Free
<1>2. said' \in Seq(Nat) /\ Len(said') <= cumulative'
  BY <1>1, SMT DEF KInv
<1> QED BY <1>1, <1>2 DEF KInv, is_initialized

LEMMA KInvStep == ASSUME KInv, [LayerNext]_layer PROVE KInv'
<1>1. CASE UNCHANGED layer
  BY <1>1 DEF KInv, is_initialized, layer
<1>2. ASSUME NEW s \in 1 .. MaxTokens, NEW n \in Token, Reuse \/ ~Spent, Update(s, n)
      PROVE  KInv'
  <2>1. s \in Nat \ {0}
    BY KvAssumption, SMT
  <2> QED BY <1>2, <2>1, UpdateKeeps
<1>3. ASSUME NEW m \in 0 .. SMax, Crop(m)
      PROVE  KInv'
  BY <1>3, CropKeeps
<1> QED BY <1>1, <1>2, <1>3, ResetKeeps, FreeKeeps DEF LayerNext

LEMMA KInvInit == ASSUME LayerInit PROVE KInv
<1>1. SMax \in Nat
  BY KvAssumption
<1>2. k = None /\ v = None /\ cumulative = 0 /\ said = <<>> /\ raised = FALSE
  BY DEF LayerInit
<1>3. cumulative \in 0 .. SMax /\ said \in Seq(Nat) /\ Len(said) <= cumulative
  BY <1>1, <1>2, SMT
<1> QED BY <1>2, <1>3 DEF KInv, is_initialized

LEMMA KInvHolds == LayerSpec => []KInv
<1>1. KInv /\ [LayerNext]_layer => KInv'
  BY KInvStep
<1> QED BY <1>1, KInvInit, PTL DEF LayerSpec

(* A token transformers was told of and did not give up is in K and in V,   *)
(* at its place, whichever calls raised half way (cache.py update, crop and *)
(* reset over pim_tensor.c's append and truncate), and whether or not the   *)
(* layer was freed in between.                                              *)
THEOREM HoldsTokensAlways == LayerSpec => []HoldsTokens
<1>1. KInv => HoldsTokens
  BY DEF KInv, Hold, Both, HoldsTokens, Held
<1> QED BY <1>1, KInvHolds, PTL

(* On a layer no call raised on, the tensors are whole.                     *)
LEMMA ExactIsWhole ==
  ASSUME KInv, is_initialized, ~raised, ~Reuse
  PROVE  Whole
<1>1. Hold(k, v, cumulative, said) /\ Exact(k, v, cumulative, said)
  BY DEF KInv
<1>2. /\ VTensor(v) /\ v.frontier = cumulative /\ Len(said) = cumulative
      /\ Cleared(v) /\ Reached(v) /\ \A i \in 1 .. Len(said) : said[i] # 0 /\ Both(k, v, said, i)
  BY <1>1 DEF Hold, Exact
<1>3. \A i \in 1 .. cumulative : said[i] # 0 /\ Held(i)
  BY <1>2 DEF Both, Held
<1>4. Laid(v) /\ v.layout = "red"
  BY <1>2 DEF VTensor
<1>5. ASSUME NEW o \in 0 .. v.noutpad - 1,
             NEW red \in cumulative .. Least(RoundUp(cumulative, Epb), v.nredpad) - 1
      PROVE  Seen(v, o, red) = Zero
  BY <1>2, <1>4, <1>5, TailIsZero
<1> QED BY <1>2, <1>3, <1>5 DEF Whole

(* When an update is accepted on a layer no call raised on, K and V hold    *)
(* exactly the counted tokens and the rest of V's last beat is zero: what   *)
(* attention.py passes to the matrix products as n_kv.  Assumes ~Reuse, for *)
(* free keeps the count: a freed layer that is used before it is reset can  *)
(* count tokens that nobody wrote.                                          *)
THEOREM AttentionReads == ASSUME ~Reuse PROVE LayerSpec => AttentionReadsTheSequence
<1>1. KInv /\ is_initialized /\ ~raised => Whole
  BY ExactIsWhole
<1>2. ASSUME KInv, LayerNext, cumulative' > cumulative
      PROVE  is_initialized'
  <2>1. cumulative \in Nat /\ ~(cumulative > cumulative) /\ ~(0 > cumulative)
        /\ \A m \in 0 .. SMax : m < cumulative => ~(m > cumulative)
    <3>1. cumulative \in 0 .. SMax /\ SMax \in Nat
      BY <1>2, KvAssumption DEF KInv
    <3> QED BY <3>1, SMT
  <2>2. ASSUME NEW s \in 1 .. MaxTokens, NEW n \in Token, Reuse \/ ~Spent, Update(s, n)
        PROVE  is_initialized'
    <3>1. s \in Nat \ {0}
      BY KvAssumption, SMT
    <3> QED BY <1>2, <2>2, <3>1, UpdateKeeps
  <2>3. ASSUME Reset \/ Free \/ \E m \in 0 .. SMax : Crop(m)
        PROVE  FALSE
    <3>1. \/ cumulative' = cumulative \/ cumulative' = 0
          \/ \E m \in 0 .. SMax : m < cumulative /\ cumulative' = m
      BY <2>3 DEF Reset, Free, Crop, CutBoth
    <3> QED BY <1>2, <2>1, <3>1
  <2> QED BY <1>2, <2>2, <2>3 DEF LayerNext
<1> QED BY <1>1, <1>2, KInvHolds, PTL DEF LayerSpec, AttentionReadsTheSequence

==============================================================================
