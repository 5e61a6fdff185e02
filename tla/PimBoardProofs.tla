---------------------------- MODULE PimBoardProofs ----------------------------
(***************************************************************************)
(* For every geometry: the address arithmetic is a bijection on the card,  *)
(* a broadcast unit is one row, and a load that fails leaves nothing.      *)
(* For every width and number of lanes: only products reach an answer.     *)
(***************************************************************************)
EXTENDS PimBoard, PimBank, FiniteSetTheorems, WellFoundedInduction, TLAPS

(* Division with remainder, as the code uses it.                            *)
LEMMA DivMod ==
  ASSUME NEW n \in Nat, NEW d \in Nat \ {0}
  PROVE  n \div d \in Nat /\ n % d \in 0 .. d - 1 /\ n = d * (n \div d) + (n % d)
BY SMT

(* A multiple grows with its factor ...                                    *)
LEMMA Monotone ==
  ASSUME NEW d \in Nat, NEW a \in Nat, NEW b \in Nat, a <= b
  PROVE  d * a <= d * b
<1>1. d * b = d * a + d * (b - a)
  BY SMT
<1>2. b - a \in Nat
  BY SMT
<1>3. \A k \in Nat : d * k >= 0
  BY SMT
<1> QED BY <1>1, <1>2, <1>3, SMT

(* ... and by at least the number it is a multiple of.                     *)
LEMMA NextMultiple ==
  ASSUME NEW d \in Nat, NEW a \in Nat, NEW b \in Nat, a + 1 <= b
  PROVE  d * a + d <= d * b
<1>1. d * (a + 1) <= d * b
  BY Monotone
<1>2. d * (a + 1) = d * a + d
  BY SMT
<1> QED BY <1>1, <1>2, SMT

(* Quotient and remainder are unique ...                                    *)
LEMMA DivUnique ==
  ASSUME NEW d \in Nat \ {0}, NEW q \in Nat, NEW r \in 0 .. d - 1,
         NEW p \in Nat, NEW s \in 0 .. d - 1, d * q + r = d * p + s
  PROVE  q = p /\ r = s
<1>1. ~ (q + 1 <= p)
  BY NextMultiple, SMT
<1>2. ~ (p + 1 <= q)
  BY NextMultiple, SMT
<1>3. q = p
  BY <1>1, <1>2, SMT
<1> QED BY <1>3, SMT

(* ... so a number built from them is taken apart into them again.          *)
LEMMA DivOfSum ==
  ASSUME NEW d \in Nat \ {0}, NEW q \in Nat, NEW r \in 0 .. d - 1
  PROVE  (d * q + r) \div d = q /\ (d * q + r) % d = r
<1> DEFINE n == d * q + r
<1>1. n \in Nat
  BY SMT
<1>2. n \div d \in Nat /\ n % d \in 0 .. d - 1 /\ n = d * (n \div d) + (n % d)
  BY <1>1, DivMod
<1> HIDE DEF n
<1>3. d * q + r = d * (n \div d) + (n % d)
  BY <1>2 DEF n
<1>4. n \div d = q /\ n % d = r
  BY <1>2, <1>3, DivUnique
<1> QED BY <1>4 DEF n

(* Sizes multiplied are sizes, ...                                         *)
LEMMA ProductNat ==
  ASSUME NEW a \in Nat, NEW b \in Nat
  PROVE  a * b \in Nat
BY SMT

(* ... and positive ones stay positive.                                    *)
LEMMA ProductPositive ==
  ASSUME NEW a \in Nat \ {0}, NEW b \in Nat \ {0}
  PROVE  a * b \in Nat \ {0}
BY SMT

(* Dividing by a product is dividing twice.                                 *)
LEMMA DivTwice ==
  ASSUME NEW n \in Nat, NEW c \in Nat \ {0}, NEW r \in Nat \ {0}
  PROVE  n \div (c * r) = (n \div r) \div c
<1> DEFINE q == n \div r
           k == q \div c
           m == q % c
           w == n % r
<1>1. q \in Nat /\ w \in 0 .. r - 1 /\ n = r * q + w
  BY DivMod
<1>2. k \in Nat /\ m \in 0 .. c - 1 /\ q = c * k + m
  BY <1>1, DivMod
<1>3. c * r \in Nat \ {0}
  BY ProductPositive
<1> HIDE DEF q, k, m, w
<1>4. n = (c * r) * k + (r * m + w)
  <2>1. r * q = r * (c * k) + r * m
    BY <1>1, <1>2, SMT
  <2>2. r * (c * k) = (c * r) * k
    BY <1>2, SMT
  <2> QED BY <1>1, <1>2, <2>1, <2>2, SMT
<1>5. r * m + w \in 0 .. c * r - 1
  <2>1. r * m + r <= r * c
    BY <1>2, NextMultiple, SMT
  <2>2. r * m >= 0 /\ r * c = c * r
    BY <1>2, SMT
  <2> QED BY <1>1, <1>2, <2>1, <2>2, SMT
<1>6. n \div (c * r) = k
  BY <1>2, <1>3, <1>4, <1>5, DivOfSum
<1> QED BY <1>6 DEF k, q

------------------------------------------------------------------------------
(* A geometry as far as decode and encode look at it.                       *)
Sound(g) ==
  /\ g.nch \in Nat \ {0} /\ g.nbank \in Nat \ {0} /\ g.row \in Nat \ {0}
  /\ g.map \in Maps
  /\ g.unit = g.nch * g.nbank * g.row
  /\ g.mem["dram"].base \in Nat /\ g.mem["dram"].bytes \in Nat \ {0}
  /\ g.map = "ChRoBaCo" => g.mem["dram"].bytes % g.nch = 0

(* A byte's place in a channel's row is a bank and a column of that bank.  *)
LEMMA Bank ==
  ASSUME NEW g, Sound(g), NEW n \in Nat
  PROVE  /\ RobacoRow(g) \in Nat \ {0}
         /\ (n % RobacoRow(g)) \div g.row \in 0 .. g.nbank - 1
         /\ (n % RobacoRow(g)) % g.row \in 0 .. g.row - 1
         /\ ((n % RobacoRow(g)) \div g.row) * g.row + ((n % RobacoRow(g)) % g.row) = n % RobacoRow(g)
         /\ n = RobacoRow(g) * (n \div RobacoRow(g)) + (n % RobacoRow(g))
         /\ n \div RobacoRow(g) \in Nat /\ n % RobacoRow(g) \in Nat
<1> DEFINE R == RobacoRow(g)
           w == n % R
           W == g.row
           B == g.nbank
<1>1. W \in Nat \ {0} /\ B \in Nat \ {0} /\ R = B * W
  BY DEF Sound, RobacoRow
<1>2. R \in Nat \ {0}
  BY <1>1, ProductPositive
<1>3. n \div R \in Nat /\ w \in 0 .. R - 1 /\ n = R * (n \div R) + w
  BY <1>2, DivMod
<1> HIDE DEF R, w, W, B
<1>4. w \in Nat
  BY <1>2, <1>3, SMT
<1>5. w \div W \in Nat /\ w % W \in 0 .. W - 1 /\ w = W * (w \div W) + (w % W)
  BY <1>1, <1>4, DivMod
<1>6. w \div W \in 0 .. B - 1
  <2>1. ~ (B <= w \div W)
    <3> SUFFICES ASSUME B <= w \div W  PROVE FALSE
      OBVIOUS
    <3>1. W * B <= W * (w \div W)
      BY <1>1, <1>5, Monotone
    <3>2. W * B = R
      BY <1>1, SMT
    <3> QED BY <1>1, <1>2, <1>3, <1>5, <3>1, <3>2, SMT
  <2> QED BY <1>1, <1>5, <2>1, SMT
<1>7. (w \div W) * W + (w % W) = w
  BY <1>1, <1>5, SMT
<1> QED BY <1>2, <1>3, <1>4, <1>5, <1>6, <1>7 DEF R, w, W, B

(* Encode undoes decode, and the coordinates are in range, on both maps.    *)
THEOREM EncodeOfDecode ==
  ASSUME NEW g, Sound(g), NEW a \in g.mem["dram"].base .. g.mem["dram"].base + g.mem["dram"].bytes - 1
  PROVE  LET c == Decode(g, a)
         IN  c.ch < g.nch /\ c.bank < g.nbank /\ c.col < g.row /\ Encode(g, c) = a
<1> DEFINE base == g.mem["dram"].base
           off == a - base
           R == RobacoRow(g)
           S == ChSpan(g)
           C == g.nch
<1>1. off \in Nat /\ off < g.mem["dram"].bytes /\ base \in Nat /\ a = base + off
  BY DEF Sound
<1>0. /\ C \in Nat \ {0} /\ C = g.nch /\ g.nbank \in Nat \ {0} /\ g.row \in Nat \ {0}
      /\ g.mem["dram"].bytes \in Nat \ {0}
  BY DEF Sound
<1>2. R \in Nat \ {0}
  BY <1>1, Bank
<1>3. /\ (off % R) \div g.row \in 0 .. g.nbank - 1 /\ (off % R) % g.row \in 0 .. g.row - 1
      /\ ((off % R) \div g.row) * g.row + ((off % R) % g.row) = off % R
      /\ off = R * (off \div R) + (off % R)
      /\ off \div R \in Nat /\ off % R \in Nat
  BY <1>1, Bank
<1>4. CASE g.map = "RoChBaCo"
  <2> DEFINE k == (off \div R) \div C
             m == (off \div R) % C
             b == (off % R) \div g.row
             l == (off % R) % g.row
  <2>1. off \div g.unit = k
    <3>1. g.unit = C * R
      <4>1. g.unit = C * g.nbank * g.row /\ R = g.nbank * g.row
        BY DEF Sound, RobacoRow
      <4> QED BY <1>0, <4>1, SMT
    <3>2. off \in Nat /\ C \in Nat \ {0} /\ R \in Nat \ {0}
      BY <1>0, <1>1, <1>2
    <3> HIDE DEF off, C, R
    <3>3. off \div (C * R) = (off \div R) \div C
      BY <3>2, DivTwice
    <3> QED BY <3>1, <3>3
  <2>2. Decode(g, a) = Coord(k, m, b, l)
    BY <1>4, <2>1 DEF Decode
  <2>3. k \in Nat /\ m \in 0 .. C - 1 /\ off \div R = C * k + m
    BY <1>0, <1>3, DivMod
  <2>4. g.unit = C * R
    <3>1. g.unit = C * g.nbank * g.row /\ R = g.nbank * g.row
      BY DEF Sound, RobacoRow
    <3> QED BY <1>0, <3>1, SMT
  <2>5. Encode(g, Coord(k, m, b, l)) = base + b * g.row + l + (k * g.unit + m * R)
    BY <1>4 DEF Encode, Coord
  <2>6. /\ b \in 0 .. g.nbank - 1 /\ l \in 0 .. g.row - 1
        /\ b * g.row + l = off % R /\ off = R * (off \div R) + (off % R)
    BY <1>3
  <2> HIDE DEF k, m, b, l, off, R, C, base
  <2>7. m < g.nch /\ b < g.nbank /\ l < g.row /\ b \in Nat /\ l \in Nat
    BY <1>0, <2>3, <2>6, SMT
  <2>8. k * g.unit + m * R = R * (off \div R)
    <3>1. k * (C * R) = R * (C * k)
      BY <1>0, <1>2, <2>3, SMT
    <3>2. R * (C * k + m) = R * (C * k) + R * m
      BY <1>0, <1>2, <2>3, SMT
    <3>3. m * R = R * m
      BY <1>0, <1>2, <2>3, SMT
    <3> QED BY <2>3, <2>4, <3>1, <3>2, <3>3
  <2>9. Encode(g, Coord(k, m, b, l)) = a
    <3> DEFINE x == b * g.row
               y == R * (off \div R)
               w == off % R
    <3>1. x \in Nat /\ y \in Nat /\ w \in Nat
      BY <1>0, <1>2, <1>3, <2>7, ProductNat DEF off, R
    <3>2. Encode(g, Coord(k, m, b, l)) = base + x + l + y /\ x + l = w /\ off = y + w
      BY <2>5, <2>6, <2>8
    <3> HIDE DEF x, y, w
    <3> QED BY <1>1, <2>7, <3>1, <3>2, SMT
  <2> QED BY <2>2, <2>7, <2>9 DEF Coord
<1>5. CASE g.map = "ChRoBaCo"
  <2> DEFINE h == off \div S
             inch == off % S
             k == inch \div R
             b == (inch % R) \div g.row
             l == (inch % R) % g.row
             bytes == g.mem["dram"].bytes
  <2>1. bytes % C = 0 /\ S = bytes \div C
    BY <1>5 DEF Sound, ChSpan
  <2>2. bytes = C * S /\ S \in Nat
    <3> HIDE DEF C, S, bytes
    <3>1. bytes \in Nat
      BY <1>0 DEF bytes
    <3>2. bytes \div C \in Nat /\ bytes = C * (bytes \div C) + (bytes % C)
      BY <1>0, <3>1, DivMod
    <3>3. C * (bytes \div C) \in Nat
      BY <1>0, <3>2, SMT
    <3> QED BY <2>1, <3>2, <3>3, SMT
  <2>3. S \in Nat \ {0}
    <3> HIDE DEF S, C
    <3> QED BY <1>0, <2>2, SMT
  <2>4. h \in Nat /\ inch \in 0 .. S - 1 /\ off = S * h + inch
    BY <1>1, <2>3, DivMod
  <2> HIDE DEF S, h, inch
  <2>5. inch \in Nat
    BY <2>3, <2>4, SMT
  <2>6. /\ b \in 0 .. g.nbank - 1 /\ l \in 0 .. g.row - 1
        /\ b * g.row + l = inch % R /\ inch = R * k + (inch % R) /\ k \in Nat /\ inch % R \in Nat
    BY <2>5, Bank
  <2>7. Decode(g, a) = Coord(k, h, b, l)
    BY <1>5 DEF Decode, S, h, inch
  <2>8. Encode(g, Coord(k, h, b, l)) = base + b * g.row + l + (h * S + k * R)
    BY <1>5 DEF Encode, Coord, Maps, S
  <2> HIDE DEF k, b, l, off, R, C, base, bytes
  <2>9. h < C
    <3> SUFFICES ASSUME C <= h  PROVE FALSE
      BY <1>0, <2>4, SMT
    <3>1. S * C <= S * h
      BY <1>0, <2>3, <2>4, Monotone
    <3>2. S * C = C * S
      BY <1>0, <2>3, SMT
    <3>3. S * C \in Nat /\ S * h \in Nat /\ off < S * C
      BY <1>0, <1>1, <2>2, <2>3, <2>4, <3>2, SMT DEF bytes
    <3> QED BY <2>3, <2>4, <3>1, <3>3, SMT
  <2>10. h < g.nch /\ b < g.nbank /\ l < g.row /\ b \in Nat /\ l \in Nat
    BY <1>0, <2>6, <2>9, SMT
  <2>11. Encode(g, Coord(k, h, b, l)) = a
    <3> DEFINE x == b * g.row
               y == R * k
               z == S * h
               w == inch % R
    <3>1. h * S = z /\ k * R = y
      BY <1>2, <2>3, <2>4, <2>6, SMT
    <3>2. x \in Nat /\ y \in Nat /\ z \in Nat /\ w \in Nat
      BY <1>0, <1>2, <2>3, <2>4, <2>6, <2>10, ProductNat
    <3>3. Encode(g, Coord(k, h, b, l)) = base + x + l + (z + y) /\ x + l = w /\ inch = y + w /\ off = z + inch
      BY <2>4, <2>6, <2>8, <3>1
    <3> HIDE DEF x, y, z, w
    <3> QED BY <1>1, <2>5, <2>10, <3>2, <3>3, SMT
  <2> QED BY <2>7, <2>10, <2>11 DEF Coord
<1> QED BY <1>4, <1>5 DEF Sound, Maps

(* A unit of the interleaved map is one row: whatever byte of it is asked   *)
(* for, the row is the unit's number.                                       *)
THEOREM UnitIsOneRow ==
  ASSUME NEW g, Sound(g), g.map = "RoChBaCo", NEW k \in Nat, NEW b \in 0 .. g.unit - 1
  PROVE  Decode(g, g.mem["dram"].base + (g.unit * k + b)).row = k
<1> DEFINE n == g.unit * k + b
<1>1. g.unit \in Nat \ {0}
  <2>1. g.nch * g.nbank \in Nat \ {0}
    BY ProductPositive DEF Sound
  <2> QED BY <2>1, ProductPositive DEF Sound
<1>2. n \div g.unit = k /\ g.unit * k \in Nat
  BY <1>1, DivOfSum, ProductNat
<1>3. n \in Nat
  BY <1>1, <1>2, SMT
<1> DEFINE a == g.mem["dram"].base + n
<1> HIDE DEF n, a
<1>4. Decode(g, a).row = (a - g.mem["dram"].base) \div g.unit
  BY DEF Decode, Coord
<1>5. a - g.mem["dram"].base = n
  BY <1>3, SMT DEF Sound, a
<1>6. n \div g.unit = k
  BY <1>2 DEF n
<1>7. Decode(g, a).row = k
  BY <1>4, <1>5, <1>6, Zenon
<1> QED BY <1>7, Zenon DEF a, n

------------------------------------------------------------------------------
(* The module in place was loaded from what insmod was given.               *)
Given == drv \in Parameters \cup {NotLoaded}

(* No step loads a module from anything else.                               *)
LEMMA GivenHolds == Spec => []Given
<1>1. Init => Given
  BY DEF Init, Given
<1>2. Given /\ [Next]_vars => Given'
  <2> SUFFICES ASSUME Given, [Next]_vars  PROVE Given'
    OBVIOUS
  <2>1. ASSUME NEW p \in Parameters, NEW f \in Failing, Insmod(p, f)  PROVE Given'
    BY <2>1 DEF Insmod, Given
  <2>2. CASE Rmmod
    BY <2>2 DEF Rmmod, Given
  <2>3. CASE Open
    BY <2>3 DEF Open, Given
  <2>4. CASE Free
    BY <2>4 DEF Free, Given
  <2>5. CASE Close
    BY <2>5 DEF Close, Given
  <2>6. ASSUME NEW m \in Mem, NEW n \in 1 .. MaxGrans, Alloc(m, n)  PROVE Given'
    BY <2>6 DEF Alloc, Given
  <2>7. CASE UNCHANGED vars
    BY <2>7 DEF vars, Given
  <2> QED BY <2>1, <2>2, <2>3, <2>4, <2>5, <2>6, <2>7 DEF Next
<1> QED BY <1>1, <1>2, PTL DEF Spec

(* What libpim's check accepts is sound for the arithmetic.                 *)
LEMMA CheckedIsSound ==
  ASSUME NEW p \in Parameters, GeomCheck(Derive(Info(p)))
  PROVE  Sound(Derive(Info(p)))
<1> DEFINE g == Derive(Info(p))
           r == g.mem["dram"]
<1>1. /\ p.nch \in Nat /\ p.nbank \in Nat /\ p.row \in Nat /\ p.map \in Maps
      /\ p.base \in Nat /\ p.span \in Nat
  BY BoardAssumption
<1>2. /\ g.nch = p.nch /\ g.nbank = p.nbank /\ g.row = p.row /\ g.map = p.map
      /\ g.unit = p.nch * p.nbank * p.row
  BY DEF Derive, Info, UnitOf
<1>3. r.base = p.base /\ r.bytes = p.nch * p.span
  BY DEF Derive, Info, WithGran, Region, Mem
<1>4. /\ g.nch # 0 /\ g.nbank # 0 /\ g.row # 0 /\ r.bytes # 0
      /\ g.map = "ChRoBaCo" => r.bytes % g.nch = 0
  BY DEF GeomCheck, CheckRegion, IsPow2, Mem
<1>5. r.bytes \in Nat
  BY <1>1, <1>3, ProductNat
<1> HIDE DEF g, r
<1> QED BY <1>1, <1>2, <1>3, <1>4, <1>5 DEF Sound, g, r

(* On every board libpim accepts, decode and encode are inverse on every    *)
(* byte of the card.                                                        *)
THEOREM DecodeInverse == Spec => []EncodeInverts
<1>1. Given => EncodeInverts
  <2> SUFFICES ASSUME Given, drv # NotLoaded, GeomCheck(Derive(Info(drv))),
                      NEW a \in Derive(Info(drv)).mem["dram"].base ..
                                 Derive(Info(drv)).mem["dram"].base + Derive(Info(drv)).mem["dram"].bytes - 1
               PROVE  LET c == Decode(Derive(Info(drv)), a)
                      IN  /\ c.ch < Derive(Info(drv)).nch /\ c.bank < Derive(Info(drv)).nbank
                          /\ c.col < Derive(Info(drv)).row /\ Encode(Derive(Info(drv)), c) = a
    BY DEF EncodeInverts
  <2>1. Sound(Derive(Info(drv)))
    BY CheckedIsSound DEF Given
  <2> QED BY <2>1, EncodeOfDecode
<1> QED BY <1>1, GivenHolds, PTL

(* However loading fails, no ledger of a module that is not there remains,  *)
(* and one that is there has both.                                          *)
THEOREM LoadUnwinds == Spec => []LedgersFollowTheModule
<1>1. Init => LedgersFollowTheModule
  BY DEF Init, LedgersFollowTheModule
<1>2. LedgersFollowTheModule /\ [Next]_vars => LedgersFollowTheModule'
  <2> SUFFICES ASSUME LedgersFollowTheModule, [Next]_vars  PROVE LedgersFollowTheModule'
    OBVIOUS
  <2>1. ASSUME NEW p \in Parameters, NEW f \in Failing, Insmod(p, f)  PROVE LedgersFollowTheModule'
    <3>1. held = {} /\ drv = NotLoaded
      BY <2>1 DEF Insmod, LedgersFollowTheModule
    <3>2. p # NotLoaded
      BY BoardAssumption DEF NotLoaded
    <3>3. CASE LedgerStarts(p, "dram", f) /\ LedgerStarts(p, "gpr", f) /\ f # <<"misc", "register">>
      <4>1. drv' = p /\ held' = Acquire("gpr", f, Acquire("dram", f, {}))
        BY <2>1, <3>1, <3>3 DEF Insmod
      <4>2. Acquire("gpr", f, Acquire("dram", f, {})) = Mem \X {"bitmap", "owner"}
        BY <3>3 DEF Acquire, LedgerStarts, Mem
      <4> QED BY <3>2, <4>1, <4>2 DEF LedgersFollowTheModule
    <3>4. CASE LedgerStarts(p, "dram", f) /\ LedgerStarts(p, "gpr", f) /\ f = <<"misc", "register">>
      BY <2>1, <3>1, <3>4 DEF Insmod, Unwind, LedgerFini, Acquire, LedgersFollowTheModule
    <3>5. CASE LedgerStarts(p, "dram", f) /\ ~LedgerStarts(p, "gpr", f)
      BY <2>1, <3>1, <3>5 DEF Insmod, Unwind, LedgerFini, Acquire, LedgersFollowTheModule
    <3>6. CASE ~LedgerStarts(p, "dram", f)
      BY <2>1, <3>1, <3>6 DEF Insmod, LedgersFollowTheModule
    <3> QED BY <3>3, <3>4, <3>5, <3>6
  <2>2. CASE Rmmod
    BY <2>2 DEF Rmmod, LedgerFini, LedgersFollowTheModule, Mem
  <2>3. CASE Open
    BY <2>3 DEF Open, LedgersFollowTheModule
  <2>4. CASE Free
    BY <2>4 DEF Free, LedgersFollowTheModule
  <2>5. CASE Close
    BY <2>5 DEF Close, LedgersFollowTheModule
  <2>6. ASSUME NEW m \in Mem, NEW n \in 1 .. MaxGrans, Alloc(m, n)  PROVE LedgersFollowTheModule'
    BY <2>6 DEF Alloc, LedgersFollowTheModule
  <2>7. CASE UNCHANGED vars
    BY <2>7 DEF vars, LedgersFollowTheModule
  <2> QED BY <2>1, <2>2, <2>3, <2>4, <2>5, <2>6, <2>7 DEF Next
<1> QED BY <1>1, <1>2, PTL DEF Spec
------------------------------------------------------------------------------
(* A set of numbers has a least one; what holds for 0 and is handed on from *)
(* each number to the next is proved by it.                                 *)
LEMMA Least ==
  ASSUME NEW T, T \subseteq Nat, T # {}
  PROVE  \E m \in T : \A k \in T : m <= k
<1>1. PICK m \in T : \A k \in T : <<k, m>> \notin OpToRel(<, Nat)
  BY NatLessThanWellFounded, WFMin, Zenon
<1>2. \A k \in T : ~ (k < m)
  BY <1>1, Zenon DEF OpToRel
<1> QED BY <1>2

(* The sizes a 32-bit field can name as powers of two.                      *)
Pow(s) == 2^s

LEMMA Doubling ==
  \A s \in 0 .. 29 : Pow(s + 1) = 2 * Pow(s) /\ Pow(s) \in Nat \ {0}
<1>1. Pow(0) = 1 /\ Pow(1) = 2 /\ Pow(2) = 4 /\ Pow(3) = 8 /\ Pow(4) = 16 /\ Pow(5) = 32
      /\ Pow(6) = 64 /\ Pow(7) = 128 /\ Pow(8) = 256 /\ Pow(9) = 512 /\
      Pow(10) = 1024 /\ Pow(11) = 2048 /\ Pow(12) = 4096 /\ Pow(13) = 8192 /\
      Pow(14) = 16384 /\ Pow(15) = 32768 /\ Pow(16) = 65536 /\ Pow(17) = 131072 /\
      Pow(18) = 262144 /\ Pow(19) = 524288 /\ Pow(20) = 1048576 /\ Pow(21) = 2097152
      /\ Pow(22) = 4194304 /\ Pow(23) = 8388608 /\ Pow(24) = 16777216 /\
      Pow(25) = 33554432 /\ Pow(26) = 67108864 /\ Pow(27) = 134217728 /\
      Pow(28) = 268435456 /\ Pow(29) = 536870912 /\ Pow(30) = 1073741824
  BY SMT DEF Pow
<1>2. ASSUME NEW s \in 0 .. 29  PROVE Pow(s + 1) = 2 * Pow(s) /\ Pow(s) \in Nat \ {0}
  <2>1. s \in {0, 1, 2, 3, 4, 5, 6, 7, 8, 9, 10, 11, 12, 13, 14,
               15, 16, 17, 18, 19, 20, 21, 22, 23, 24, 25, 26, 27, 28, 29}
    BY SMT
  <2> QED BY <1>1, <2>1, SMT
<1> QED BY <1>2

(* They grow with their exponents.                                          *)
LEMMA PowersGrow ==
  ASSUME NEW s \in 0 .. 30, NEW t \in 0 .. 30, s < t
  PROVE  Pow(s) \in Nat \ {0} /\ Pow(t) \in Nat \ {0} /\ Pow(s) < Pow(t)
<1> DEFINE T == {n \in Nat : s < n /\ n <= 30 /\ ~ (Pow(s) < Pow(n))}
<1>1. Pow(s) \in Nat \ {0}
  BY Doubling, SMT
<1>2. \A n \in 1 .. 30 : Pow(n) = 2 * Pow(n - 1) /\ Pow(n - 1) \in Nat \ {0}
  <2>1. ASSUME NEW n \in 1 .. 30  PROVE Pow(n) = 2 * Pow(n - 1) /\ Pow(n - 1) \in Nat \ {0}
    <3>1. n - 1 \in 0 .. 29 /\ (n - 1) + 1 = n
      BY SMT
    <3>2. Pow((n - 1) + 1) = 2 * Pow(n - 1) /\ Pow(n - 1) \in Nat \ {0}
      BY <3>1, Doubling
    <3> QED BY <3>1, <3>2, Zenon
  <2> QED BY <2>1
<1>3. T = {}
  <2> SUFFICES ASSUME T # {}  PROVE FALSE
    OBVIOUS
  <2>1. PICK n \in T : \A k \in T : n <= k
    BY Least
  <2>2. n \in Nat /\ s < n /\ n <= 30 /\ ~ (Pow(s) < Pow(n))
    BY <2>1
  <2>3. s = n - 1 \/ Pow(s) < Pow(n - 1)
    <3>1. n - 1 \notin T
      BY <2>1, <2>2, SMT
    <3> QED BY <2>2, <3>1, SMT
  <2>4. n \in 1 .. 30
    BY <2>2, SMT
  <2>5. Pow(n) = 2 * Pow(n - 1) /\ Pow(n - 1) \in Nat \ {0}
    BY <1>2, <2>4, Zenon
  <2> HIDE DEF T
  <2> QED BY <1>1, <2>2, <2>3, <2>5, SMT
<1>4. Pow(t) \in Nat \ {0} /\ t \in Nat
  BY <1>2, SMT
<1> QED BY <1>1, <1>3, <1>4

(* The shift libpim derives for a granule is the granule's.                 *)
LEMMA ShiftOfPower ==
  ASSUME NEW v, IsPow2(v)
  PROVE  v \in Nat \ {0} /\ 2^Shift(v) = v
<1>1. PICK s \in 0 .. 30 : v = Pow(s)
  BY DEF IsPow2, Pow
<1>2. v \in Nat \ {0} /\ \A n \in 0 .. 30 : Pow(n) \in Nat \ {0}
  <2>1. ASSUME NEW n \in 0 .. 30  PROVE Pow(n) \in Nat \ {0}
    <3>1. CASE n = 30
      <4>1. 0 \in 0 .. 30 /\ 30 \in 0 .. 30 /\ 0 < 30
        BY SMT
      <4> QED BY <3>1, <4>1, PowersGrow
    <3>2. CASE n # 30
      BY <3>2, Doubling, SMT
    <3> QED BY <3>1, <3>2
  <2> QED BY <1>1, <2>1
<1>3. Pow(s) >= v /\ (s = 0 \/ Pow(s - 1) < v)
  <2>1. CASE s # 0
    <3>1. s - 1 \in 0 .. 30 /\ s - 1 < s
      BY <2>1, SMT
    <3> QED BY <1>1, <1>2, <3>1, PowersGrow
  <2> QED BY <1>1, <1>2, <2>1
<1> DEFINE t == Shift(v)
<1>4. t \in 0 .. 30 /\ Pow(t) >= v /\ (t = 0 \/ Pow(t - 1) < v)
  BY <1>3, Zenon DEF Shift, Pow
<1> HIDE DEF t
<1>5. ~ (t < s)
  BY <1>1, <1>2, <1>4, PowersGrow, SMT
<1>6. ~ (s < t)
  <2> SUFFICES ASSUME s < t  PROVE FALSE
    OBVIOUS
  <2>1. t - 1 \in 0 .. 30 /\ Pow(t - 1) < v /\ (s = t - 1 \/ s < t - 1)
    BY <1>4, SMT
  <2>2. Pow(s) <= Pow(t - 1)
    BY <1>2, <2>1, PowersGrow, SMT
  <2> QED BY <1>1, <1>2, <2>1, <2>2, SMT
<1>7. t = s
  BY <1>4, <1>5, <1>6, SMT
<1> QED BY <1>1, <1>2, <1>7, Zenon DEF t, Pow

------------------------------------------------------------------------------
(* The bytes of unit k are one column of one bank of one channel each, row  *)
(* k everywhere, and none of them is left out.                              *)
LEMMA UnitIsWholeRow ==
  ASSUME NEW g, Sound(g), g.map = "RoChBaCo", NEW k \in Nat
  PROVE  {Decode(g, g.mem["dram"].base + (g.unit * k + b)) : b \in 0 .. g.unit - 1} = WholeRow(g, k)
<1> DEFINE base == g.mem["dram"].base
           R == RobacoRow(g)
           C == g.nch
           W == g.row
           at(b) == g.unit * k + b
<1>1. /\ base \in Nat /\ C \in Nat \ {0} /\ g.nbank \in Nat \ {0} /\ W \in Nat \ {0}
      /\ R = g.nbank * W /\ g.unit = C * g.nbank * W
  BY DEF Sound, RobacoRow
<1>2. R \in Nat \ {0}
  BY <1>1, ProductPositive
<1>3. g.unit = C * R
  BY <1>1, SMT
<1>4. g.unit \in Nat \ {0} /\ g.unit * k \in Nat
  BY <1>1, <1>2, <1>3, ProductPositive, ProductNat
<1>5. ASSUME NEW b \in 0 .. g.unit - 1
      PROVE  Decode(g, base + at(b)) =
               Coord(k, (at(b) \div R) % C, (at(b) % R) \div W, (at(b) % R) % W)
  <2>1. at(b) \in Nat /\ (base + at(b)) - base = at(b)
    <3> HIDE DEF base
    <3> QED BY <1>1, <1>4, SMT
  <2>2. at(b) \div g.unit = k
    BY <1>4, DivOfSum
  <2> HIDE DEF at
  <2>3. Decode(g, base + at(b)) =
          Coord(((base + at(b)) - base) \div g.unit, (((base + at(b)) - base) \div R) % C,
                (((base + at(b)) - base) % R) \div W, (((base + at(b)) - base) % R) % W)
    BY DEF Decode
  <2> HIDE DEF R, C, W, base
  <2> QED BY <2>1, <2>2, <2>3, Zenon
<1>6. ASSUME NEW b \in 0 .. g.unit - 1
      PROVE  \E ch \in 0 .. C - 1, bk \in 0 .. g.nbank - 1, col \in 0 .. W - 1 :
               Decode(g, base + at(b)) = Coord(k, ch, bk, col)
  <2>1. at(b) \in Nat
    BY <1>4, SMT
  <2> HIDE DEF at
  <2>2. /\ (at(b) % R) \div W \in 0 .. g.nbank - 1 /\ (at(b) % R) % W \in 0 .. W - 1
        /\ at(b) \div R \in Nat
    BY <2>1, Bank
  <2> HIDE DEF R, C, W, base
  <2>3. (at(b) \div R) % C \in 0 .. C - 1
    BY <1>1, <2>2, DivMod
  <2> QED BY <1>5, <2>2, <2>3
<1>7. ASSUME NEW ch \in 0 .. C - 1, NEW bk \in 0 .. g.nbank - 1, NEW col \in 0 .. W - 1
      PROVE  \E b \in 0 .. g.unit - 1 : Decode(g, base + at(b)) = Coord(k, ch, bk, col)
  <2> DEFINE w == W * bk + col
             b == R * ch + w
  <2>0. ch \in Nat /\ bk \in Nat /\ col \in Nat
    BY <1>1, SMT
  <2>1. w \in 0 .. R - 1
    <3>1. W * bk + W <= W * g.nbank
      BY <1>1, <2>0, NextMultiple, SMT
    <3>2. W * g.nbank = R
      BY <1>1, SMT
    <3>3. W * bk \in Nat
      BY <1>1, <2>0, ProductNat
    <3> QED BY <1>1, <1>2, <2>0, <3>1, <3>2, <3>3, SMT
  <2>2. w \div W = bk /\ w % W = col
    BY <1>1, <2>0, DivOfSum
  <2> HIDE DEF w
  <2>3. b \in 0 .. g.unit - 1
    <3> HIDE DEF R, C, W
    <3>1. R * ch + R <= R * C
      BY <1>1, <1>2, <2>0, NextMultiple, SMT
    <3>2. R * C = g.unit
      BY <1>1, <1>2, <1>3, SMT
    <3>3. R * ch \in Nat
      BY <1>2, <2>0, ProductNat
    <3> QED BY <1>2, <1>4, <2>1, <3>1, <3>2, <3>3, SMT
  <2>4. at(b) = R * (C * k + ch) + w /\ C * k + ch \in Nat
    <3> HIDE DEF R, C, W
    <3>1. C * k \in Nat /\ C * k + ch \in Nat
      BY <1>1, <2>0, ProductNat
    <3>2. R * (C * k + ch) = R * (C * k) + R * ch
      BY <1>2, <2>0, <3>1, SMT
    <3>3. R * (C * k) = g.unit * k
      BY <1>1, <1>2, <1>3, SMT
    <3>4. R * ch \in Nat
      BY <1>2, <2>0, ProductNat
    <3> QED BY <1>4, <2>1, <3>1, <3>2, <3>3, <3>4, SMT
  <2> HIDE DEF b, R, C, W
  <2>5. at(b) \div R = C * k + ch /\ at(b) % R = w
    <3> DEFINE q == C * k + ch
    <3>1. at(b) = R * q + w /\ q \in Nat
      BY <2>4
    <3> HIDE DEF at, q
    <3>2. (R * q + w) \div R = q /\ (R * q + w) % R = w
      BY <1>2, <2>1, <3>1, DivOfSum
    <3>3. at(b) \div R = q /\ at(b) % R = w
      BY <3>1, <3>2
    <3> QED BY <3>3 DEF q
  <2>6. (C * k + ch) % C = ch
    BY <1>1, <2>0, DivOfSum
  <2>7. Decode(g, base + at(b)) = Coord(k, ch, bk, col)
    <3>1. Decode(g, base + at(b)) =
            Coord(k, (at(b) \div R) % C, (at(b) % R) \div W, (at(b) % R) % W)
      BY <1>5, <2>3
    <3> HIDE DEF at, base
    <3> QED BY <2>2, <2>5, <2>6, <3>1, Zenon
  <2> QED BY <2>3, <2>7
<1> HIDE DEF base, at, C, W, R
<1>8. {Decode(g, base + at(b)) : b \in 0 .. g.unit - 1}
        = {Coord(k, ch, bk, col) : ch \in 0 .. C - 1, bk \in 0 .. g.nbank - 1, col \in 0 .. W - 1}
  BY <1>6, <1>7
<1> QED BY <1>8 DEF base, at, C, W, WholeRow

------------------------------------------------------------------------------
(* An allocation with the card address of each of its granules.             *)
Laid(g, r) ==
  /\ r.addr \in Seq(Nat)
  /\ g.mem[r.mem].gran \in Nat \ {0} /\ 2^g.mem[r.mem].shift = g.mem[r.mem].gran

(* The followers of a granule are one stretch of the card, which ends with  *)
(* the allocation or at a jump.                                             *)
LEMMA FollowersRun ==
  ASSUME NEW g, NEW r, Laid(g, r), NEW i \in 1 .. Len(r.addr)
  PROVE  /\ Followers(g, r, i) \in 0 .. Len(r.addr) - i
         /\ \A j \in 0 .. Followers(g, r, i) : r.addr[i + j] = r.addr[i] + g.mem[r.mem].gran * j
         /\ i + Followers(g, r, i) < Len(r.addr) =>
              r.addr[i + Followers(g, r, i) + 1] # r.addr[i + Followers(g, r, i)] + g.mem[r.mem].gran
<1> DEFINE a == r.addr
           G == g.mem[r.mem].gran
           L == Len(r.addr)
           Jump(n) == i + n < L => a[i + n + 1] # a[i + n] + G
           Stretch(n) == \A j \in i .. i + n - 1 : a[j + 1] = a[j] + G
           F == Followers(g, r, i)
<1>1. L \in Nat /\ G \in Nat \ {0} /\ \A j \in 1 .. L : a[j] \in Nat
  BY DEF Laid
<1>2. F = CHOOSE n \in 0 .. L - i : Stretch(n) /\ Jump(n)
  BY DEF Followers
<1> HIDE DEF a, G, L, F
<1>3. \E n \in 0 .. L - i : Stretch(n) /\ Jump(n)
  <2> DEFINE T == {n \in Nat : n <= L - i /\ Jump(n)}
  <2>1. L - i \in T
    BY <1>1 DEF L
  <2>2. PICK n \in T : \A k \in T : n <= k
    BY <2>1, Least
  <2>3. n \in 0 .. L - i /\ Jump(n)
    BY <2>2
  <2>4. ASSUME NEW j \in i .. i + n - 1  PROVE a[j + 1] = a[j] + G
    <3>1. j - i \in Nat /\ j - i <= L - i /\ j - i < n /\ i + (j - i) = j /\ j < L
      BY <1>1, <2>3, <2>4 DEF L
    <3>2. j - i \notin T
      BY <2>2, <2>3, <3>1, SMT
    <3>3. ~ Jump(j - i)
      BY <3>1, <3>2
    <3> QED BY <3>1, <3>3
  <2> QED BY <2>3, <2>4
<1>4. F \in 0 .. L - i /\ Stretch(F) /\ Jump(F)
  BY <1>2, <1>3
<1>5. \A j \in 0 .. F : a[i + j] = a[i] + G * j
  <2> DEFINE T == {j \in Nat : j <= F /\ a[i + j] # a[i] + G * j}
  <2>1. T = {}
    <3> SUFFICES ASSUME T # {}  PROVE FALSE
      OBVIOUS
    <3>1. PICK j \in T : \A k \in T : j <= k
      BY Least
    <3>2. j \in Nat /\ j <= F /\ a[i + j] # a[i] + G * j
      BY <3>1
    <3>3. i + 0 = i /\ G * 0 = 0 /\ i \in 1 .. L
      BY <1>1 DEF L
    <3>4. j # 0
      BY <1>1, <3>2, <3>3
    <3>5. j - 1 \in Nat /\ j - 1 <= F /\ j - 1 \notin T
      BY <1>4, <3>1, <3>2, <3>4, SMT
    <3>6. a[i + (j - 1)] = a[i] + G * (j - 1)
      BY <3>5
    <3>7. i + (j - 1) \in i .. i + F - 1 /\ (i + (j - 1)) + 1 = i + j
      BY <1>1, <1>4, <3>2, <3>3, <3>4, SMT
    <3>8. a[i + j] = a[i + (j - 1)] + G
      BY <1>4, <3>7
    <3>9. G * j = G * (j - 1) + G
      BY <1>1, <3>2, SMT
    <3>10. G * (j - 1) \in Nat /\ a[i] \in Nat
      BY <1>1, <3>3, <3>5, ProductNat
    <3> QED BY <1>1, <3>2, <3>6, <3>8, <3>9, <3>10, SMT
  <2>2. ASSUME NEW j \in 0 .. F  PROVE a[i + j] = a[i] + G * j
    <3>1. i \in 1 .. L
      BY DEF L
    <3>2. F \in Nat
      BY <1>1, <1>4, <3>1, SMT
    <3>3. j \in Nat /\ j <= F
      BY <3>2, SMT
    <3> HIDE DEF T
    <3>4. j \notin T
      BY <2>1
    <3> QED BY <3>3, <3>4 DEF T
  <2> QED BY <2>2
<1> QED BY <1>4, <1>5 DEF a, G, L, F

(* Where byte w of granule q of an allocation is in it.                     *)
ByteOf(g, r, q, w) == g.mem[r.mem].gran * q + w

(* A byte of an allocation is found in its granule, and the run from there  *)
(* is to the end of that granule's followers.                               *)
LEMMA ResolveAt ==
  ASSUME NEW g, NEW r, Laid(g, r), NEW q \in 0 .. Len(r.addr) - 1,
         NEW w \in 0 .. g.mem[r.mem].gran - 1, NEW len \in Nat
  PROVE  /\ Resolve(g, r, ByteOf(g, r, q, w), len).axi = r.addr[q + 1] + w
         /\ Resolve(g, r, ByteOf(g, r, q, w), len).run =
              Min2(len, g.mem[r.mem].gran - w + Followers(g, r, q + 1) * g.mem[r.mem].gran)
<1> DEFINE G == g.mem[r.mem].gran
           off == G * q + w
<1>1. Len(r.addr) \in Nat /\ G \in Nat \ {0} /\ 2^g.mem[r.mem].shift = G
  BY DEF Laid
<1>2. q \in Nat
  BY <1>1, SMT
<1>3. off \div G = q /\ off % G = w
  BY <1>1, <1>2, DivOfSum
<1> HIDE DEF off
<1>4. Resolve(g, r, off, len) =
        [axi |-> r.addr[off \div 2^g.mem[r.mem].shift + 1] + (off % G),
         run |-> Min2(len, G - (off % G) + Followers(g, r, off \div 2^g.mem[r.mem].shift + 1) * G)]
  BY DEF Resolve
<1> HIDE DEF G
<1>5. Resolve(g, r, off, len) =
        [axi |-> r.addr[q + 1] + w, run |-> Min2(len, G - w + Followers(g, r, q + 1) * G)]
  BY <1>1, <1>3, <1>4, Zenon DEF G
<1>6. Resolve(g, r, off, len).axi = r.addr[q + 1] + w
      /\ Resolve(g, r, off, len).run = Min2(len, G - w + Followers(g, r, q + 1) * G)
  BY <1>5
<1> QED BY <1>6 DEF G, off, ByteOf

(* What an open context and its allocation are: a board that passed the     *)
(* checks of both sides, and different granules of one of its regions.      *)
Reached ==
  /\ ctx # NoCtx => \E p \in Parameters :
       ctx = Derive(Info(p)) /\ GeomCheck(ctx) /\ ctx.map = "RoChBaCo"
  /\ ctx = NoCtx => rec = NoRec
  /\ rec # NoRec => \E m \in Mem, n \in Nat \ {0} : \E a \in [1 .. n -> Granules(ctx, m)] :
       /\ \A i, j \in 1 .. n : a[i] = a[j] => i = j
       /\ rec = [mem |-> m, addr |-> a]

LEMMA ReachedHolds == Spec => []Reached
<1>1. Init => Reached
  BY DEF Init, Reached
<1>2. Given /\ Reached /\ [Next]_vars => Reached'
  <2> SUFFICES ASSUME Given, Reached, [Next]_vars  PROVE Reached'
    OBVIOUS
  <2>1. ASSUME NEW p \in Parameters, NEW f \in Failing, Insmod(p, f)  PROVE Reached'
    BY <2>1 DEF Insmod, Reached
  <2>2. CASE Rmmod
    BY <2>2 DEF Rmmod, Reached
  <2>3. CASE Open
    BY <2>3 DEF Open, Given, Reached
  <2>4. CASE Free
    BY <2>4 DEF Free, Reached
  <2>5. CASE Close
    BY <2>5 DEF Close, Reached
  <2>6. ASSUME NEW m \in Mem, NEW n \in 1 .. MaxGrans, Alloc(m, n)  PROVE Reached'
    <3>1. n \in Nat \ {0}
      BY BoardAssumption, SMT
    <3>2. PICK a \in [1 .. n -> Granules(ctx, m)] :
            /\ \A i, j \in 1 .. n : a[i] = a[j] => i = j
            /\ rec' = [mem |-> m, addr |-> a]
      BY <2>6 DEF Alloc
    <3>3. ctx # NoCtx /\ ctx' = ctx
      BY <2>6 DEF Alloc
    <3> QED BY <3>1, <3>2, <3>3 DEF Reached
  <2>7. CASE UNCHANGED vars
    BY <2>7 DEF vars, Reached
  <2> QED BY <2>1, <2>2, <2>3, <2>4, <2>5, <2>6, <2>7 DEF Next
<1> QED BY <1>1, <1>2, GivenHolds, PTL DEF Spec

(* The regions of a board that passed.                                      *)
LEMMA RegionsAreSound ==
  ASSUME NEW p \in Parameters, GeomCheck(Derive(Info(p))), NEW m \in Mem
  PROVE  LET g == Derive(Info(p))
         IN  /\ g.mem[m].gran \in Nat \ {0} /\ 2^g.mem[m].shift = g.mem[m].gran
             /\ g.mem[m].base \in Nat /\ g.mem[m].nr * g.mem[m].per \in Nat
             /\ g.mem["dram"].gran = g.unit
<1> DEFINE g == Derive(Info(p))
           r == g.mem[m]
<1>1. CheckRegion(r) /\ IsPow2(r.gran) /\ IsPow2(r.hugepage)
  BY DEF GeomCheck, CheckRegion
<1>2. /\ r.base = Region(p, m).base /\ r.nr = Region(p, m).bytes \div r.hugepage
      /\ r.shift = (IF r.gran = 0 THEN 0 ELSE Shift(r.gran))
      /\ r.per = (IF r.gran = 0 THEN 0 ELSE r.hugepage \div r.gran)
      /\ g.mem["dram"].gran = g.unit
  BY DEF Derive, Info, WithGran, Mem
<1>3. Region(p, m).base \in Nat /\ Region(p, m).bytes \in Nat
  <2>1. p.nch * p.span \in Nat /\ p.base \in Nat /\ p.gbase \in Nat /\ p.gsize \in Nat
    BY BoardAssumption, ProductNat
  <2> QED BY <2>1 DEF Region
<1> HIDE DEF g, r
<1>4. r.gran \in Nat \ {0} /\ r.hugepage \in Nat \ {0} /\ 2^Shift(r.gran) = r.gran
  BY <1>1, ShiftOfPower
<1>5. r.nr \in Nat /\ r.per \in Nat
  BY <1>2, <1>3, <1>4, DivMod
<1>6. r.nr * r.per \in Nat
  BY <1>5, ProductNat
<1>7. 2^r.shift = r.gran
  BY <1>2, <1>4
<1> QED BY <1>2, <1>3, <1>4, <1>6, <1>7 DEF g, r

(* ... and so the allocation is laid out on whole granules of its region.   *)
LEMMA RecordIsLaid ==
  ASSUME Reached, rec # NoRec
  PROVE  /\ Sound(ctx) /\ ctx.map = "RoChBaCo" /\ ctx.mem["dram"].gran = ctx.unit
         /\ Laid(ctx, rec) /\ ctx.mem[rec.mem].base \in Nat
         /\ Len(rec.addr) \in Nat \ {0}
         /\ \A i, j \in 1 .. Len(rec.addr) : rec.addr[i] = rec.addr[j] => i = j
         /\ \A i \in 1 .. Len(rec.addr) :
              \E k \in Nat : rec.addr[i] = ctx.mem[rec.mem].base + ctx.mem[rec.mem].gran * k
<1>1. ctx # NoCtx
  BY DEF Reached
<1>2. PICK p \in Parameters : ctx = Derive(Info(p)) /\ GeomCheck(ctx) /\ ctx.map = "RoChBaCo"
  BY <1>1 DEF Reached
<1>3. PICK m \in Mem, n \in Nat \ {0} : \E a \in [1 .. n -> Granules(ctx, m)] :
        (\A i, j \in 1 .. n : a[i] = a[j] => i = j) /\ rec = [mem |-> m, addr |-> a]
  BY DEF Reached
<1>4. PICK a \in [1 .. n -> Granules(ctx, m)] :
        (\A i, j \in 1 .. n : a[i] = a[j] => i = j) /\ rec = [mem |-> m, addr |-> a]
  BY <1>3
<1>5. rec.mem = m /\ rec.addr = a /\ Len(a) = n
  BY <1>4
<1>6. /\ ctx.mem[m].gran \in Nat \ {0} /\ 2^ctx.mem[m].shift = ctx.mem[m].gran
      /\ ctx.mem[m].base \in Nat /\ ctx.mem[m].nr * ctx.mem[m].per \in Nat
      /\ ctx.mem["dram"].gran = ctx.unit
  BY <1>2, RegionsAreSound
<1>7. Sound(ctx)
  BY <1>2, CheckedIsSound
<1>8. ASSUME NEW i \in 1 .. n
      PROVE  a[i] \in Nat /\ \E k \in Nat : a[i] = ctx.mem[m].base + ctx.mem[m].gran * k
  <2>1. PICK k \in 0 .. ctx.mem[m].nr * ctx.mem[m].per - 1 :
          a[i] = ctx.mem[m].base + k * ctx.mem[m].gran
    BY <1>8 DEF Granules
  <2>2. k \in Nat
    BY <1>6
  <2> DEFINE G == ctx.mem[m].gran
             base == ctx.mem[m].base
  <2>3. G \in Nat /\ base \in Nat /\ a[i] = base + k * G
    BY <1>6, <2>1
  <2> HIDE DEF G, base
  <2>4. k * G = G * k /\ k * G \in Nat
    BY <2>2, <2>3, SMT
  <2>5. a[i] \in Nat /\ a[i] = base + G * k
    BY <2>3, <2>4
  <2> QED BY <2>2, <2>5 DEF G, base
<1>9. a \in Seq(Nat)
  <2>1. a \in [1 .. n -> Nat]
    BY <1>8
  <2> QED BY <2>1
<1> QED BY SMTT(60), <1>2, <1>4, <1>5, <1>6, <1>7, <1>8, <1>9 DEF Laid

(* A broadcast unit of an allocation, wherever the pool found its granules, *)
(* is one row of every bank of every channel and nothing else; the row is   *)
(* the one pim_addr_unit names; and no two units share it (pim_addr.c).     *)
THEOREM UnitsAreRows == Spec => []OneRowPerUnit
<1>1. Reached => OneRowPerUnit
  <2> SUFFICES ASSUME Reached, rec # NoRec, rec.mem = "dram"
               PROVE  LET len == Bytes(ctx, rec)
                          n == Units(ctx, rec, 0, len)
                      IN  /\ n = Len(rec.addr)
                          /\ \A i \in 0 .. n - 1 :
                               /\ ~ UnitRefused(ctx, rec, 0, len, i)
                               /\ CoordsOf(i) = WholeRow(ctx, UnitRow(ctx, rec, 0, i))
                               /\ \A j \in 0 .. n - 1 :
                                    UnitRow(ctx, rec, 0, i) = UnitRow(ctx, rec, 0, j) => i = j
    BY DEF OneRowPerUnit
  <2> DEFINE U == ctx.unit
             L == Len(rec.addr)
             a == rec.addr
             base == ctx.mem["dram"].base
             len == Bytes(ctx, rec)
             n == Units(ctx, rec, 0, len)
  <2>1. /\ Sound(ctx) /\ ctx.map = "RoChBaCo" /\ Laid(ctx, rec) /\ base \in Nat
        /\ ctx.mem[rec.mem].gran = U /\ U \in Nat \ {0} /\ L \in Nat \ {0}
        /\ \A i, j \in 1 .. L : a[i] = a[j] => i = j
        /\ \A i \in 1 .. L : \E k \in Nat : a[i] = base + U * k
    BY RecordIsLaid DEF Laid
  <2>2. len = L * U /\ len = U * L + 0
    <3>1. len = L * U
      BY <2>1 DEF Bytes
    <3> HIDE DEF len, L, U
    <3> QED BY <2>1, <3>1, SMT
  <2>3. n = L
    <3>1. len \in Nat /\ len > 0 /\ 0 + len <= len /\ len - 0 = len
      <4> HIDE DEF len, L, U
      <4> QED BY <2>1, <2>2, ProductPositive, SMT
    <3>2. len % U = 0
      <4> HIDE DEF len, L, U
      <4>1. 0 \in 0 .. U - 1 /\ L \in Nat
        BY <2>1, SMT
      <4>2. (U * L + 0) % U = 0
        BY <2>1, <4>1, DivOfSum
      <4> QED BY <2>2, <4>2, Zenon
    <3>3. (len + U - 1) \div U = L
      <4> HIDE DEF len, L, U
      <4>1. U - 1 \in 0 .. U - 1 /\ U * L \in Nat
        BY <2>1, ProductNat, SMT
      <4>2. len + U - 1 = U * L + (U - 1)
        BY <2>1, <2>2, <4>1, SMT
      <4> QED BY <2>1, <4>1, <4>2, DivOfSum
    <3>4. n = IF rec.mem = "dram" /\ len > 0 /\ 0 + len <= len /\ (len - 0) % U = 0
              THEN (len + U - 1) \div U ELSE 0
      BY DEF Units
    <3> HIDE DEF len, n, L, U
    <3> QED BY <3>1, <3>2, <3>3, <3>4, Zenon
  <2>4. ASSUME NEW i \in 0 .. L - 1, NEW b \in 0 .. U - 1, NEW l \in Nat
        PROVE  /\ Resolve(ctx, rec, i * U + b, l).axi = a[i + 1] + b
               /\ Resolve(ctx, rec, i * U + b, l).run = Min2(l, U - b + Followers(ctx, rec, i + 1) * U)
    <3>1. i * U = U * i
      <4> HIDE DEF U, L
      <4> QED BY <2>1, SMT
    <3>2. i \in 0 .. Len(rec.addr) - 1 /\ b \in 0 .. ctx.mem[rec.mem].gran - 1
      BY <2>1
    <3>3. /\ Resolve(ctx, rec, ByteOf(ctx, rec, i, b), l).axi = rec.addr[i + 1] + b
          /\ Resolve(ctx, rec, ByteOf(ctx, rec, i, b), l).run =
               Min2(l, ctx.mem[rec.mem].gran - b + Followers(ctx, rec, i + 1) * ctx.mem[rec.mem].gran)
      <4>1. Laid(ctx, rec)
        BY <2>1
      <4> QED BY <3>2, <4>1, ResolveAt
    <3> HIDE DEF U
    <3> QED BY <2>1, <3>1, <3>3, Zenon DEF ByteOf
  <2>5. ASSUME NEW i \in 0 .. L - 1
        PROVE  /\ ~ UnitRefused(ctx, rec, 0, len, i)
               /\ \E k \in Nat : /\ a[i + 1] = base + U * k /\ UnitRow(ctx, rec, 0, i) = k
                                 /\ CoordsOf(i) = WholeRow(ctx, k)
    <3>1. i + 1 \in 1 .. L /\ 0 \in 0 .. U - 1 /\ 0 + i * U = i * U + 0 /\ U \in Nat /\ i \in Nat
      <4> HIDE DEF U, L
      <4> QED BY <2>1, SMT
    <3>2. PICK k \in Nat : a[i + 1] = base + U * k
      BY <2>1, <3>1
    <3>3. a[i + 1] \in Nat /\ U * k \in Nat
      <4>1. a[i + 1] \in Nat
        <5>1. rec.addr \in Seq(Nat) /\ i + 1 \in 1 .. Len(rec.addr)
          BY <2>1, <3>1 DEF Laid
        <5> QED BY <5>1
      <4> QED BY <3>1, <3>2, <4>1, ProductNat
    <3>4. /\ Resolve(ctx, rec, 0 + i * U, U).axi = a[i + 1] + 0
          /\ Resolve(ctx, rec, 0 + i * U, U).run = Min2(U, U - 0 + Followers(ctx, rec, i + 1) * U)
      <4> HIDE DEF a, L
      <4> QED BY <2>4, <3>1
    <3>5. ~ UnitRefused(ctx, rec, 0, len, i)
      <4>1. Followers(ctx, rec, i + 1) \in Nat
        BY <2>1, <3>1, FollowersRun, SMT
      <4>2. Followers(ctx, rec, i + 1) * U \in Nat
        BY <3>1, <4>1, ProductNat
      <4>3. Resolve(ctx, rec, 0 + i * U, U).run = U
        <5> HIDE DEF U
        <5> QED BY <3>1, <3>4, <4>2 DEF Min2
      <4>4. ~ (i >= n)
        <5> HIDE DEF n, L
        <5> QED BY <2>1, <2>3, <3>1, SMT
      <4> QED BY <4>3, <4>4 DEF UnitRefused
    <3>6. UnitRow(ctx, rec, 0, i) = k
      <4>1. UnitRow(ctx, rec, 0, i) = Decode(ctx, Resolve(ctx, rec, 0 + i * U, U).axi).row
        BY DEF UnitRow
      <4>2. a[i + 1] + 0 = base + (U * k + 0)
        <5> HIDE DEF a, base, U
        <5> QED BY <2>1, <3>2, <3>3, SMT
      <4>3. Decode(ctx, base + (U * k + 0)).row = k
        BY <2>1, <3>1, UnitIsOneRow
      <4> HIDE DEF a, base, U
      <4> QED BY <3>4, <4>1, <4>2, <4>3, Zenon
    <3>7. CoordsOf(i) = {Decode(ctx, base + (U * k + b)) : b \in 0 .. U - 1}
      <4>1. ASSUME NEW b \in 0 .. U - 1
            PROVE  Resolve(ctx, rec, i * U + b, 1).axi = base + (U * k + b)
        <5>1. Resolve(ctx, rec, i * U + b, 1).axi = a[i + 1] + b
          <6> HIDE DEF a, U, L
          <6> QED BY <2>4
        <5>2. a[i + 1] + b = base + (U * k + b)
          <6> HIDE DEF a, base, U
          <6> QED BY <2>1, <3>1, <3>2, <3>3, SMT
        <5> QED BY <5>1, <5>2
      <4>2. CoordsOf(i) = {Decode(ctx, Resolve(ctx, rec, i * U + b, 1).axi) : b \in 0 .. U - 1}
        BY DEF CoordsOf
      <4> HIDE DEF a, base, U
      <4> QED BY <4>1, <4>2
    <3>8. CoordsOf(i) = WholeRow(ctx, k)
      <4>1. {Decode(ctx, base + (U * k + b)) : b \in 0 .. U - 1} = WholeRow(ctx, k)
        BY <2>1, UnitIsWholeRow
      <4> HIDE DEF U, base
      <4> QED BY <3>7, <4>1
    <3> QED BY <3>2, <3>5, <3>6, <3>8
  <2>6. ASSUME NEW i \in 0 .. L - 1, NEW j \in 0 .. L - 1,
               UnitRow(ctx, rec, 0, i) = UnitRow(ctx, rec, 0, j)
        PROVE  i = j
    <3>1. a[i + 1] = a[j + 1]
      <4> HIDE DEF a, base, U
      <4> QED BY <2>5, <2>6
    <3>2. i + 1 \in 1 .. L /\ j + 1 \in 1 .. L /\ i \in Int /\ j \in Int
      <4> HIDE DEF L
      <4> QED BY <2>1, SMT
    <3>3. i + 1 = j + 1
      BY <2>1, <3>1, <3>2
    <3> QED BY <3>2, <3>3
  <2> HIDE DEF a, base, U, L, len, n
  <2>7. ASSUME NEW i \in 0 .. n - 1
        PROVE  /\ ~ UnitRefused(ctx, rec, 0, len, i)
               /\ CoordsOf(i) = WholeRow(ctx, UnitRow(ctx, rec, 0, i))
               /\ \A j \in 0 .. n - 1 : UnitRow(ctx, rec, 0, i) = UnitRow(ctx, rec, 0, j) => i = j
    BY <2>3, <2>5, <2>6
  <2> QED BY <2>3, <2>7 DEF n, len, L
<1> QED BY <1>1, ReachedHolds, PTL

(* pim_resolve's run tells whether the card goes on without a jump for all  *)
(* of a range: it is shorter than the range just where some byte of it is   *)
(* not the next one.                                                        *)
LEMMA RunsAreStraight ==
  ASSUME NEW g, NEW r, Laid(g, r), NEW off \in 0 .. Bytes(g, r) - 1,
         NEW len \in 1 .. Bytes(g, r) - off
  PROVE  /\ Resolve(g, r, off, len).axi = Resolve(g, r, off, 1).axi
         /\ Resolve(g, r, off, len).run < len <=>
              \E k \in 1 .. len - 1 : Resolve(g, r, off + k, 1).axi # Resolve(g, r, off, 1).axi + k
<1> DEFINE G == g.mem[r.mem].gran
           L == Len(r.addr)
           a == r.addr
           at(b) == Resolve(g, r, b, 1).axi
           q == off \div G
           w == off % G
           F == Followers(g, r, q + 1)
           S == (G - w) + F * G
<1>1. G \in Nat \ {0} /\ L \in Nat /\ Bytes(g, r) = L * G /\ a \in Seq(Nat)
  BY DEF Laid, Bytes
<1>2. L * G \in Nat /\ L * G = G * L /\ off \in Nat /\ len \in Nat /\ len >= 1 /\ off + len <= G * L
  <2>1. L * G \in Nat /\ L * G = G * L
    <3> HIDE DEF G, L
    <3> QED BY <1>1, SMT
  <2> QED BY <1>1, <2>1, SMT
<1>3. ASSUME NEW b \in 0 .. G * L - 1
      PROVE  /\ b \div G \in 0 .. L - 1 /\ b % G \in 0 .. G - 1 /\ b = G * (b \div G) + (b % G)
             /\ at(b) = a[(b \div G) + 1] + (b % G)
  <2>1. b \in Nat /\ b < G * L
    BY <1>1, <1>2, SMT
  <2>2. b \div G \in Nat /\ b % G \in 0 .. G - 1 /\ b = G * (b \div G) + (b % G)
    BY <1>1, <2>1, DivMod
  <2>4. b \div G \in 0 .. L - 1
    <3> DEFINE x == b \div G
               y == b % G
    <3>1. x \in Nat /\ y \in 0 .. G - 1 /\ b = G * x + y
      BY <2>2
    <3> HIDE DEF x, y, G, L
    <3>2. ~ (L <= x)
      <4> SUFFICES ASSUME L <= x  PROVE FALSE
        OBVIOUS
      <4>1. G * L <= G * x /\ G * x \in Nat
        BY <1>1, <3>1, Monotone, ProductNat
      <4> QED BY <1>1, <1>2, <2>1, <3>1, <4>1, SMT
    <3>3. x \in 0 .. L - 1
      BY <1>1, <3>1, <3>2, SMT
    <3> QED BY <3>3 DEF x
  <2>5. Resolve(g, r, G * (b \div G) + (b % G), 1).axi = a[(b \div G) + 1] + (b % G)
    <3> DEFINE x == b \div G
               y == b % G
    <3>1. x \in 0 .. Len(r.addr) - 1 /\ y \in 0 .. g.mem[r.mem].gran - 1
      BY <2>2, <2>4
    <3> HIDE DEF x, y
    <3>2. Resolve(g, r, ByteOf(g, r, x, y), 1).axi = r.addr[x + 1] + y
      BY <3>1, ResolveAt
    <3> QED BY <3>2, Zenon DEF ByteOf, x, y
  <2> HIDE DEF G, L, a
  <2> QED BY <2>2, <2>4, <2>5, Zenon
<1>4. q \in 0 .. L - 1 /\ w \in 0 .. G - 1 /\ off = G * q + w /\ at(off) = a[q + 1] + w
  <2>1. off \in 0 .. G * L - 1
    <3> HIDE DEF G, L
    <3> QED BY <1>1, <1>2, SMT
  <2> HIDE DEF G, L, a
  <2> QED BY <1>3, <2>1
<1>5. /\ F \in 0 .. L - (q + 1) /\ q + 1 \in 1 .. L
      /\ \A j \in 0 .. F : a[(q + 1) + j] = a[q + 1] + G * j
      /\ (q + 1) + F < L => a[(q + 1) + F + 1] # a[(q + 1) + F] + G
  <2>1. q + 1 \in 1 .. L
    <3>1. q \in 0 .. L - 1 /\ L \in Nat
      BY <1>1, <1>4, Zenon
    <3> HIDE DEF q, L
    <3> QED BY <3>1
  <2> DEFINE i == q + 1
  <2> HIDE DEF q, i
  <2>2. i \in 1 .. Len(r.addr)
    BY <2>1 DEF i
  <2>3. /\ Followers(g, r, i) \in 0 .. L - i
        /\ \A j \in 0 .. Followers(g, r, i) : a[i + j] = a[i] + G * j
        /\ i + Followers(g, r, i) < L => a[i + Followers(g, r, i) + 1] # a[i + Followers(g, r, i)] + G
    BY <2>2, FollowersRun, Zenon
  <2> QED BY <2>1, <2>3, Zenon DEF i
<1>6. Resolve(g, r, off, len).axi = at(off) /\ Resolve(g, r, off, len).run = Min2(len, S)
  <2>1. /\ Resolve(g, r, G * q + w, len).axi = a[q + 1] + w
        /\ Resolve(g, r, G * q + w, len).run = Min2(len, G - w + F * G)
    <3>1. /\ Resolve(g, r, ByteOf(g, r, q, w), len).axi = a[q + 1] + w
          /\ Resolve(g, r, ByteOf(g, r, q, w), len).run = Min2(len, G - w + F * G)
      <4>1. q \in 0 .. Len(r.addr) - 1 /\ w \in 0 .. g.mem[r.mem].gran - 1 /\ len \in Nat
        BY <1>2, <1>4
      <4> HIDE DEF q, w
      <4> QED BY <4>1, ResolveAt
    <3> QED BY <3>1, Zenon DEF ByteOf
  <2> HIDE DEF q, w, a, F, G
  <2> QED BY <1>4, <2>1, Zenon
<1> HIDE DEF q, w, F, a, G, L
<1>7. /\ q \in Nat /\ w \in Nat /\ w < G /\ F \in Nat /\ q + 1 + F <= L
      /\ F * G = G * F /\ G * F \in Nat /\ G * q \in Nat /\ S \in Nat /\ S >= 1
  <2>1. q \in Nat /\ w \in Nat /\ w < G /\ F \in Nat /\ q + 1 + F <= L
    BY <1>1, <1>4, <1>5, SMT
  <2>2. F * G = G * F /\ G * F \in Nat /\ G * q \in Nat
    BY <1>1, <2>1, ProductNat, SMT
  <2> QED BY <1>1, <2>1, <2>2, SMT
<1>8. off + S = G * (q + 1 + F)
  <2>1. G * (q + 1 + F) = (G * q + G) + G * F
    BY <1>1, <1>7, SMT
  <2> QED BY <1>1, <1>4, <1>7, <2>1, SMT
<1>9. \A i \in 1 .. L : a[i] \in Nat
  BY <1>1 DEF L, a
<1>10. ASSUME NEW k \in 0 .. len - 1, k < S  PROVE at(off + k) = at(off) + k
  <2> DEFINE b == off + k
             x == b \div G
             y == b % G
  <2>1. b \in 0 .. G * L - 1 /\ k \in Nat
    BY <1>1, <1>2, SMT
  <2>2. x \in 0 .. L - 1 /\ y \in 0 .. G - 1 /\ b = G * x + y /\ at(b) = a[x + 1] + y
    BY <1>3, <2>1
  <2> HIDE DEF x, y
  <2>3. x \in Nat /\ y \in Nat /\ y < G
    BY <1>1, <2>2, SMT
  <2>4. q <= x
    <3> SUFFICES ASSUME x + 1 <= q  PROVE FALSE
      BY <1>7, <2>3, SMT
    <3>1. G * x + G <= G * q /\ G * x \in Nat
      BY <1>1, <1>7, <2>3, NextMultiple, ProductNat
    <3> DEFINE m == G * x
               n == G * q
    <3>2. off + k = m + y /\ off = n + w /\ m + G <= n /\ m \in Nat /\ n \in Nat
      BY <1>4, <1>7, <2>2, <3>1
    <3>3. G \in Nat /\ w \in Nat
      BY <1>1, <1>7
    <3> HIDE DEF m, n
    <3> QED BY <2>1, <2>3, <3>2, <3>3, SMT
  <2>5. x <= q + F
    <3> SUFFICES ASSUME q + 1 + F <= x  PROVE FALSE
      BY <1>7, <2>3, SMT
    <3>1. G * (q + 1 + F) <= G * x /\ G * x \in Nat
      <4>1. q + 1 + F \in Nat
        BY <1>7, SMT
      <4> QED BY <1>1, <2>3, <4>1, Monotone, ProductNat
    <3>2. off + S <= G * x
      BY <1>8, <3>1
    <3> DEFINE m == G * x
    <3>3. off + k = m + y /\ off + S <= m /\ m \in Nat
      BY <2>2, <3>1, <3>2
    <3>4. S \in Nat /\ off \in Nat /\ k < S
      BY <1>2, <1>7, <1>10
    <3> HIDE DEF S, m
    <3> QED BY <2>1, <2>3, <3>3, <3>4, SMT
  <2>6. x - q \in 0 .. F /\ (q + 1) + (x - q) = x + 1
    BY <1>7, <2>3, <2>4, <2>5, SMT
  <2>7. a[x + 1] = a[q + 1] + G * (x - q)
    BY <1>5, <2>6
  <2>8. G * x = G * q + G * (x - q) /\ G * (x - q) \in Nat
    <3>1. x - q \in Nat
      BY <1>7, <2>6, SMT
    <3> QED BY <1>1, <1>7, <2>3, <3>1, ProductNat, SMT
  <2>9. a[q + 1] \in Nat
    BY <1>5, <1>9
  <2>10. at(off) = a[q + 1] + w /\ off = G * q + w
    BY <1>4
  <2>11. a[x + 1] + y = (a[q + 1] + w) + k
    <3>1. off + k = G * x + y
      BY <2>2
    <3> QED BY <1>2, <1>7, <2>1, <2>3, <2>7, <2>8, <2>9, <2>10, <3>1, SMT
  <2> HIDE DEF at
  <2> QED BY <2>2, <2>10, <2>11
<1>11. ASSUME S < len  PROVE S \in 1 .. len - 1 /\ at(off + S) # at(off) + S
  <2>1. off + S \in 0 .. G * L - 1 /\ S \in 1 .. len - 1
    BY <1>1, <1>2, <1>7, <1>11, SMT
  <2>2. (q + 1) + F < L /\ q + 1 + F \in Nat /\ 0 \in 0 .. G - 1
    <3>1. q + 1 + F \in Nat /\ 0 \in 0 .. G - 1
      BY <1>1, <1>7, SMT
    <3>2. q + 1 + F # L
      BY <1>1, <1>2, <1>8, <2>1, SMT
    <3> QED BY <1>1, <1>7, <3>1, <3>2, SMT
  <2>3. (off + S) \div G = q + 1 + F /\ (off + S) % G = 0
    <3>1. off + S = G * (q + 1 + F) + 0
      BY <1>1, <1>2, <1>7, <1>8, SMT
    <3>2. (G * (q + 1 + F) + 0) \div G = q + 1 + F /\ (G * (q + 1 + F) + 0) % G = 0
      BY <1>1, <2>2, DivOfSum
    <3> HIDE DEF S
    <3> QED BY <3>1, <3>2, Zenon
  <2>4. at(off + S) = a[(q + 1 + F) + 1] + 0
    <3>1. at(off + S) = a[((off + S) \div G) + 1] + ((off + S) % G)
      BY <1>3, <2>1
    <3> HIDE DEF S, at
    <3> QED BY <2>3, <3>1, Zenon
  <2>5. a[(q + 1) + F] = a[q + 1] + G * F
    BY <1>5, <1>7, SMT
  <2>6. a[q + 1] \in Nat /\ a[(q + 1) + F + 1] \in Nat
    <3>1. (q + 1) + F + 1 \in 1 .. L
      BY <1>1, <1>7, <2>2, SMT
    <3> QED BY <1>5, <1>9, <3>1
  <2>7. a[(q + 1) + F + 1] # a[(q + 1) + F] + G
    BY <1>5, <2>2
  <2>8. at(off) = a[q + 1] + w
    BY <1>4
  <2>9. a[(q + 1 + F) + 1] + 0 # (a[q + 1] + w) + S
    BY SMTT(60), <1>1, <1>7, <2>5, <2>6, <2>7
  <2> HIDE DEF at, S
  <2> QED BY <2>1, <2>4, <2>8, <2>9
<1>12. Min2(len, S) < len <=> S < len
  BY <1>2, <1>7 DEF Min2
<1> HIDE DEF at, S
<1>13. Resolve(g, r, off, len).run < len <=> \E k \in 1 .. len - 1 : at(off + k) # at(off) + k
  <2>1. CASE S < len
    BY <1>6, <1>11, <1>12, <2>1
  <2>2. CASE ~ (S < len)
    <3>1. \A k \in 1 .. len - 1 : k \in 0 .. len - 1 /\ k < S
      BY <1>2, <1>7, <2>2, SMT
    <3> QED BY <1>6, <1>10, <1>12, <2>2, <3>1
  <2> QED BY <2>1, <2>2
<1> QED BY <1>6, <1>13 DEF at

(* The words a program gets for a range of a GPR allocation hold exactly    *)
(* the bytes the host wrote there, in order, and a range is refused only    *)
(* where no run of words could (pim_addr_gpr_words, pim_addr.c).            *)
THEOREM WordsAreRight == Spec => []WordsAreTheBytes
<1>1. Reached => WordsAreTheBytes
  <2> DEFINE base == ctx.mem["gpr"].base
             at(b) == Resolve(ctx, rec, b, 1).axi - base
             straight(off, len) ==
               at(off) % GprWord = 0 /\ \A k \in 1 .. len - 1 : at(off + k) = at(off) + k
  <2> SUFFICES ASSUME Reached, rec # NoRec, rec.mem = "gpr",
                      NEW off \in 0 .. Bytes(ctx, rec) - 1, NEW len \in 1 .. Bytes(ctx, rec) - off
               PROVE  IF WordsRefused(ctx, rec, off, len) THEN ~ straight(off, len)
                      ELSE /\ straight(off, len)
                           /\ GprWord * FirstWord(ctx, rec, off, len) = at(off)
                           /\ NWords(len) * GprWord >= len /\ (NWords(len) - 1) * GprWord < len
    BY DEF WordsAreTheBytes
  <2> DEFINE G == ctx.mem["gpr"].gran
             L == Len(rec.addr)
             a == rec.addr
             W == GprWord
  <2>1. /\ Laid(ctx, rec) /\ base \in Nat /\ G \in Nat \ {0} /\ L \in Nat \ {0}
        /\ \A i \in 1 .. L : \E k \in Nat : a[i] = base + G * k
        /\ Bytes(ctx, rec) = L * G /\ W \in Nat \ {0}
    BY RecordIsLaid, GeometryAssumption DEF Laid, Bytes
  <2>2. off \in Nat /\ off < G * L /\ len \in Nat \ {0} /\ off + len <= Bytes(ctx, rec)
    <3>1. L * G \in Nat /\ L * G = G * L
      <4> HIDE DEF L, G
      <4> QED BY <2>1, SMT
    <3> HIDE DEF L, G
    <3> QED BY <2>1, <3>1, SMT
  <2>3. ASSUME NEW b \in 0 .. G * L - 1
        PROVE  at(b) \in Nat /\ Resolve(ctx, rec, b, 1).axi = base + at(b)
    <3> DEFINE q == b \div G
               w == b % G
    <3>0. b \in Nat /\ b < G * L
      <4> HIDE DEF L, G
      <4> QED BY <2>1, SMT
    <3>1. q \in Nat /\ w \in 0 .. G - 1 /\ b = G * q + w
      BY <2>1, <3>0, DivMod
    <3> HIDE DEF q, w
    <3>2. ~ (L <= q)
      <4> HIDE DEF L, G
      <4> SUFFICES ASSUME L <= q  PROVE FALSE
        OBVIOUS
      <4>1. G * L <= G * q /\ G * q \in Nat
        BY <2>1, <3>1, Monotone, ProductNat
      <4> QED BY <2>1, <3>0, <3>1, <4>1, SMT
    <3>3. q \in 0 .. L - 1 /\ q + 1 \in 1 .. L
      <4> HIDE DEF L, G
      <4> QED BY <2>1, <3>1, <3>2, SMT
    <3>4. Resolve(ctx, rec, G * q + w, 1).axi = a[q + 1] + w
      <4>1. /\ q \in 0 .. Len(rec.addr) - 1 /\ w \in 0 .. ctx.mem[rec.mem].gran - 1
            /\ ctx.mem[rec.mem].gran = G /\ Laid(ctx, rec)
        BY <2>1, <3>1, <3>3
      <4>2. Resolve(ctx, rec, ByteOf(ctx, rec, q, w), 1).axi = rec.addr[q + 1] + w
        BY <4>1, ResolveAt
      <4> HIDE DEF G
      <4> QED BY <4>1, <4>2, Zenon DEF ByteOf
    <3>5. PICK k \in Nat : a[q + 1] = base + G * k
      BY <2>1, <3>3
    <3> DEFINE m == G * k
    <3>6. m \in Nat /\ w \in Nat
      <4> HIDE DEF G
      <4> QED BY <2>1, <3>1, ProductNat, SMT
    <3>7. Resolve(ctx, rec, b, 1).axi = (base + m) + w
      <4> HIDE DEF base, a, G, L
      <4> QED BY <3>1, <3>4, <3>5, Zenon DEF m
    <3> HIDE DEF m, base
    <3> QED BY <2>1, <3>6, <3>7, SMT
  <2>4. /\ Resolve(ctx, rec, off, len).axi - base = at(off)
        /\ Resolve(ctx, rec, off, len).run < len <=> \E k \in 1 .. len - 1 : at(off + k) # at(off) + k
    <3>1. /\ Resolve(ctx, rec, off, len).axi = Resolve(ctx, rec, off, 1).axi
          /\ Resolve(ctx, rec, off, len).run < len <=>
               \E k \in 1 .. len - 1 :
                 Resolve(ctx, rec, off + k, 1).axi # Resolve(ctx, rec, off, 1).axi + k
      BY <2>1, RunsAreStraight
    <3>2. off \in 0 .. G * L - 1 /\ \A k \in 1 .. len - 1 : off + k \in 0 .. G * L - 1
      <4>1. Bytes(ctx, rec) = G * L /\ G * L \in Nat
        <5> HIDE DEF G, L
        <5> QED BY <2>1, SMT
      <4> HIDE DEF G, L
      <4> QED BY <2>2, <4>1, SMT
    <3>3. at(off) \in Nat /\ Resolve(ctx, rec, off, 1).axi = base + at(off)
      BY <2>3, <3>2
    <3>4. ASSUME NEW k \in 1 .. len - 1
          PROVE  Resolve(ctx, rec, off + k, 1).axi # Resolve(ctx, rec, off, 1).axi + k
                   <=> at(off + k) # at(off) + k
      <4>1. /\ at(off + k) \in Nat
            /\ Resolve(ctx, rec, off + k, 1).axi = base + at(off + k)
        BY <2>3, <3>2
      <4>2. k \in Nat /\ base \in Nat
        BY <2>1, <2>2
      <4> HIDE DEF at, base
      <4>3. base + at(off + k) # (base + at(off)) + k <=> at(off + k) # at(off) + k
        BY <3>3, <4>1, <4>2, SMT
      <4> QED BY <3>3, <4>1, <4>3
    <3>5. Resolve(ctx, rec, off, len).axi - base = at(off)
      <4> HIDE DEF at, base
      <4> QED BY <2>1, <3>1, <3>3, SMT
    <3> HIDE DEF at, base
    <3> QED BY <3>1, <3>4, <3>5
  <2>8. at(off) \in Nat
    <3>1. off \in 0 .. G * L - 1
      <4> HIDE DEF G, L
      <4> QED BY <2>1, <2>2, SMT
    <3> QED BY <2>3, <3>1
  <2> HIDE DEF at
  <2>5. WordsRefused(ctx, rec, off, len) <=> ~ straight(off, len)
    <3>1. ~ (len = 0) /\ ~ (off + len > Bytes(ctx, rec))
      BY <2>1, <2>2
    <3>2. WordsRefused(ctx, rec, off, len) <=>
            Resolve(ctx, rec, off, len).run < len \/ at(off) % W # 0
      BY <2>4, <3>1 DEF WordsRefused
    <3> QED BY <2>4, <3>2
  <2>6. straight(off, len) => W * FirstWord(ctx, rec, off, len) = at(off)
    <3>1. FirstWord(ctx, rec, off, len) = at(off) \div W
      BY <2>4 DEF FirstWord
    <3>2. at(off) = W * (at(off) \div W) + (at(off) % W) /\ at(off) \div W \in Nat
      BY <2>1, <2>8, DivMod
    <3> HIDE DEF W
    <3> QED BY <2>1, <2>8, <3>1, <3>2 DEF W
  <2>7. NWords(len) * W >= len /\ (NWords(len) - 1) * W < len
    <3> DEFINE x == len + W - 1
               q == x \div W
               w == x % W
    <3>1. x \in Nat
      BY <2>1, <2>2
    <3>2. q \in Nat /\ w \in 0 .. W - 1 /\ x = W * q + w
      BY <2>1, <3>1, DivMod
    <3>3. NWords(len) = q
      BY DEF NWords
    <3> HIDE DEF q, w, W
    <3>4. q * W = W * q /\ (q - 1) * W = W * q - W /\ W * q \in Int
      BY <2>1, <3>2, SMT
    <3>5. len + W - 1 = W * q + w /\ w \in Nat /\ w < W
      BY <2>1, <3>2, SMT
    <3> DEFINE m == W * q
    <3>6. NWords(len) * W = m /\ (NWords(len) - 1) * W = m - W
      BY <3>3, <3>4
    <3> HIDE DEF m
    <3> QED BY <2>1, <2>2, <3>4, <3>5, <3>6, SMT DEF m
  <2> QED BY <2>5, <2>6, <2>7
<1> QED BY <1>1, ReachedHolds, PTL

------------------------------------------------------------------------------
(* A sum over a set, as the libraries define it: one element after the      *)
(* other, whichever CHOOSE names next.                                      *)
Next1(s) == CHOOSE x \in s : TRUE
Sums(f, h) == h = [s \in SUBSET DOMAIN f |-> IF s = {} THEN 0 ELSE f[Next1(s)] + h[s \ {Next1(s)}]]
SumOver(f) == CHOOSE h : Sums(f, h)

(* Induction on the subsets of a finite set, one element less.              *)
LEMMA SubsetInduction ==
  ASSUME NEW S, IsFiniteSet(S), NEW G, {} \in G,
         \A s \in SUBSET S : s # {} /\ (\A x \in s : s \ {x} \in G) => s \in G
  PROVE  SUBSET S \subseteq G
<1> SUFFICES ASSUME NEW b \in SUBSET S, b \notin G PROVE FALSE
  OBVIOUS
<1> DEFINE Sizes == {n \in Nat : \E s \in SUBSET S : s \notin G /\ Cardinality(s) = n}
<1>1. \A s \in SUBSET S : IsFiniteSet(s) /\ Cardinality(s) \in Nat
  BY FS_Subset, FS_CardinalityType
<1>2. Sizes \subseteq Nat /\ Sizes # {}
  BY <1>1
<1> HIDE DEF Sizes
<1>3. PICK n \in Sizes : \A m \in Sizes : <<m, n>> \notin OpToRel(<, Nat)
  BY <1>2, NatLessThanWellFounded, WFMin, Zenon
<1>4. \A m \in Sizes : ~(m < n)
  BY <1>2, <1>3, Zenon DEF OpToRel
<1>5. PICK s \in SUBSET S : s \notin G /\ Cardinality(s) = n
  BY <1>3 DEF Sizes
<1>6. s # {}
  BY <1>5
<1>7. PICK x \in s : s \ {x} \notin G
  BY <1>5, <1>6
<1>8. Cardinality(s \ {x}) = n - 1 /\ n \in Nat /\ s \ {x} \in SUBSET S
  BY <1>1, <1>5, FS_RemoveElement
<1>9. n - 1 \in Sizes
  BY <1>1, <1>7, <1>8 DEF Sizes
<1> QED BY <1>4, <1>8, <1>9

LEMMA NextIsOne ==
  ASSUME NEW s, s # {}
  PROVE  Next1(s) \in s
BY DEF Next1

(* Such a sum exists, ...                                                   *)
LEMMA SumExists ==
  ASSUME NEW f, IsFiniteSet(DOMAIN f)
  PROVE  Sums(f, SumOver(f))
<1> DEFINE S == DOMAIN f
           D(n) == {s \in SUBSET S : Cardinality(s) <= n}
           Good == {n \in Nat : \E h : h = [s \in D(n) |-> IF s = {} THEN 0 ELSE f[Next1(s)] + h[s \ {Next1(s)}]]}
<1>1. \A s \in SUBSET S : IsFiniteSet(s) /\ Cardinality(s) \in Nat
  BY FS_Subset, FS_CardinalityType
<1>2. 0 \in Good
  <2>1. D(0) = {{}}
    <3>1. ASSUME NEW s \in D(0) PROVE s = {}
      <4>1. Cardinality(s) = 0
        BY <1>1
      <4> QED BY <1>1, <4>1, FS_EmptySet
    <3>2. {} \in D(0)
      BY FS_EmptySet
    <3> QED BY <3>1, <3>2
  <2> DEFINE h == [s \in D(0) |-> 0]
  <2>2. h = [s \in D(0) |-> IF s = {} THEN 0 ELSE f[Next1(s)] + h[s \ {Next1(s)}]]
    BY <2>1
  <2> QED BY <2>2
<1>3. ASSUME NEW n \in Good PROVE n + 1 \in Good
  <2>1. PICK h : h = [s \in D(n) |-> IF s = {} THEN 0 ELSE f[Next1(s)] + h[s \ {Next1(s)}]]
    OBVIOUS
  <2> DEFINE k == [s \in D(n + 1) |-> IF s = {} THEN 0 ELSE f[Next1(s)] + h[s \ {Next1(s)}]]
  <2>2. ASSUME NEW s \in D(n + 1), s # {}
        PROVE  s \ {Next1(s)} \in D(n) /\ s \ {Next1(s)} \in D(n + 1)
    <3>1. s \in SUBSET S /\ Cardinality(s) <= n + 1 /\ Cardinality(s) \in Nat /\ IsFiniteSet(s) /\ n \in Nat
      BY <1>1
    <3>2. Cardinality(s \ {Next1(s)}) = Cardinality(s) - 1
      BY <2>2, <3>1, NextIsOne, FS_RemoveElement
    <3> QED BY <3>1, <3>2
  <2>3. \A s \in D(n) : s \in D(n + 1)
    BY <1>1
  <2>4. ASSUME NEW s \in D(n) PROVE k[s] = h[s]
    <3>1. h[s] = IF s = {} THEN 0 ELSE f[Next1(s)] + h[s \ {Next1(s)}]
      BY <2>1
    <3>2. k[s] = IF s = {} THEN 0 ELSE f[Next1(s)] + h[s \ {Next1(s)}]
      BY <2>3
    <3> QED BY <3>1, <3>2
  <2>5. ASSUME NEW s \in D(n + 1)
        PROVE  k[s] = IF s = {} THEN 0 ELSE f[Next1(s)] + k[s \ {Next1(s)}]
    <3>1. k[s] = IF s = {} THEN 0 ELSE f[Next1(s)] + h[s \ {Next1(s)}]
      OBVIOUS
    <3>2. CASE s = {}
      BY <3>1, <3>2
    <3>3. CASE s # {}
      <4>1. k[s \ {Next1(s)}] = h[s \ {Next1(s)}]
        BY <2>2, <2>4, <3>3
      <4> HIDE DEF k
      <4> QED BY <3>1, <3>3, <4>1
    <3> QED BY <3>2, <3>3
  <2>6. k = [s \in D(n + 1) |-> IF s = {} THEN 0 ELSE f[Next1(s)] + k[s \ {Next1(s)}]]
    <3> DEFINE k2 == [s \in D(n + 1) |-> IF s = {} THEN 0 ELSE f[Next1(s)] + k[s \ {Next1(s)}]]
    <3>1. \A s \in D(n + 1) : k[s] = k2[s]
      BY <2>5
    <3>2. DOMAIN k = D(n + 1) /\ DOMAIN k2 = D(n + 1)
      OBVIOUS
    <3>3. k = [s \in D(n + 1) |-> k[s]] /\ k2 = [s \in D(n + 1) |-> k2[s]]
      OBVIOUS
    <3> HIDE DEF k, k2
    <3>4. k = k2
      BY <3>1, <3>3, Zenon
    <3> QED BY <3>4 DEF k2
  <2>7. n + 1 \in Nat
    OBVIOUS
  <2> HIDE DEF k, D
  <2> QED BY <2>6, <2>7
<1>4. Nat \subseteq Good
  <2> SUFFICES ASSUME NEW b \in Nat, b \notin Good PROVE FALSE
    OBVIOUS
  <2> DEFINE Bad == {n \in Nat : n \notin Good}
  <2>1. Bad \subseteq Nat /\ Bad # {}
    OBVIOUS
  <2> HIDE DEF Bad
  <2>2. PICK n \in Bad : \A m \in Bad : <<m, n>> \notin OpToRel(<, Nat)
    BY <2>1, NatLessThanWellFounded, WFMin, Zenon
  <2>3. \A m \in Bad : ~(m < n)
    BY <2>1, <2>2, Zenon DEF OpToRel
  <2>4. n \in Nat /\ n \notin Good
    BY <2>2 DEF Bad
  <2> HIDE DEF Good
  <2>5. n - 1 \in Nat /\ n - 1 < n /\ (n - 1) + 1 = n
    BY <1>2, <2>4
  <2>6. n - 1 \in Good
    BY <2>3, <2>5 DEF Bad
  <2>7. (n - 1) + 1 \in Good
    BY <1>3, <2>6
  <2> QED BY <2>4, <2>5, <2>7
<1>5. \E h : Sums(f, h)
  <2>1. Cardinality(S) \in Nat /\ \A s \in SUBSET S : Cardinality(s) <= Cardinality(S)
    BY FS_CardinalityType, FS_Subset
  <2>2. D(Cardinality(S)) = SUBSET S
    BY <2>1
  <2>3. Cardinality(S) \in Good
    BY <1>4, <2>1
  <2> QED BY <2>2, <2>3 DEF Sums
<1> QED BY <1>5 DEF SumOver

(* ... is what SumFunction gives, ...                                       *)
LEMMA SumIsSumOver ==
  ASSUME NEW f
  PROVE  SumFunction(f) = SumOver(f)[DOMAIN f]
BY DEF SumFunction, SumFunctionOnSet, FoldFunctionOnSet, MapThenFoldSet, SumOver, Sums, Next1

LEMMA SumStep ==
  ASSUME NEW f, IsFiniteSet(DOMAIN f)
  PROVE  /\ SumOver(f)[{}] = 0
         /\ \A s \in SUBSET DOMAIN f :
              s # {} => SumOver(f)[s] = f[Next1(s)] + SumOver(f)[s \ {Next1(s)}]
<1>1. Sums(f, SumOver(f))
  BY SumExists
<1> DEFINE h == SumOver(f)
<1> HIDE DEF h
<1>2. h = [s \in SUBSET DOMAIN f |-> IF s = {} THEN 0 ELSE f[Next1(s)] + h[s \ {Next1(s)}]]
  BY <1>1 DEF Sums, h
<1>3. \A s \in SUBSET DOMAIN f : h[s] = IF s = {} THEN 0 ELSE f[Next1(s)] + h[s \ {Next1(s)}]
  BY <1>2
<1> QED BY <1>3 DEF h

LEMMA SumIsInt ==
  ASSUME NEW S, IsFiniteSet(S), NEW f \in [S -> Int]
  PROVE  \A s \in SUBSET S : SumOver(f)[s] \in Int
<1> DEFINE G == {s \in SUBSET S : SumOver(f)[s] \in Int}
<1>1. {} \in G
  BY SumStep
<1>2. ASSUME NEW s \in SUBSET S, s # {}, \A x \in s : s \ {x} \in G PROVE s \in G
  <2>1. SumOver(f)[s] = f[Next1(s)] + SumOver(f)[s \ {Next1(s)}]
    BY <1>2, SumStep
  <2>2. Next1(s) \in s
    BY <1>2, NextIsOne
  <2>3. f[Next1(s)] \in Int /\ SumOver(f)[s \ {Next1(s)}] \in Int
    BY <1>2, <2>2
  <2> QED BY <2>1, <2>3
<1>3. SUBSET S \subseteq G
  <2> HIDE DEF G
  <2> QED BY <1>1, <1>2, SubsetInduction
<1> QED BY <1>3

(* ... and does not depend on which element is taken first.                 *)
LEMMA AnyFirst ==
  ASSUME NEW S, IsFiniteSet(S), NEW f \in [S -> Int], NEW t \in SUBSET S, NEW u \in t
  PROVE  SumOver(f)[t] = f[u] + SumOver(f)[t \ {u}]
<1> DEFINE h == SumOver(f)
           G == {s \in SUBSET S : \A x \in s : h[s] = f[x] + h[s \ {x}]}
<1>1. /\ \A s \in SUBSET S : h[s] \in Int
      /\ \A s \in SUBSET S : s # {} => h[s] = f[Next1(s)] + h[s \ {Next1(s)}]
  BY SumIsInt, SumStep
<1> HIDE DEF h
<1>2. {} \in G
  OBVIOUS
<1>3. ASSUME NEW s \in SUBSET S, s # {}, \A x \in s : s \ {x} \in G PROVE s \in G
  <2> SUFFICES ASSUME NEW x \in s PROVE h[s] = f[x] + h[s \ {x}]
    OBVIOUS
  <2> DEFINE y == Next1(s)
  <2>1. y \in s /\ h[s] = f[y] + h[s \ {y}]
    BY <1>1, <1>3, NextIsOne
  <2> HIDE DEF y
  <2>2. CASE x = y
    BY <2>1, <2>2
  <2>3. CASE x # y
    <3>1. x \in s \ {y} /\ y \in s \ {x}
      BY <2>1, <2>3
    <3>2. h[s \ {y}] = f[x] + h[(s \ {y}) \ {x}]
      BY <1>3, <2>1, <3>1
    <3>3. h[s \ {x}] = f[y] + h[(s \ {x}) \ {y}]
      BY <1>3, <3>1
    <3>4. (s \ {y}) \ {x} = (s \ {x}) \ {y}
      OBVIOUS
    <3> DEFINE r == h[(s \ {x}) \ {y}]
    <3>5. r \in Int /\ f[x] \in Int /\ f[y] \in Int
      BY <1>1, <2>1
    <3>6. h[s \ {y}] = f[x] + r /\ h[s \ {x}] = f[y] + r
      BY <3>2, <3>3, <3>4
    <3> HIDE DEF r
    <3> QED BY <2>1, <3>5, <3>6
  <2> QED BY <2>2, <2>3
<1>4. SUBSET S \subseteq G
  <2> HIDE DEF G
  <2> QED BY <1>2, <1>3, SubsetInduction
<1> QED BY <1>4 DEF h, G

(* Numbers added in another order: r trades every place for another.        *)
Turns(r, f, g, S) ==
  /\ f \in [S -> Int] /\ g \in [S -> Int] /\ r \in [S -> S]
  /\ \A i \in S : r[r[i]] = i /\ g[i] = f[r[i]]

LEMMA SumTurned ==
  ASSUME NEW S, IsFiniteSet(S), NEW f, NEW g, NEW r, Turns(r, f, g, S)
  PROVE  SumFunction(g) = SumFunction(f)
<1> USE DEF Turns
<1> DEFINE a == SumOver(f)
           b == SumOver(g)
           R(s) == {r[i] : i \in s}
           G == {s \in SUBSET S : b[R(s)] = a[s]}
<1>1. ASSUME NEW t \in SUBSET S, NEW u \in t
      PROVE  a[t] = f[u] + a[t \ {u}]
  BY AnyFirst, SMT
<1>2. ASSUME NEW t \in SUBSET S, NEW u \in t
      PROVE  b[t] = g[u] + b[t \ {u}]
  BY AnyFirst, SMT
<1>3. a[{}] = 0 /\ b[{}] = 0
  BY SumStep
<1> HIDE DEF a, b
<1>4. \A s \in SUBSET S : R(s) \in SUBSET S
  OBVIOUS
<1>5. {} \in G
  <2>1. R({}) = {}
    OBVIOUS
  <2> QED BY <1>3, <2>1
<1>6. ASSUME NEW s \in SUBSET S, s # {}, \A x \in s : s \ {x} \in G PROVE s \in G
  <2>1. PICK x \in s : TRUE
    BY <1>6
  <2>2. x \in S /\ r[x] \in S /\ r[r[x]] = x /\ r[x] \in R(s)
    OBVIOUS
  <2>3. R(s) \ {r[x]} = R(s \ {x})
    <3>1. \A i \in s : r[i] = r[x] <=> i = x
      BY <2>2
    <3>2. ASSUME NEW z PROVE z \in R(s) \ {r[x]} <=> z \in R(s \ {x})
      BY <3>1
    <3> QED BY <3>2
  <2>4. a[s] = f[x] + a[s \ {x}]
    BY <1>1
  <2>5. b[R(s)] = g[r[x]] + b[R(s) \ {r[x]}]
    BY <1>2, <1>4, <2>2
  <2>6. b[R(s \ {x})] = a[s \ {x}]
    BY <1>6
  <2>7. g[r[x]] = f[x]
    BY <2>2
  <2> HIDE DEF R
  <2> QED BY <2>3, <2>4, <2>5, <2>6, <2>7
<1>7. SUBSET S \subseteq G
  <2> HIDE DEF G
  <2> QED BY <1>5, <1>6, SubsetInduction
<1>8. b[R(S)] = a[S]
  BY <1>7
<1>9. R(S) = S
  OBVIOUS
<1>10. SumFunction(f) = a[S] /\ SumFunction(g) = b[S]
  BY SumIsSumOver DEF a, b
<1> QED BY <1>8, <1>9, <1>10

------------------------------------------------------------------------------
LEMMA PowersOfTwo ==
  ASSUME NEW n \in Nat
  PROVE  2^n \in Nat /\ 2^n >= 1 /\ (n # 0 => 2^n >= 2)
<1> DEFINE S == 1 .. n
<1>1. IsFiniteSet(S) /\ Cardinality(S) = n
  <2>1. 1 \in Int /\ n \in Int
    OBVIOUS
  <2>2. IsFiniteSet(S) /\ Cardinality(S) = IF 1 > n THEN 0 ELSE (n - 1) + 1
    BY <2>1, FS_Interval
  <2> QED BY <2>2
<1>2. IsFiniteSet(SUBSET S) /\ Cardinality(SUBSET S) = 2^n
  BY <1>1, FS_SUBSET
<1>3. 2^n \in Nat
  BY <1>2, FS_CardinalityType
<1>4. 2^n >= 1
  <2>1. SUBSET S # {}
    OBVIOUS
  <2> HIDE DEF S
  <2>2. Cardinality(SUBSET S) # 0
    BY <1>2, <2>1, FS_EmptySet
  <2> QED BY <1>2, <1>3, <2>2
<1>5. ASSUME n # 0 PROVE 2^n >= 2
  <2> DEFINE T == (SUBSET S) \ {{}}
  <2>1. {} \in SUBSET S /\ S \in T
    <3>1. 1 \in S
      BY <1>5
    <3> QED BY <3>1
  <2> HIDE DEF S
  <2>2. IsFiniteSet(T) /\ Cardinality(T) = Cardinality(SUBSET S) - 1
    BY <1>2, <2>1, FS_RemoveElement
  <2>3. T # {}
    BY <2>1
  <2>4. Cardinality(T) \in Nat /\ Cardinality(T) # 0
    BY <2>2, <2>3, FS_CardinalityType, FS_EmptySet
  <2> QED BY <1>2, <1>3, <2>2, <2>4
<1> QED BY <1>3, <1>4, <1>5

(* What a multiplier hands the tree.                                        *)
Lane == [s : {0, 1}, nan : BOOLEAN, inf : BOOLEAN, e : Int, m : Nat]

LEMMA Widths ==
  /\ MaxExp \in Nat /\ MaxExp >= 1 /\ Bias \in Nat /\ Man \in Nat
  /\ 2^FracBits \in Nat /\ 2^FracBits >= 1 /\ 2^Pad \in Nat
  /\ BfZero \in Bf /\ ~IsInf(BfZero) /\ ~IsNan(BfZero) /\ IsZero(BfZero)
<1>1. ExpBits \in Nat /\ ExpBits # 0 /\ ExpBits - 1 \in Nat /\ FracBits \in Nat /\ Pad \in Nat
  BY MacAssumption
<1>2. 2^ExpBits \in Nat /\ 2^ExpBits >= 2
  BY <1>1, PowersOfTwo
<1>3. 2^(ExpBits - 1) \in Nat /\ 2^(ExpBits - 1) >= 1
  BY <1>1, PowersOfTwo
<1>4. 2^FracBits \in Nat /\ 2^FracBits >= 1 /\ 2^Pad \in Nat
  BY <1>1, PowersOfTwo
<1>5. MaxExp \in Nat /\ MaxExp >= 1 /\ Bias \in Nat /\ Man \in Nat
  BY <1>1, <1>2, <1>3 DEF MaxExp, Bias, Man
<1>6. BfZero \in Bf
  BY <1>4, <1>5 DEF BfZero, Bf
<1>7. ~IsInf(BfZero) /\ ~IsNan(BfZero) /\ IsZero(BfZero)
  BY <1>5 DEF BfZero, IsInf, IsNan, IsZero
<1> QED BY <1>4, <1>5, <1>6, <1>7

LEMMA MulIsLane ==
  ASSUME NEW a \in Bf, NEW b \in Bf
  PROVE  Mul(a, b) \in Lane
<1>1. a.s \in {0, 1} /\ b.s \in {0, 1} /\ a.e \in Nat /\ b.e \in Nat /\ a.f \in Nat /\ b.f \in Nat
  BY Widths DEF Bf
<1>2. (a.s + b.s) % 2 \in {0, 1}
  BY <1>1
<1>3. MulNan(a, b) \in BOOLEAN /\ MulInf(a, b) \in BOOLEAN
  BY DEF MulNan, MulInf, IsNan, IsInf, IsZero
<1>4. MulExp(a, b) \in Int
  BY <1>1, Widths DEF MulExp, Effective
<1>5. Hidden(a) \in Nat /\ Hidden(b) \in Nat
  BY <1>1, Widths DEF Hidden
<1>6. Hidden(a) * Hidden(b) \in Nat
  BY <1>5
<1> QED BY <1>2, <1>3, <1>4, <1>6 DEF Mul, Lane

(* A lane that meets a zero of the vector: nothing but a sign, or a NaN.    *)
LEMMA DeadLane ==
  ASSUME NEW g \in Bf
  PROVE  /\ Finite(g) => /\ ~Mul(g, BfZero).nan /\ ~Mul(g, BfZero).inf
                         /\ Mul(g, BfZero).e = 0 /\ Mul(g, BfZero).m = 0
         /\ ~Finite(g) => Mul(g, BfZero).nan
<1>1. Finite(g) => ~IsInf(g) /\ ~IsNan(g)
  BY DEF Finite, IsInf, IsNan
<1>2. ~Finite(g) => IsInf(g) \/ IsNan(g)
  BY DEF Finite, IsInf, IsNan
<1> QED BY <1>1, <1>2, Widths DEF Mul, MulNan, MulInf, MulExp

(* The largest exponent of a beat is one of its lanes'.                     *)
LEMMA TopIsLargest ==
  ASSUME NEW p \in [1 .. Lanes -> Lane]
  PROVE  TopExp(p) \in Int /\ \A i \in 1 .. Lanes : TopExp(p) - p[i].e \in Nat
<1> DEFINE S == 1 .. Lanes
           G == {t \in SUBSET S : t # {} => \E i \in t : \A j \in t : p[j].e <= p[i].e}
<1>1. IsFiniteSet(S) /\ Lanes \in Nat /\ 1 \in S
  <2>1. 1 \in Int /\ Lanes \in Int /\ Lanes >= 1
    BY MacAssumption
  <2> QED BY <2>1, FS_Interval
<1>2. \A i \in S : p[i].e \in Int
  BY DEF Lane
<1>3. {} \in G
  OBVIOUS
<1> HIDE DEF S
<1>4. ASSUME NEW t \in SUBSET S, t # {}, \A x \in t : t \ {x} \in G PROVE t \in G
  <2>1. PICK x \in t : TRUE
    BY <1>4
  <2>2. CASE t \ {x} = {}
    <3>1. \A j \in t : j = x
      BY <2>2
    <3>2. \A j \in t : p[j].e <= p[x].e
      BY <1>2, <3>1
    <3> QED BY <3>2
  <2>3. CASE t \ {x} # {}
    <3>1. PICK i \in t \ {x} : \A j \in t \ {x} : p[j].e <= p[i].e
      BY <1>4, <2>3
    <3>2. i \in S /\ x \in S /\ p[i].e \in Int /\ p[x].e \in Int
      BY <1>2
    <3>3. CASE p[x].e <= p[i].e
      BY <3>1, <3>3
    <3>4. CASE p[i].e <= p[x].e
      <4>1. \A j \in t : p[j].e \in Int
        BY <1>2
      <4>2. \A j \in t : p[j].e <= p[x].e
        BY <3>1, <3>2, <3>4, <4>1
      <4> QED BY <4>2
    <3> QED BY <3>2, <3>3, <3>4
  <2> QED BY <2>2, <2>3
<1>5. SUBSET S \subseteq G
  <2> HIDE DEF G
  <2> QED BY <1>1, <1>3, <1>4, SubsetInduction
<1>6. PICK i \in S : \A j \in S : p[j].e <= p[i].e
  BY <1>1, <1>5
<1> DEFINE E == {p[k].e : k \in DOMAIN p}
<1>7. DOMAIN p = S
  BY DEF S
<1>8. p[i].e \in E /\ \A y \in E : p[i].e >= y
  BY <1>2, <1>6, <1>7
<1>9. TopExp(p) = CHOOSE x \in E : \A y \in E : x >= y
  BY DEF TopExp, Sets!Max
<1> HIDE DEF E
<1>10. TopExp(p) \in E /\ \A y \in E : TopExp(p) >= y
  BY <1>8, <1>9
<1>11. \A k \in S : p[k].e \in E
  BY <1>7 DEF E
<1>12. E \subseteq Int
  BY <1>2, <1>7 DEF E
<1>13. TopExp(p) \in Int
  BY <1>10, <1>12
<1>14. ASSUME NEW k \in S PROVE TopExp(p) - p[k].e \in Nat
  <2>1. TopExp(p) >= p[k].e /\ p[k].e \in Int
    BY <1>2, <1>10, <1>11
  <2> QED BY <1>13, <2>1
<1> QED BY <1>13, <1>14 DEF S

LEMMA AlignedIsInt ==
  ASSUME NEW lane \in Lane, NEW top \in Int, top - lane.e \in Nat
  PROVE  Aligned(lane, top) \in Int /\ (lane.m = 0 => Aligned(lane, top) = 0)
<1>1. lane.m \in Nat /\ 2^Pad \in Nat
  BY Widths DEF Lane
<1>2. lane.m * 2^Pad \in Nat /\ (lane.m = 0 => lane.m * 2^Pad = 0)
  BY <1>1
<1> DEFINE v == lane.m * 2^Pad
           d == 2^(top - lane.e)
<1>3. d \in Nat /\ d >= 1
  BY PowersOfTwo
<1>4. Aligned(lane, top) = Signed(lane.s, IF top - lane.e >= Man THEN 0 ELSE v \div d)
  BY DEF Aligned, Floor
<1> HIDE DEF v, d
<1>5. v \in Nat /\ (lane.m = 0 => v = 0)
  BY <1>2 DEF v
<1>6. v \div d \in Nat /\ (v = 0 => v \div d = 0)
  BY <1>3, <1>5
<1> DEFINE z == IF top - lane.e >= Man THEN 0 ELSE v \div d
<1>7. z \in Nat /\ (lane.m = 0 => z = 0)
  BY <1>5, <1>6
<1>8. Aligned(lane, top) = Signed(lane.s, z)
  BY <1>4
<1> HIDE DEF z
<1> QED BY <1>7, <1>8 DEF Signed

(* Lanes in the opposite order, a sign changed where there is no product:   *)
(* the same beat.                                                           *)
LEMMA SameBeat ==
  ASSUME NEW p \in [1 .. Lanes -> Lane], NEW q \in [1 .. Lanes -> Lane],
         \A i \in 1 .. Lanes :
           LET a == p[(Lanes + 1) - i]
               b == q[i]
           IN  /\ b.e = a.e /\ b.m = a.m /\ b.nan = a.nan /\ b.inf = a.inf
               /\ b.s = a.s \/ (a.m = 0 /\ ~a.inf)
  PROVE  Beat(q) = Beat(p)
<1> DEFINE S == 1 .. Lanes
           r == [i \in S |-> (Lanes + 1) - i]
<1>1. IsFiniteSet(S) /\ Lanes \in Nat
  <2>1. 1 \in Int /\ Lanes \in Int /\ Lanes \in Nat
    BY MacAssumption
  <2> QED BY <2>1, FS_Interval
<1>2. r \in [S -> S] /\ \A i \in S : r[i] = (Lanes + 1) - i /\ r[r[i]] = i
  BY <1>1
<1>3. DOMAIN p = S /\ DOMAIN q = S /\ \A i \in S : p[i] \in Lane /\ q[i] \in Lane
  OBVIOUS
<1>4. \A i \in S : /\ q[i].e = p[r[i]].e /\ q[i].m = p[r[i]].m
                   /\ q[i].nan = p[r[i]].nan /\ q[i].inf = p[r[i]].inf
                   /\ q[i].s = p[r[i]].s \/ (p[r[i]].m = 0 /\ ~p[r[i]].inf)
  BY <1>2
<1>5. TopExp(p) \in Int /\ \A i \in S : TopExp(p) - p[i].e \in Nat
  BY TopIsLargest
<1> HIDE DEF S, r
<1>6. TopExp(q) = TopExp(p)
  <2>1. {q[i].e : i \in S} = {p[i].e : i \in S}
    <3>1. ASSUME NEW i \in S PROVE q[i].e \in {p[k].e : k \in S}
      BY <1>2, <1>4
    <3>2. ASSUME NEW i \in S PROVE p[i].e \in {q[k].e : k \in S}
      <4>1. r[i] \in S /\ r[r[i]] = i
        BY <1>2
      <4>2. p[i].e = q[r[i]].e
        BY <1>4, <4>1
      <4> QED BY <4>1, <4>2
    <3> QED BY <3>1, <3>2
  <2> QED BY <1>3, <2>1 DEF TopExp
<1> DEFINE top == TopExp(p)
           f == [i \in S |-> Aligned(p[i], top)]
           g == [i \in S |-> Aligned(q[i], top)]
<1> HIDE DEF top
<1>7. f \in [S -> Int]
  BY <1>3, <1>5, AlignedIsInt DEF top
<1>8. \A i \in S : top - q[i].e \in Nat
  BY <1>2, <1>4, <1>5 DEF top
<1>9. g \in [S -> Int]
  BY <1>3, <1>5, <1>8, AlignedIsInt DEF top
<1>10. ASSUME NEW i \in S PROVE g[i] = f[r[i]]
  <2>1. r[i] \in S /\ g[i] = Aligned(q[i], top) /\ f[r[i]] = Aligned(p[r[i]], top)
    BY <1>2
  <2>2. CASE q[i].s = p[r[i]].s
    BY <1>4, <2>1, <2>2 DEF Aligned
  <2>3. CASE p[r[i]].m = 0
    <3>1. q[i].m = 0 /\ top - q[i].e \in Nat /\ top - p[r[i]].e \in Nat /\ top \in Int
      BY <1>4, <1>5, <1>8, <2>1, <2>3 DEF top
    <3>2. Aligned(q[i], top) = 0
      BY <1>3, <3>1, AlignedIsInt
    <3>3. Aligned(p[r[i]], top) = 0
      BY <1>3, <2>1, <2>3, <3>1, AlignedIsInt
    <3> QED BY <2>1, <3>2, <3>3
  <2> QED BY <1>4, <2>2, <2>3
<1>11. TreeSum(q, top) = TreeSum(p, top)
  <2>1. TreeSum(p, top) = SumFunction(f) /\ TreeSum(q, top) = SumFunction(g)
    BY <1>3 DEF TreeSum
  <2>2. \A i \in S : r[r[i]] = i /\ g[i] = f[r[i]]
    BY <1>2, <1>10
  <2> HIDE DEF f, g
  <2>3. Turns(r, f, g, S)
    BY <1>2, <1>7, <1>9, <2>2 DEF Turns
  <2>4. SumFunction(g) = SumFunction(f)
    BY <1>1, <2>3, SumTurned
  <2> QED BY <2>1, <2>4
<1>12. ASSUME NEW c \in {0, 1}
       PROVE  (\E i \in S : q[i].inf /\ q[i].s = c) <=> (\E i \in S : p[i].inf /\ p[i].s = c)
  <2>1. ASSUME NEW i \in S, q[i].inf, q[i].s = c PROVE \E k \in S : p[k].inf /\ p[k].s = c
    <3>1. r[i] \in S /\ p[r[i]].inf /\ p[r[i]].s = c
      BY <1>2, <1>4, <2>1
    <3> QED BY <3>1
  <2>2. ASSUME NEW i \in S, p[i].inf, p[i].s = c PROVE \E k \in S : q[k].inf /\ q[k].s = c
    <3>1. r[i] \in S /\ r[r[i]] = i
      BY <1>2
    <3>2. q[r[i]].inf /\ q[r[i]].s = c
      BY <1>4, <2>2, <3>1
    <3> QED BY <3>1, <3>2
  <2> QED BY <2>1, <2>2
<1>13. (\E i \in S : q[i].nan) <=> (\E i \in S : p[i].nan)
  <2>1. ASSUME NEW i \in S, q[i].nan PROVE \E k \in S : p[k].nan
    BY <1>2, <1>4, <2>1
  <2>2. ASSUME NEW i \in S, p[i].nan PROVE \E k \in S : q[k].nan
    <3>1. r[i] \in S /\ r[r[i]] = i
      BY <1>2
    <3>2. q[r[i]].nan
      BY <1>4, <2>2, <3>1
    <3> QED BY <3>1, <3>2
  <2> QED BY <2>1, <2>2
<1> DEFINE sum == TreeSum(p, top)
<1> HIDE DEF sum
<1>14. Beat(q) = Tree(q, sum, top) /\ Beat(p) = Tree(p, sum, top)
  BY <1>6, <1>11 DEF Beat, top, sum
<1>15. Tree(q, sum, top) = Tree(p, sum, top)
  <2>1. (\E i \in DOMAIN q : q[i].inf /\ q[i].s = 0) = (\E i \in DOMAIN p : p[i].inf /\ p[i].s = 0)
    <3>1. 0 \in {0, 1} /\ DOMAIN p = S /\ DOMAIN q = S
      BY <1>3
    <3>2. (\E i \in S : q[i].inf /\ q[i].s = 0) <=> (\E i \in S : p[i].inf /\ p[i].s = 0)
      BY <1>12, <3>1, Zenon
    <3> QED BY <3>1, <3>2, Zenon
  <2>2. (\E i \in DOMAIN q : q[i].inf /\ q[i].s = 1) = (\E i \in DOMAIN p : p[i].inf /\ p[i].s = 1)
    <3>1. 1 \in {0, 1} /\ DOMAIN p = S /\ DOMAIN q = S
      BY <1>3
    <3>2. (\E i \in S : q[i].inf /\ q[i].s = 1) <=> (\E i \in S : p[i].inf /\ p[i].s = 1)
      BY <1>12, <3>1, Zenon
    <3> QED BY <3>1, <3>2, Zenon
  <2>3. (\E i \in DOMAIN q : q[i].nan) = (\E i \in DOMAIN p : p[i].nan)
    BY <1>3, <1>13
  <2> QED BY <2>1, <2>2, <2>3, Zenon DEF Tree
<1> QED BY <1>14, <1>15

(* One lane that is not a number makes the beat one.                        *)
LEMMA NanBeat ==
  ASSUME NEW p, NEW i \in DOMAIN p, p[i].nan
  PROVE  Beat(p).nan
BY DEF Beat, Tree, Ingest

------------------------------------------------------------------------------
(* What the model multiplies and what the card does, lane by lane.          *)
LEMMA CleanLane ==
  ASSUME NEW n \in Live, NEW w \in [1 .. n -> Weight], NEW x \in [1 .. n -> Operand], NEW i \in 1 .. Lanes
  PROVE  /\ DOMAIN Clean(w, x, n) = 1 .. Lanes
         /\ Clean(w, x, n)[i] = IF i <= n THEN Mul(w[i], x[i]) ELSE Mul(BfZero, BfZero)
         /\ Clean(w, x, n)[i] \in Lane
<1>1. DOMAIN Clean(w, x, n) = 1 .. Lanes
  BY DEF Clean, Products, Padded
<1>2. Clean(w, x, n)[i] = IF i <= n THEN Mul(w[i], x[i]) ELSE Mul(BfZero, BfZero)
  BY DEF Clean, Products, Padded
<1>3. n \in Nat /\ Lanes \in Nat
  BY BankAssumption, MacAssumption
<1>4. i <= n => w[i] \in Bf /\ x[i] \in Bf
  BY <1>3, BankAssumption
<1> QED BY <1>1, <1>2, <1>4, MulIsLane, Widths

LEMMA RealLane ==
  ASSUME NEW n \in Live, NEW w \in [1 .. n -> Weight], NEW x \in [1 .. n -> Operand], NEW g \in Bf,
         NEW i \in 1 .. Lanes
  PROVE  LET k == (Lanes + 1) - i
         IN  /\ DOMAIN Real(w, x, n, g) = 1 .. Lanes
             /\ k \in 1 .. Lanes
             /\ Real(w, x, n, g)[i] = IF k <= n THEN Mul(w[k], x[k]) ELSE Mul(g, BfZero)
             /\ Real(w, x, n, g)[i] \in Lane
<1> DEFINE k == (Lanes + 1) - i
<1>1. n \in Nat /\ Lanes \in Nat
  BY BankAssumption, MacAssumption
<1>2. k \in 1 .. Lanes
  BY <1>1
<1>3. DOMAIN Real(w, x, n, g) = 1 .. Lanes
  BY DEF Real, Products, Turned
<1>4. Real(w, x, n, g)[i] = IF k <= n THEN Mul(w[k], x[k]) ELSE Mul(g, BfZero)
  <2>1. Real(w, x, n, g)[i] = Mul(Turned(Padded(w, n, g))[i], Turned(Padded(x, n, BfZero))[i])
    BY DEF Real, Products, Turned
  <2>2. /\ Turned(Padded(w, n, g))[i] = Padded(w, n, g)[k]
        /\ Turned(Padded(x, n, BfZero))[i] = Padded(x, n, BfZero)[k]
    <3>1. Lanes + (1 - i) = k
      BY <1>1
    <3> HIDE DEF k
    <3> QED BY <3>1 DEF Turned
  <2> HIDE DEF k
  <2>3. /\ Padded(w, n, g)[k] = IF k <= n THEN w[k] ELSE g
        /\ Padded(x, n, BfZero)[k] = IF k <= n THEN x[k] ELSE BfZero
    BY <1>2 DEF Padded
  <2> QED BY <2>1, <2>2, <2>3
<1> HIDE DEF k
<1>5. k <= n => w[k] \in Bf /\ x[k] \in Bf
  BY <1>1, <1>2, BankAssumption
<1>6. Real(w, x, n, g)[i] \in Lane
  BY <1>4, <1>5, MulIsLane, Widths
<1> QED BY <1>2, <1>3, <1>4, <1>6 DEF k

(* So the two agree on a beat, unless a dead lane holds an infinity or a    *)
(* NaN: then the card's is not a number.                                    *)
LEMMA BeatsAgree ==
  ASSUME NEW b \in Beats
  PROVE  IF b.bad THEN b.r.nan ELSE b.r = b.p
<1>0. PICK n \in Live :
        b \in {[p |-> Beat(Clean(w, x, n)), r |-> Beat(Real(w, x, n, g)), bad |-> n < Lanes /\ ~Finite(g)] :
                 w \in [1 .. n -> Weight], x \in [1 .. n -> Operand],
                 g \in (IF n < Lanes THEN Stale ELSE {BfZero})}
  BY DEF Beats
<1>1. PICK w \in [1 .. n -> Weight], x \in [1 .. n -> Operand],
           g \in (IF n < Lanes THEN Stale ELSE {BfZero}) :
        b = [p |-> Beat(Clean(w, x, n)), r |-> Beat(Real(w, x, n, g)), bad |-> n < Lanes /\ ~Finite(g)]
  BY <1>0
<1>2. g \in Bf /\ n \in 1 .. Lanes /\ Lanes \in Nat
  BY BankAssumption, MacAssumption, Widths
<1> DEFINE p == Clean(w, x, n)
           q == Real(w, x, n, g)
<1>3. \A i \in 1 .. Lanes :
        LET k == (Lanes + 1) - i
        IN  /\ k \in 1 .. Lanes /\ q[i] \in Lane /\ p[k] \in Lane
            /\ p[k] = IF k <= n THEN Mul(w[k], x[k]) ELSE Mul(BfZero, BfZero)
            /\ q[i] = IF k <= n THEN Mul(w[k], x[k]) ELSE Mul(g, BfZero)
  <2> SUFFICES ASSUME NEW i \in 1 .. Lanes, NEW k, k = (Lanes + 1) - i
               PROVE  /\ k \in 1 .. Lanes /\ q[i] \in Lane /\ p[k] \in Lane
                      /\ p[k] = IF k <= n THEN Mul(w[k], x[k]) ELSE Mul(BfZero, BfZero)
                      /\ q[i] = IF k <= n THEN Mul(w[k], x[k]) ELSE Mul(g, BfZero)
    OBVIOUS
  <2>1. /\ k \in 1 .. Lanes /\ q[i] \in Lane
        /\ q[i] = IF k <= n THEN Mul(w[k], x[k]) ELSE Mul(g, BfZero)
    BY <1>2, RealLane
  <2>2. /\ p[k] \in Lane
        /\ p[k] = IF k <= n THEN Mul(w[k], x[k]) ELSE Mul(BfZero, BfZero)
    BY <2>1, CleanLane
  <2> QED BY <2>1, <2>2
<1>4. CASE b.bad
  <2>1. n < Lanes /\ ~Finite(g)
    BY <1>1, <1>4
  <2> DEFINE i == Lanes - n
  <2>2. i \in 1 .. Lanes /\ (Lanes + 1) - i = n + 1 /\ ~(n + 1 <= n)
    BY <1>2, <2>1
  <2> HIDE DEF i, p, q
  <2>3. q[i] = Mul(g, BfZero)
    BY <1>3, <2>2
  <2>4. q[i].nan
    BY <1>2, <2>1, <2>3, DeadLane
  <2>5. i \in DOMAIN q
    BY <1>2, <2>2, RealLane DEF q
  <2>6. Beat(q).nan
    BY <2>4, <2>5, NanBeat
  <2> QED BY <1>1, <1>4, <2>6 DEF q
<1>5. CASE ~b.bad
  <2>1. n < Lanes => Finite(g)
    BY <1>1, <1>5
  <2>2. DOMAIN p = 1 .. Lanes /\ DOMAIN q = 1 .. Lanes
    <3>1. 1 \in 1 .. Lanes
      BY <1>2
    <3> QED BY <1>2, <3>1, CleanLane, RealLane
  <2>3. p \in [1 .. Lanes -> Lane] /\ q \in [1 .. Lanes -> Lane]
    <3>1. \A i \in 1 .. Lanes : p[i] \in Lane /\ q[i] \in Lane
      BY <1>2, CleanLane, RealLane
    <3>2. p = [i \in 1 .. Lanes |-> p[i]] /\ q = [i \in 1 .. Lanes |-> q[i]]
      BY <2>2 DEF Clean, Real, Products
    <3> HIDE DEF p, q
    <3> QED BY <3>1, <3>2
  <2> HIDE DEF p, q
  <2>4. ASSUME NEW i \in 1 .. Lanes
        PROVE  LET a == p[(Lanes + 1) - i]
                   c == q[i]
               IN  /\ c.e = a.e /\ c.m = a.m /\ c.nan = a.nan /\ c.inf = a.inf
                   /\ c.s = a.s \/ (a.m = 0 /\ ~a.inf)
    <3> DEFINE k == (Lanes + 1) - i
    <3>1. /\ k \in 1 .. Lanes /\ q[i] \in Lane /\ p[k] \in Lane
          /\ p[k] = IF k <= n THEN Mul(w[k], x[k]) ELSE Mul(BfZero, BfZero)
          /\ q[i] = IF k <= n THEN Mul(w[k], x[k]) ELSE Mul(g, BfZero)
      BY <1>3
    <3> HIDE DEF k
    <3>2. CASE k <= n
      BY <3>1, <3>2 DEF k
    <3>3. CASE ~(k <= n)
      <4>1. Finite(g) /\ Finite(BfZero)
        <5>1. n < Lanes
          BY <1>2, <3>1, <3>3
        <5> QED BY <2>1, <5>1, Widths DEF Finite, IsInf, IsNan
      <4>2. /\ ~q[i].nan /\ ~q[i].inf /\ q[i].e = 0 /\ q[i].m = 0
            /\ ~p[k].nan /\ ~p[k].inf /\ p[k].e = 0 /\ p[k].m = 0
        BY <1>2, <3>1, <3>3, <4>1, DeadLane, Widths
      <4>3. /\ q[i].nan \in BOOLEAN /\ q[i].inf \in BOOLEAN
            /\ p[k].nan \in BOOLEAN /\ p[k].inf \in BOOLEAN
        BY <3>1 DEF Lane
      <4> QED BY <4>2, <4>3 DEF k
    <3> QED BY <3>2, <3>3
  <2>5. Beat(q) = Beat(p)
    BY <2>3, <2>4, SameBeat
  <2> QED BY <1>1, <1>5, <2>5 DEF p, q
<1> QED BY <1>4, <1>5

(* Two accumulators that differ only in that the card's is not a number.    *)
Twins == IF tainted THEN twin = NotANumber ELSE twin = acc

LEMMA TwinsKept ==
  ASSUME Twins, [Feed]_bank
  PROVE  Twins'
<1>1. CASE UNCHANGED bank
  BY <1>1 DEF Twins, bank
<1>2. CASE Drain
  BY <1>2 DEF Twins, Drain
<1>3. ASSUME NEW b \in Beats, Mac(b) PROVE Twins'
  <2>1. NotANumber.nan = TRUE
    BY DEF NotANumber, Empty
  <2>2. tainted' = (tainted \/ b.bad) /\ twin' = Accumulate(twin, b.r) /\ acc' = Accumulate(acc, b.p)
    BY <1>3 DEF Mac
  <2>3. CASE tainted
    <3>1. twin' = NotANumber
      BY <2>1, <2>2, <2>3 DEF Twins, Accumulate
    <3> QED BY <2>2, <2>3, <3>1 DEF Twins
  <2>4. CASE ~tainted /\ b.bad
    <3>1. twin' = NotANumber
      BY <2>2, <2>4, BeatsAgree DEF Accumulate
    <3> QED BY <2>2, <2>4, <3>1 DEF Twins
  <2>5. CASE ~tainted /\ ~b.bad
    <3>1. twin = acc /\ b.r = b.p
      BY <2>5, BeatsAgree DEF Twins
    <3> QED BY <2>2, <2>5, <3>1 DEF Twins
  <2> QED BY <2>3, <2>4, <2>5
<1> QED BY <1>1, <1>2, <1>3 DEF Feed

(* For every width, every number of lanes and every stream of beats:        *)
(* neither the order of the lanes nor what a row holds behind a zero of the *)
(* vector reaches an answer, unless it is an infinity or a NaN, which makes *)
(* every answer up to the next drain a NaN (pim_mac_exact.c against what    *)
(* pim_gemv_upload_x and pim_op_add leave in the rows).                     *)
THEOREM OnlyProductsReachAnswers == Start /\ [][Feed]_bank => []OnlyProductsCount
<1>1. Start => Twins
  BY DEF Start, Twins
<1>2. Twins /\ [Feed]_bank => Twins'
  BY TwinsKept
<1>3. Twins => OnlyProductsCount
  BY DEF Twins, OnlyProductsCount
<1> QED BY <1>1, <1>2, <1>3, PTL
==============================================================================
