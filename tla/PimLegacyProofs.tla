---------------------------- MODULE PimLegacyProofs ----------------------------
(***************************************************************************)
(* The heap of the single-process runtime, for every size of the card,     *)
(* every shape of weight and cache and every order of calls: the free list *)
(* stays in order with no two holes touching, and no row is lost, handed   *)
(* out twice or counted wrongly, whichever handle is freed again.          *)
(***************************************************************************)
EXTENDS PimLegacyKv, FiniteSetTheorems, SequenceTheorems, TLAPS

Block == [off : Nat, size : Nat \ {0}]
RowsOf(b) == b.off .. End(b) - 1
Within(b) == b \in Block /\ End(b) <= Rows

(* A list of blocks in order and apart, some perhaps touching.              *)
InOrder(hs) ==
  /\ hs \in Seq(Block)
  /\ \A i \in DOMAIN hs : End(hs[i]) <= Rows
  /\ \A i, j \in DOMAIN hs : i < j => End(hs[i]) <= hs[j].off

(* The free list between two calls.                                         *)
FreeList(hs) == InOrder(hs) /\ Touching(hs) = {}

Free(hs) == UNION {RowsOf(hs[i]) : i \in DOMAIN hs}

------------------------------------------------------------------------------
(* Sequences.                                                               *)
LEMMA Removed ==
  ASSUME NEW S, NEW s \in Seq(S), NEW i \in 1 .. Len(s)
  PROVE  /\ Seqs!RemoveAt(s, i) \in Seq(S)
         /\ Len(Seqs!RemoveAt(s, i)) = Len(s) - 1
         /\ \A j \in 1 .. Len(s) - 1 : Seqs!RemoveAt(s, i)[j] = IF j < i THEN s[j] ELSE s[j + 1]
<1> DEFINE a == SubSeq(s, 1, i - 1)
           b == SubSeq(s, i + 1, Len(s))
<1>1. Len(s) \in Nat /\ i \in Nat /\ \A j \in 1 .. Len(s) : s[j] \in S
  BY ElementOfSeq
<1>2. a \in Seq(S) /\ Len(a) = i - 1 /\ \A j \in 1 .. i - 1 : a[j] = s[j]
  BY <1>1, SubSeqProperties
<1>3. b \in Seq(S) /\ Len(b) = Len(s) - i /\ \A j \in 1 .. Len(s) - i : b[j] = s[i + j]
  BY <1>1, SubSeqProperties
<1>4. Seqs!RemoveAt(s, i) = a \o b
  BY DEF Seqs!RemoveAt
<1> HIDE DEF a, b
<1>5. /\ a \o b \in Seq(S) /\ Len(a \o b) = Len(a) + Len(b)
      /\ \A j \in 1 .. Len(a) + Len(b) : (a \o b)[j] = IF j <= Len(a) THEN a[j] ELSE b[j - Len(a)]
  BY <1>2, <1>3, ConcatProperties, Zenon
<1> DEFINE c == a \o b
<1> HIDE DEF c
<1>6. /\ c \in Seq(S) /\ Len(c) = Len(a) + Len(b)
      /\ \A j \in 1 .. Len(a) + Len(b) : c[j] = IF j <= Len(a) THEN a[j] ELSE b[j - Len(a)]
  BY <1>5 DEF c
<1>7. ASSUME NEW j \in 1 .. Len(s) - 1 PROVE c[j] = IF j < i THEN s[j] ELSE s[j + 1]
  <2>1. c[j] = IF j <= i - 1 THEN a[j] ELSE b[j - (i - 1)]
    BY <1>1, <1>2, <1>3, <1>6
  <2>2. CASE j < i
    BY <1>1, <1>2, <2>1, <2>2
  <2>3. CASE ~(j < i)
    <3>1. j - (i - 1) \in 1 .. Len(s) - i /\ i + (j - (i - 1)) = j + 1
      BY <1>1, <2>3
    <3> QED BY <1>1, <1>3, <2>1, <2>3, <3>1
  <2> QED BY <2>2, <2>3
<1> QED BY <1>1, <1>2, <1>3, <1>4, <1>6, <1>7 DEF c

LEMMA Inserted ==
  ASSUME NEW S, NEW s \in Seq(S), NEW i \in 1 .. Len(s) + 1, NEW e \in S
  PROVE  /\ Seqs!InsertAt(s, i, e) \in Seq(S)
         /\ Len(Seqs!InsertAt(s, i, e)) = Len(s) + 1
         /\ \A j \in 1 .. Len(s) + 1 :
              Seqs!InsertAt(s, i, e)[j] = IF j < i THEN s[j] ELSE IF j = i THEN e ELSE s[j - 1]
<1> DEFINE a == SubSeq(s, 1, i - 1)
           b == SubSeq(s, i, Len(s))
           u == <<e>>
           m == a \o u
           c == m \o b
<1>1. Len(s) \in Nat /\ i \in Nat /\ \A j \in 1 .. Len(s) : s[j] \in S
  BY ElementOfSeq
<1>2. a \in Seq(S) /\ Len(a) = i - 1 /\ \A j \in 1 .. i - 1 : a[j] = s[j]
  BY <1>1, SubSeqProperties
<1>3. b \in Seq(S) /\ Len(b) = Len(s) - i + 1 /\ \A j \in 1 .. Len(s) - i + 1 : b[j] = s[i + j - 1]
  BY <1>1, SubSeqProperties
<1>4. Seqs!InsertAt(s, i, e) = c
  BY DEF Seqs!InsertAt
<1>5. u \in Seq(S) /\ Len(u) = 1 /\ u[1] = e
  OBVIOUS
<1> HIDE DEF a, b, u
<1>6. /\ m \in Seq(S) /\ Len(m) = Len(a) + Len(u)
      /\ \A j \in 1 .. Len(a) + Len(u) : m[j] = IF j <= Len(a) THEN a[j] ELSE u[j - Len(a)]
  BY <1>2, <1>5, ConcatProperties, Zenon
<1> HIDE DEF m
<1>7. Len(m) = i /\ m[i] = e /\ \A j \in 1 .. i - 1 : m[j] = s[j]
  <2>1. Len(m) = i
    BY <1>1, <1>2, <1>5, <1>6
  <2>2. i \in 1 .. Len(a) + Len(u) /\ ~(i <= Len(a)) /\ i - Len(a) = 1
    BY <1>1, <1>2, <1>5
  <2>3. m[i] = u[i - Len(a)]
    BY <1>6, <2>2, Zenon
  <2>4. m[i] = e
    BY <1>5, <2>2, <2>3
  <2>5. ASSUME NEW j \in 1 .. i - 1 PROVE m[j] = s[j]
    <3>1. j \in 1 .. Len(a) + Len(u) /\ j <= Len(a)
      BY <1>1, <1>2, <1>5
    <3>2. m[j] = a[j]
      BY <1>6, <3>1, Zenon
    <3> QED BY <1>2, <3>2
  <2> QED BY <2>1, <2>4, <2>5
<1>8. /\ c \in Seq(S) /\ Len(c) = Len(m) + Len(b)
      /\ \A j \in 1 .. Len(m) + Len(b) : c[j] = IF j <= Len(m) THEN m[j] ELSE b[j - Len(m)]
  <2>1. m \in Seq(S) /\ b \in Seq(S)
    BY <1>3, <1>6
  <2> QED BY <2>1, ConcatProperties, Zenon
<1> HIDE DEF c
<1>9. ASSUME NEW j \in 1 .. Len(s) + 1
      PROVE  c[j] = IF j < i THEN s[j] ELSE IF j = i THEN e ELSE s[j - 1]
  <2>1. c[j] = IF j <= i THEN m[j] ELSE b[j - i]
    BY <1>1, <1>3, <1>7, <1>8
  <2>2. CASE j <= i
    BY <1>1, <1>7, <2>1, <2>2
  <2>3. CASE j > i
    <3>1. j - i \in 1 .. Len(s) - i + 1 /\ i + (j - i) - 1 = j - 1
      BY <1>1, <2>3
    <3> QED BY <1>1, <1>3, <2>1, <2>3, <3>1
  <2> QED BY <1>1, <2>2, <2>3
<1> QED BY <1>1, <1>3, <1>4, <1>7, <1>8, <1>9

LEMMA Smallest ==
  ASSUME NEW T, T \subseteq Nat, T # {}
  PROVE  Sets!Min(T) \in T /\ \A k \in T : Sets!Min(T) <= k
<1>1. PICK m \in T : \A k \in T : <<k, m>> \notin OpToRel(<, Nat)
  BY NatLessThanWellFounded, WFMin, Zenon
<1>2. \A k \in T : ~ (k < m)
  BY <1>1, Zenon DEF OpToRel
<1>3. \A k \in T : m <= k
  BY <1>2
<1>4. \E x \in T : \A y \in T : x <= y
  BY <1>3
<1> QED BY <1>4 DEF Sets!Min

------------------------------------------------------------------------------
(* The rows of a list of blocks.                                            *)
LEMMA RowsOfList ==
  ASSUME NEW hs, hs \in Seq(Block)
  PROVE  /\ Len(hs) \in Nat /\ DOMAIN hs = 1 .. Len(hs)
         /\ \A i \in DOMAIN hs : hs[i] \in Block /\ hs[i].off \in Nat /\ hs[i].size \in Nat \ {0}
                                 /\ End(hs[i]) = hs[i].off + hs[i].size
         /\ \A r : r \in Free(hs) <=>
              \E i \in DOMAIN hs : r \in Nat /\ hs[i].off <= r /\ r < hs[i].off + hs[i].size
<1>1. Len(hs) \in Nat /\ DOMAIN hs = 1 .. Len(hs) /\ \A i \in DOMAIN hs : hs[i] \in Block
  BY ElementOfSeq, LenProperties
<1>2. ASSUME NEW i \in DOMAIN hs
      PROVE  /\ hs[i] \in Block /\ hs[i].off \in Nat /\ hs[i].size \in Nat \ {0}
             /\ End(hs[i]) = hs[i].off + hs[i].size
  BY <1>1 DEF Block, End
<1>3. ASSUME NEW r, NEW i \in DOMAIN hs
      PROVE  r \in RowsOf(hs[i]) <=> r \in Nat /\ hs[i].off <= r /\ r < hs[i].off + hs[i].size
  <2> DEFINE o == hs[i].off
             z == hs[i].size
  <2>1. o \in Nat /\ z \in Nat
    BY <1>2
  <2>2. End(hs[i]) = o + z
    BY <1>2
  <2>3. RowsOf(hs[i]) = o .. (o + z) - 1
    BY <2>2, Zenon DEF RowsOf
  <2> HIDE DEF o, z
  <2>4. r \in o .. (o + z) - 1 <=> r \in Nat /\ o <= r /\ r < o + z
    BY <2>1
  <2> QED BY <2>3, <2>4 DEF o, z
<1>4. \A r : r \in Free(hs) <=> \E i \in DOMAIN hs : r \in RowsOf(hs[i])
  BY DEF Free
<1>5. ASSUME NEW r
      PROVE  (\E i \in DOMAIN hs : r \in RowsOf(hs[i])) <=>
             \E i \in DOMAIN hs : r \in Nat /\ hs[i].off <= r /\ r < hs[i].off + hs[i].size
  BY <1>3, Zenon
<1>6. \A r : r \in Free(hs) <=>
              \E i \in DOMAIN hs : r \in Nat /\ hs[i].off <= r /\ r < hs[i].off + hs[i].size
  BY <1>4, <1>5, Zenon
<1> QED BY <1>1, <1>2, <1>6, Zenon

(* A list in order, all but one of its runs strictly apart.                 *)
LEMMA StrictlyApart ==
  ASSUME NEW hs, InOrder(hs)
  PROVE  FreeList(hs) <=> \A i, j \in DOMAIN hs : i < j => End(hs[i]) < hs[j].off
<1>1. hs \in Seq(Block) /\ \A i, j \in DOMAIN hs : i < j => End(hs[i]) <= hs[j].off
  BY DEF InOrder
<1>2. /\ Len(hs) \in Nat /\ DOMAIN hs = 1 .. Len(hs)
      /\ \A i \in DOMAIN hs : hs[i].off \in Nat /\ hs[i].size \in Nat \ {0}
                              /\ End(hs[i]) = hs[i].off + hs[i].size
  BY <1>1, RowsOfList
<1>3. ASSUME Touching(hs) = {}, NEW i \in DOMAIN hs, NEW j \in DOMAIN hs, i < j
      PROVE  End(hs[i]) < hs[j].off
  <2>1. i \in 1 .. Len(hs) - 1 /\ i + 1 \in DOMAIN hs /\ i < i + 1
    BY <1>2, <1>3
  <2>2. End(hs[i]) # hs[i + 1].off
    BY <1>3, <2>1 DEF Touching
  <2>3. End(hs[i]) <= hs[i + 1].off
    BY <1>1, <2>1
  <2>4. CASE j = i + 1
    <3> DEFINE a == End(hs[i])
               b == hs[i + 1].off
    <3>1. a \in Nat /\ b \in Nat /\ a <= b /\ a # b
      BY <1>2, <2>1, <2>2, <2>3
    <3>2. a < b
      <4> HIDE DEF a, b
      <4> QED BY <3>1
    <3> QED BY <2>4, <3>2
  <2>5. CASE j # i + 1
    <3>1. i + 1 < j
      BY <1>2, <1>3, <2>5
    <3>2. End(hs[i + 1]) <= hs[j].off
      BY <1>1, <2>1, <3>1
    <3> DEFINE a == hs[i].off + hs[i].size
               b == hs[i + 1].off
               c == hs[i + 1].size
               d == hs[j].off
    <3>3. a \in Nat /\ b \in Nat /\ c \in Nat \ {0} /\ d \in Nat /\ a <= b /\ b + c <= d
      BY <1>2, <2>1, <2>3, <3>2
    <3>4. a < d
      <4> HIDE DEF a, b, c, d
      <4> QED BY <3>3
    <3> QED BY <1>2, <3>4
  <2> QED BY <2>4, <2>5
<1>4. ASSUME \A i, j \in DOMAIN hs : i < j => End(hs[i]) < hs[j].off
      PROVE  Touching(hs) = {}
  <2> SUFFICES ASSUME NEW i \in Touching(hs) PROVE FALSE
    OBVIOUS
  <2>1. i \in 1 .. Len(hs) - 1 /\ End(hs[i]) = hs[i + 1].off
    BY DEF Touching
  <2>2. i \in DOMAIN hs /\ i + 1 \in DOMAIN hs /\ i < i + 1
    BY <1>2, <2>1
  <2>3. End(hs[i]) < hs[i + 1].off
    BY <1>4, <2>2
  <2> QED BY <1>2, <2>1, <2>2, <2>3
<1> QED BY <1>3, <1>4 DEF FreeList

(* Two runs that touch, made one.                                           *)
LEMMA MergedRuns ==
  ASSUME NEW hs, InOrder(hs), NEW i \in Touching(hs)
  PROVE  /\ Merged(hs, i) \in Seq(Block) /\ Len(Merged(hs, i)) = Len(hs) - 1
         /\ i \in Nat /\ i >= 1 /\ i < Len(hs)
         /\ \A j \in 1 .. Len(hs) - 1 :
              /\ Merged(hs, i)[j].off = IF j <= i THEN hs[j].off ELSE hs[j + 1].off
              /\ End(Merged(hs, i)[j]) = IF j < i THEN End(hs[j]) ELSE End(hs[j + 1])
<1> DEFINE b == [off |-> hs[i].off, size |-> hs[i].size + hs[i + 1].size]
           e == [hs EXCEPT ![i] = b]
<1>1. hs \in Seq(Block)
  BY DEF InOrder
<1>2. /\ Len(hs) \in Nat /\ DOMAIN hs = 1 .. Len(hs)
      /\ \A j \in DOMAIN hs : hs[j].off \in Nat /\ hs[j].size \in Nat \ {0}
                              /\ End(hs[j]) = hs[j].off + hs[j].size
  BY <1>1, RowsOfList
<1>3. i \in 1 .. Len(hs) - 1 /\ End(hs[i]) = hs[i + 1].off
  BY DEF Touching
<1>4. i \in Nat /\ i >= 1 /\ i < Len(hs) /\ i \in 1 .. Len(hs) /\ i + 1 \in 1 .. Len(hs)
  BY <1>2, <1>3
<1>5. hs[i].size + hs[i + 1].size \in Nat \ {0} /\ hs[i].off \in Nat
  BY <1>2, <1>4
<1>6. b \in Block /\ b.off = hs[i].off /\ b.size = hs[i].size + hs[i + 1].size
  BY <1>5 DEF Block
<1>7. End(b) = End(hs[i + 1])
  <2>1. hs[i].off + hs[i].size = hs[i + 1].off
    BY <1>2, <1>3, <1>4
  <2> DEFINE o == hs[i].off
             z == hs[i].size
             y == hs[i + 1].size
  <2>2. End(b) = o + (z + y) /\ End(hs[i + 1]) = (o + z) + y
    BY <1>2, <1>4, <1>6, <2>1 DEF End
  <2>3. o \in Nat /\ z \in Nat /\ y \in Nat
    BY <1>2, <1>4
  <2> HIDE DEF o, z, y
  <2> QED BY <2>2, <2>3
<1>8. Merged(hs, i) = Seqs!RemoveAt(e, i + 1)
  BY DEF Merged
<1> HIDE DEF b
<1>9. e \in Seq(Block) /\ Len(e) = Len(hs) /\ \A j \in 1 .. Len(hs) : e[j] = IF j = i THEN b ELSE hs[j]
  <2>1. hs \in Seq(Block) /\ i \in 1 .. Len(hs) /\ b \in Block
    BY <1>1, <1>4, <1>6
  <2> QED BY <2>1, ExceptSeq
<1> HIDE DEF e
<1>10. i + 1 \in 1 .. Len(e)
  BY <1>4, <1>9
<1> DEFINE m == Seqs!RemoveAt(e, i + 1)
<1>11. /\ m \in Seq(Block) /\ Len(m) = Len(e) - 1
       /\ \A j \in 1 .. Len(e) - 1 : m[j] = IF j < i + 1 THEN e[j] ELSE e[j + 1]
  BY <1>9, <1>10, Removed, Zenon
<1> HIDE DEF m
<1>12. ASSUME NEW j \in 1 .. Len(hs) - 1
       PROVE  /\ m[j].off = IF j <= i THEN hs[j].off ELSE hs[j + 1].off
              /\ End(m[j]) = IF j < i THEN End(hs[j]) ELSE End(hs[j + 1])
  <2>1. j \in 1 .. Len(hs) /\ j + 1 \in 1 .. Len(hs) /\ j \in 1 .. Len(e) - 1
    BY <1>2, <1>9
  <2>2. m[j] = IF j < i + 1 THEN e[j] ELSE e[j + 1]
    BY <1>11, <2>1
  <2>3. CASE j < i
    <3>1. m[j] = hs[j]
      BY <1>4, <1>9, <2>1, <2>2, <2>3
    <3> QED BY <1>4, <2>3, <3>1
  <2>4. CASE j = i
    <3>1. m[j] = b
      BY <1>4, <1>9, <2>1, <2>2, <2>4
    <3> QED BY <1>4, <1>6, <1>7, <2>4, <3>1
  <2>5. CASE j > i
    <3>1. m[j] = hs[j + 1]
      BY <1>4, <1>9, <2>1, <2>2, <2>5
    <3> QED BY <1>4, <2>5, <3>1
  <2> QED BY <1>4, <2>3, <2>4, <2>5
<1> QED BY <1>4, <1>8, <1>9, <1>11, <1>12 DEF m

(* ... keeps the order and the rows; what touched elsewhere still does.     *)
LEMMA MergeKeeps ==
  ASSUME NEW hs, InOrder(hs), NEW i \in Touching(hs)
  PROVE  /\ InOrder(Merged(hs, i)) /\ Free(Merged(hs, i)) = Free(hs)
         /\ \A j : j \in Touching(Merged(hs, i)) => (j \in Touching(hs) /\ j < i) \/ (j + 1 \in Touching(hs) /\ j >= i)
<1> DEFINE m == Merged(hs, i)
           n == Len(hs)
<1>1. /\ hs \in Seq(Block) /\ \A j, k \in DOMAIN hs : j < k => End(hs[j]) <= hs[k].off
      /\ \A j \in DOMAIN hs : End(hs[j]) <= Rows
  BY DEF InOrder
<1>2. /\ n \in Nat /\ DOMAIN hs = 1 .. n
      /\ \A j \in DOMAIN hs : hs[j].off \in Nat /\ hs[j].size \in Nat \ {0}
                              /\ End(hs[j]) = hs[j].off + hs[j].size
      /\ \A r : r \in Free(hs) <=>
              \E j \in DOMAIN hs : r \in Nat /\ hs[j].off <= r /\ r < hs[j].off + hs[j].size
  BY <1>1, RowsOfList
<1>3. /\ m \in Seq(Block) /\ Len(m) = n - 1 /\ i \in Nat /\ i >= 1 /\ i < n
      /\ \A j \in 1 .. n - 1 : /\ m[j].off = IF j <= i THEN hs[j].off ELSE hs[j + 1].off
                               /\ End(m[j]) = IF j < i THEN End(hs[j]) ELSE End(hs[j + 1])
  BY MergedRuns
<1>4. End(hs[i]) = hs[i + 1].off
  BY DEF Touching
<1> HIDE DEF m
<1>5. /\ DOMAIN m = 1 .. n - 1
      /\ \A j \in DOMAIN m : m[j].off \in Nat /\ m[j].size \in Nat \ {0}
                             /\ End(m[j]) = m[j].off + m[j].size
      /\ \A r : r \in Free(m) <=>
              \E j \in DOMAIN m : r \in Nat /\ m[j].off <= r /\ r < m[j].off + m[j].size
  BY <1>3, RowsOfList
<1> HIDE DEF n
<1>6. ASSUME NEW j \in DOMAIN m, NEW k \in DOMAIN m, j < k
      PROVE  End(m[j]) <= m[k].off
  <2>1. j \in 1 .. n /\ j + 1 \in 1 .. n /\ k \in 1 .. n /\ k + 1 \in 1 .. n /\ j < k + 1 /\ j + 1 < k + 1
    BY <1>2, <1>5, <1>6
  <2>2. CASE k <= i
    <3>1. End(m[j]) = End(hs[j]) /\ m[k].off = hs[k].off
      BY <1>2, <1>3, <1>5, <1>6, <2>1, <2>2
    <3> QED BY <1>1, <1>2, <1>6, <2>1, <3>1
  <2>3. CASE k > i /\ j < i
    <3>1. End(m[j]) = End(hs[j]) /\ m[k].off = hs[k + 1].off
      BY <1>2, <1>3, <1>5, <1>6, <2>1, <2>3
    <3> QED BY <1>1, <1>2, <2>1, <3>1
  <2>4. CASE k > i /\ ~(j < i)
    <3>1. End(m[j]) = End(hs[j + 1]) /\ m[k].off = hs[k + 1].off
      BY <1>2, <1>3, <1>5, <1>6, <2>1, <2>4
    <3> QED BY <1>1, <1>2, <2>1, <3>1
  <2> QED BY <1>2, <1>3, <1>5, <2>2, <2>3, <2>4
<1>7. ASSUME NEW j \in DOMAIN m PROVE End(m[j]) <= Rows
  <2>1. j \in 1 .. n /\ j + 1 \in 1 .. n /\ j \in 1 .. n - 1
    BY <1>2, <1>5
  <2> QED BY <1>1, <1>2, <1>3, <2>1
<1>8. InOrder(m)
  BY <1>3, <1>6, <1>7 DEF InOrder
<1>9. ASSUME NEW r \in Free(m) PROVE r \in Free(hs)
  <2>1. PICK j \in DOMAIN m : r \in Nat /\ m[j].off <= r /\ r < End(m[j])
    BY <1>5
  <2>2. j \in 1 .. n /\ j + 1 \in 1 .. n /\ j \in 1 .. n - 1 /\ i \in 1 .. n /\ i + 1 \in 1 .. n
    BY <1>2, <1>3, <1>5
  <2>3. CASE j # i
    <3>1. \/ m[j].off = hs[j].off /\ End(m[j]) = End(hs[j])
          \/ m[j].off = hs[j + 1].off /\ End(m[j]) = End(hs[j + 1])
      BY <1>2, <1>3, <2>2, <2>3
    <3> QED BY <1>2, <2>1, <2>2, <3>1
  <2>4. CASE j = i
    <3>1. hs[i].off <= r /\ r < End(hs[i + 1])
      BY <1>2, <1>3, <2>1, <2>2, <2>4
    <3>2. CASE r < hs[i + 1].off
      BY <1>2, <1>4, <2>1, <2>2, <3>1, <3>2
    <3>3. CASE hs[i + 1].off <= r
      BY <1>2, <2>1, <2>2, <3>1, <3>3
    <3>4. hs[i + 1].off \in Nat
      BY <1>2, <2>2
    <3> QED BY <2>1, <3>2, <3>3, <3>4
  <2> QED BY <2>3, <2>4
<1>10. ASSUME NEW r \in Free(hs) PROVE r \in Free(m)
  <2>1. PICK j \in DOMAIN hs : r \in Nat /\ hs[j].off <= r /\ r < End(hs[j])
    BY <1>2
  <2>2. i \in 1 .. n - 1 /\ i \in 1 .. n /\ i + 1 \in 1 .. n /\ j \in Nat /\ j >= 1 /\ j <= n
    BY <1>2, <1>3
  <2>3. CASE j < i
    <3>1. j \in 1 .. n - 1 /\ m[j].off = hs[j].off /\ End(m[j]) = End(hs[j])
      BY <1>2, <1>3, <2>2, <2>3
    <3> QED BY <1>5, <2>1, <3>1
  <2>4. CASE j = i \/ j = i + 1
    <3>1. m[i].off = hs[i].off /\ End(m[i]) = End(hs[i + 1])
      BY <1>3, <2>2
    <3>2. hs[i].off <= r /\ r < End(hs[i + 1])
      <4> DEFINE a == hs[i].off
                 b == hs[i].size
                 c == hs[i + 1].off
                 d == hs[i + 1].size
      <4>1. a \in Nat /\ b \in Nat /\ c \in Nat /\ d \in Nat /\ a + b = c /\ End(hs[i + 1]) = c + d
            /\ End(hs[i]) = a + b
        BY <1>2, <1>4, <2>2
      <4>2. (a <= r /\ r < a + b) \/ (c <= r /\ r < c + d)
        BY <2>1, <2>4, <4>1
      <4> HIDE DEF a, b, c, d
      <4>3. a <= r /\ r < c + d
        BY <2>1, <4>1, <4>2
      <4> QED BY <4>1, <4>3 DEF a
    <3> QED BY <1>5, <2>1, <2>2, <3>1, <3>2
  <2>5. CASE j > i + 1
    <3>1. j - 1 \in 1 .. n - 1 /\ ~(j - 1 <= i) /\ (j - 1) + 1 = j
      BY <1>2, <1>3, <2>2, <2>5
    <3>2. m[j - 1].off = hs[j].off /\ End(m[j - 1]) = End(hs[j])
      BY <1>3, <2>5, <3>1
    <3> QED BY <1>5, <2>1, <3>1, <3>2
  <2> QED BY <2>2, <2>3, <2>4, <2>5
<1>11. ASSUME NEW j \in Touching(m)
       PROVE  (j \in Touching(hs) /\ j < i) \/ (j + 1 \in Touching(hs) /\ j >= i)
  <2>1. j \in 1 .. (n - 1) - 1 /\ End(m[j]) = m[j + 1].off
    BY <1>3 DEF Touching
  <2>2. j \in 1 .. n - 1 /\ j + 1 \in 1 .. n - 1
    BY <1>2, <2>1
  <2>3. CASE j < i
    <3>1. End(hs[j]) = hs[j + 1].off
      BY <1>3, <2>1, <2>2, <2>3
    <3> QED BY <2>2, <2>3, <3>1 DEF Touching, n
  <2>4. CASE j >= i
    <3>1. m[j + 1].off = hs[(j + 1) + 1].off /\ End(m[j]) = End(hs[j + 1])
      BY <1>3, <2>1, <2>2, <2>4
    <3> QED BY <2>1, <2>2, <2>4, <3>1 DEF Touching, n
  <2> QED BY <1>3, <2>2, <2>3, <2>4
<1>12. Free(m) = Free(hs)
  BY <1>9, <1>10
<1> QED BY <1>8, <1>11, <1>12 DEF m

(* A set of positions that is closed downwards is all up to its size.       *)
LEMMA DownToOne ==
  ASSUME NEW n \in Nat, NEW T, T \subseteq 1 .. n, \A i, j \in 1 .. n : i < j /\ j \in T => i \in T
  PROVE  Cardinality(T) \in 0 .. n /\ T = 1 .. Cardinality(T)
<1> DEFINE Out == {j \in Nat : j >= 1 /\ j \notin T}
<1>1. n + 1 \in Out
  OBVIOUS
<1>2. PICK k \in Out : \A j \in Out : k <= j
  <2>1. Out \subseteq Nat /\ Out # {}
    BY <1>1
  <2> HIDE DEF Out
  <2> QED BY <2>1, Smallest
<1>3. k \in Nat /\ k >= 1 /\ k \notin T /\ k <= n + 1
  BY <1>1, <1>2
<1>4. T = 1 .. k - 1
  <2>1. ASSUME NEW j \in T PROVE j \in 1 .. k - 1
    <3>1. j \in 1 .. n /\ j # k
      BY <1>3
    <3>2. ~(k < j)
      <4>1. SUFFICES ASSUME k < j PROVE FALSE
        OBVIOUS
      <4>2. k \in 1 .. n
        BY <1>3, <3>1, <4>1
      <4> QED BY <1>3, <3>1, <4>1, <4>2
    <3> QED BY <1>3, <3>1, <3>2
  <2>2. ASSUME NEW j \in 1 .. k - 1 PROVE j \in T
    BY <1>2, <1>3
  <2> QED BY <2>1, <2>2
<1>5. Cardinality(1 .. k - 1) = k - 1
  <2>1. 1 \in Int /\ k - 1 \in Int
    BY <1>3
  <2>2. Cardinality(1 .. k - 1) = IF 1 > k - 1 THEN 0 ELSE (k - 1) - 1 + 1
    BY <2>1, FS_Interval
  <2> QED BY <1>3, <2>2
<1> QED BY <1>3, <1>4, <1>5

------------------------------------------------------------------------------
(* pim_alloc takes its block out of one hole and leaves the rest.           *)
LEMMA CarveKeeps ==
  ASSUME NEW hs, FreeList(hs), NEW want \in Nat \ {0}, Fits(hs, want) # {}
  PROVE  /\ FreeList(Carved(hs, want))
         /\ Within(PlacedAt(hs, want)) /\ PlacedAt(hs, want).size = want
         /\ RowsOf(PlacedAt(hs, want)) \subseteq Free(hs)
         /\ Free(Carved(hs, want)) = Free(hs) \ RowsOf(PlacedAt(hs, want))
<1> DEFINE i == Sets!Min(Fits(hs, want))
           p == PlacedAt(hs, want)
           c == Carved(hs, want)
           n == Len(hs)
           o == hs[i].off
           z == hs[i].size
<1>1. /\ hs \in Seq(Block) /\ InOrder(hs) /\ \A j \in DOMAIN hs : End(hs[j]) <= Rows
      /\ \A j, k \in DOMAIN hs : j < k => End(hs[j]) < hs[k].off
  BY StrictlyApart DEF FreeList, InOrder
<1>2. /\ n \in Nat /\ DOMAIN hs = 1 .. n
      /\ \A j \in DOMAIN hs : hs[j] \in Block /\ hs[j].off \in Nat /\ hs[j].size \in Nat \ {0}
                              /\ End(hs[j]) = hs[j].off + hs[j].size
      /\ \A r : r \in Free(hs) <=>
              \E j \in DOMAIN hs : r \in Nat /\ hs[j].off <= r /\ r < hs[j].off + hs[j].size
  BY <1>1, RowsOfList
<1>3. i \in 1 .. n /\ hs[i].size >= want
  <2>1. Fits(hs, want) \subseteq Nat
    BY <1>2 DEF Fits
  <2>2. i \in Fits(hs, want)
    BY <2>1, Smallest, Zenon
  <2> QED BY <1>2, <2>2 DEF Fits
<1>4. o \in Nat /\ z \in Nat \ {0} /\ End(hs[i]) = o + z /\ z >= want /\ Rows \in Nat /\ o + z <= Rows
  BY <1>1, <1>2, <1>3, LegacyAssumption
<1>5. p = [off |-> o, size |-> want] /\ p.off = o /\ p.size = want
  BY DEF PlacedAt
<1>6. End(p) = o + want
  BY <1>5 DEF End
<1>7. Within(p)
  <2>1. p \in Block
    BY <1>4, <1>5 DEF Block
  <2> QED BY <1>4, <1>6, <2>1 DEF Within
<1>8. \A r : r \in RowsOf(p) <=> r \in Nat /\ o <= r /\ r < o + want
  BY <1>4, <1>5, <1>6 DEF RowsOf
<1>9. c = IF z = want THEN Seqs!RemoveAt(hs, i)
          ELSE [hs EXCEPT ![i] = [off |-> o + want, size |-> z - want]]
  BY DEF Carved
<1> HIDE DEF c, p, o, z, n
<1>10. RowsOf(p) \subseteq Free(hs)
  <2> SUFFICES ASSUME NEW r \in RowsOf(p) PROVE r \in Free(hs)
    OBVIOUS
  <2>1. r \in Nat /\ o <= r /\ r < o + z
    BY <1>4, <1>8
  <2> QED BY <1>2, <1>3, <2>1 DEF o, z
<1>11. ASSUME NEW r \in RowsOf(p), NEW j \in 1 .. n, j # i
       PROVE  ~(hs[j].off <= r /\ r < End(hs[j]))
  <2>1. r \in Nat /\ o <= r /\ r < o + z /\ hs[j].off \in Nat /\ End(hs[j]) \in Nat
    BY <1>2, <1>4, <1>8
  <2>2. CASE j < i
    <3>1. End(hs[j]) < o
      BY <1>1, <1>2, <1>3, <2>2 DEF o
    <3> QED BY <2>1, <3>1, <1>4
  <2>3. CASE i < j
    <3>1. o + z < hs[j].off
      BY <1>1, <1>2, <1>3, <1>4, <2>3
    <3> QED BY <2>1, <3>1, <1>4
  <2> QED BY <1>3, <1>11, <2>2, <2>3
<1>12. CASE z = want
  <2>1. c = Seqs!RemoveAt(hs, i)
    BY <1>9, <1>12
  <2>2. /\ c \in Seq(Block) /\ Len(c) = n - 1
        /\ \A j \in 1 .. n - 1 : c[j] = IF j < i THEN hs[j] ELSE hs[j + 1]
    BY <1>1, <1>3, <2>1, Removed DEF n
  <2>3. /\ DOMAIN c = 1 .. n - 1
        /\ \A r : r \in Free(c) <=>
              \E j \in DOMAIN c : r \in Nat /\ c[j].off <= r /\ r < c[j].off + c[j].size
    BY <2>2, RowsOfList
  <2>4. \A j \in 1 .. n - 1 : \E k \in 1 .. n : k # i /\ c[j] = hs[k]
    <3> SUFFICES ASSUME NEW j \in 1 .. n - 1 PROVE \E k \in 1 .. n : k # i /\ c[j] = hs[k]
      OBVIOUS
    <3>1. j \in 1 .. n /\ j + 1 \in 1 .. n /\ i \in Int
      BY <1>2, <1>3
    <3>2. CASE j < i
      <4>1. c[j] = hs[j] /\ j # i
        BY <2>2, <3>1, <3>2
      <4> QED BY <3>1, <4>1
    <3>3. CASE ~(j < i)
      <4>1. c[j] = hs[j + 1]
        BY <2>2, <3>3
      <4>2. j + 1 # i
        BY <3>1, <3>3
      <4> QED BY <3>1, <4>1, <4>2
    <3> QED BY <3>2, <3>3
  <2>5. \A k \in 1 .. n : k # i => \E j \in 1 .. n - 1 : c[j] = hs[k]
    <3> SUFFICES ASSUME NEW k \in 1 .. n, k # i PROVE \E j \in 1 .. n - 1 : c[j] = hs[k]
      OBVIOUS
    <3>1. CASE k < i
      <4>1. k \in 1 .. n - 1
        BY <1>2, <1>3, <3>1
      <4> QED BY <2>2, <3>1, <4>1
    <3>2. CASE k > i
      <4>1. k - 1 \in 1 .. n - 1 /\ ~(k - 1 < i) /\ (k - 1) + 1 = k
        BY <1>2, <1>3, <3>2
      <4> QED BY <2>2, <4>1
    <3> QED BY <1>3, <3>1, <3>2
  <2>6. \A j, k \in DOMAIN c : j < k => End(c[j]) < c[k].off
    <3> SUFFICES ASSUME NEW j \in 1 .. n - 1, NEW k \in 1 .. n - 1, j < k PROVE End(c[j]) < c[k].off
      BY <2>3
    <3>1. /\ j \in 1 .. n /\ j + 1 \in 1 .. n /\ k \in 1 .. n /\ k + 1 \in 1 .. n
          /\ j < k + 1 /\ j + 1 < k + 1
      BY <1>2
    <3>2. CASE k < i
      <4>1. c[j] = hs[j] /\ c[k] = hs[k]
        BY <1>2, <1>3, <2>2, <3>2
      <4>2. End(hs[j]) < hs[k].off
        BY <1>1, <1>2, <3>1
      <4> QED BY <4>1, <4>2
    <3>3. CASE ~(k < i) /\ j < i
      <4>1. c[j] = hs[j] /\ c[k] = hs[k + 1]
        BY <1>2, <1>3, <2>2, <3>3
      <4>2. End(hs[j]) < hs[k + 1].off
        BY <1>1, <1>2, <3>1
      <4> QED BY <4>1, <4>2
    <3>4. CASE ~(k < i) /\ ~(j < i)
      <4>1. c[j] = hs[j + 1] /\ c[k] = hs[k + 1]
        BY <1>2, <1>3, <2>2, <3>4
      <4>2. End(hs[j + 1]) < hs[k + 1].off
        BY <1>1, <1>2, <3>1
      <4> QED BY <4>1, <4>2
    <3> QED BY <1>3, <3>2, <3>3, <3>4
  <2>7. InOrder(c)
    <3>1. \A j \in DOMAIN c : End(c[j]) <= Rows
      BY <1>1, <1>2, <2>3, <2>4
    <3>2. \A j \in DOMAIN c : End(c[j]) \in Nat /\ c[j].off \in Nat
      BY <1>2, <2>3, <2>4
    <3>3. \A j, k \in DOMAIN c : j < k => End(c[j]) <= c[k].off
      BY <2>6, <3>2
    <3> QED BY <2>2, <3>1, <3>3 DEF InOrder
  <2>8. FreeList(c)
    BY <2>6, <2>7, StrictlyApart
  <2>9. ASSUME NEW r PROVE r \in Free(c) <=> r \in Free(hs) /\ r \notin RowsOf(p)
    <3>1. ASSUME r \in Free(c) PROVE r \in Free(hs) /\ r \notin RowsOf(p)
      <4>1. PICK j \in 1 .. n - 1 : r \in Nat /\ c[j].off <= r /\ r < c[j].off + c[j].size
        BY <2>3, <3>1
      <4>2. PICK k \in 1 .. n : k # i /\ c[j] = hs[k]
        BY <2>4
      <4> QED BY <1>2, <1>11, <4>1, <4>2
    <3>2. ASSUME r \in Free(hs), r \notin RowsOf(p) PROVE r \in Free(c)
      <4>1. PICK k \in 1 .. n : r \in Nat /\ hs[k].off <= r /\ r < hs[k].off + hs[k].size
        BY <1>2, <3>2
      <4>2. k # i
        BY <1>8, <1>12, <3>2, <4>1 DEF o, z
      <4> QED BY <2>3, <2>5, <4>1, <4>2
    <3> QED BY <3>1, <3>2
  <2> QED BY <1>5, <1>7, <1>10, <2>8, <2>9 DEF c, p
<1>13. CASE z # want
  <2> DEFINE x == [off |-> o + want, size |-> z - want]
  <2>1. c = [hs EXCEPT ![i] = x]
    BY <1>9, <1>13
  <2>2. x \in Block /\ x.off = o + want /\ x.size = z - want /\ End(x) = o + z
    <3>1. o + want \in Nat /\ z - want \in Nat \ {0} /\ (o + want) + (z - want) = o + z
      BY <1>4, <1>13
    <3> QED BY <3>1 DEF Block, End
  <2> HIDE DEF x
  <2>3. /\ c \in Seq(Block) /\ Len(c) = n
        /\ \A j \in 1 .. n : c[j] = IF j = i THEN x ELSE hs[j]
    <3>1. hs \in Seq(Block) /\ i \in 1 .. Len(hs) /\ x \in Block
      BY <1>1, <1>3, <2>2 DEF n
    <3> QED BY <2>1, <3>1, ExceptSeq DEF n
  <2>4. /\ DOMAIN c = 1 .. n
        /\ \A r : r \in Free(c) <=>
              \E j \in DOMAIN c : r \in Nat /\ c[j].off <= r /\ r < c[j].off + c[j].size
        /\ \A j \in DOMAIN c : End(c[j]) = c[j].off + c[j].size
    BY <2>3, RowsOfList
  <2>5. \A j \in 1 .. n : /\ End(c[j]) = End(hs[j])
                          /\ hs[j].off <= c[j].off /\ c[j].off \in Nat /\ End(c[j]) \in Nat
    <3> SUFFICES ASSUME NEW j \in 1 .. n
                 PROVE  /\ End(c[j]) = End(hs[j])
                        /\ hs[j].off <= c[j].off /\ c[j].off \in Nat /\ End(c[j]) \in Nat
      OBVIOUS
    <3>1. CASE j = i
      <4>1. c[j] = x /\ hs[j].off = o /\ End(hs[j]) = o + z
        BY <1>4, <2>3, <3>1 DEF o
      <4> QED BY <1>4, <2>2, <4>1
    <3>2. CASE j # i
      BY <1>2, <2>3, <3>2
    <3> QED BY <3>1, <3>2
  <2>6. \A j, k \in DOMAIN c : j < k => End(c[j]) < c[k].off
    <3> SUFFICES ASSUME NEW j \in 1 .. n, NEW k \in 1 .. n, j < k PROVE End(c[j]) < c[k].off
      BY <2>4
    <3>1. End(hs[j]) < hs[k].off /\ hs[k].off \in Nat
      BY <1>1, <1>2
    <3> QED BY <2>5, <3>1
  <2>7. InOrder(c)
    <3>1. \A j \in DOMAIN c : End(c[j]) <= Rows
      BY <1>1, <1>2, <2>4, <2>5
    <3>2. \A j, k \in DOMAIN c : j < k => End(c[j]) <= c[k].off
      BY <2>4, <2>5, <2>6
    <3> QED BY <2>3, <3>1, <3>2 DEF InOrder
  <2>8. FreeList(c)
    BY <2>6, <2>7, StrictlyApart
  <2>9. ASSUME NEW r PROVE r \in Free(c) <=> r \in Free(hs) /\ r \notin RowsOf(p)
    <3>1. ASSUME r \in Free(c) PROVE r \in Free(hs) /\ r \notin RowsOf(p)
      <4>1. PICK j \in 1 .. n : r \in Nat /\ c[j].off <= r /\ r < End(c[j])
        BY <2>4, <3>1
      <4>2. CASE j = i
        <5>1. o + want <= r /\ r < o + z
          BY <2>2, <2>3, <4>1, <4>2
        <5>2. o <= r /\ ~(r < o + want)
          BY <1>4, <4>1, <5>1
        <5> QED BY <1>2, <1>3, <1>8, <4>1, <5>1, <5>2 DEF o, z
      <4>3. CASE j # i
        BY <1>2, <1>11, <2>3, <4>1, <4>3
      <4> QED BY <4>2, <4>3
    <3>2. ASSUME r \in Free(hs), r \notin RowsOf(p) PROVE r \in Free(c)
      <4>1. PICK k \in 1 .. n : r \in Nat /\ hs[k].off <= r /\ r < hs[k].off + hs[k].size
        BY <1>2, <3>2
      <4>2. CASE k = i
        <5>1. o <= r /\ r < o + z
          BY <4>1, <4>2 DEF o, z
        <5>2. o + want <= r
          BY <1>4, <1>8, <3>2, <4>1, <5>1
        <5>3. c[i] = x /\ r < End(x)
          BY <1>3, <2>2, <2>3, <5>1
        <5> QED BY <1>3, <2>2, <2>4, <4>1, <5>2, <5>3
      <4>3. CASE k # i
        BY <2>3, <2>4, <4>1, <4>3
      <4> QED BY <4>2, <4>3
    <3> QED BY <3>1, <3>2
  <2> QED BY <1>5, <1>7, <1>10, <2>8, <2>9 DEF c, p
<1> QED BY <1>12, <1>13

------------------------------------------------------------------------------
(* A block that shares no row with the holes lies wholly before or behind   *)
(* each of them, and those before it come first.                            *)
LEMMA BeforeOrBehind ==
  ASSUME NEW hs, FreeList(hs), NEW b, Within(b), RowsOf(b) \cap Free(hs) = {}
  PROVE  LET m == Cardinality({i \in DOMAIN hs : hs[i].off < b.off})
         IN  /\ m \in 0 .. Len(hs)
             /\ \A i \in DOMAIN hs : i <= m => hs[i].off < b.off /\ End(hs[i]) <= b.off
             /\ \A i \in DOMAIN hs : i > m => b.off < hs[i].off /\ End(b) <= hs[i].off
<1> DEFINE n == Len(hs)
           o == b.off
           e == End(b)
           T == {i \in DOMAIN hs : hs[i].off < o}
           m == Cardinality(T)
<1>1. /\ hs \in Seq(Block) /\ InOrder(hs)
      /\ \A j, k \in DOMAIN hs : j < k => End(hs[j]) < hs[k].off
  BY StrictlyApart DEF FreeList, InOrder
<1>2. /\ n \in Nat /\ DOMAIN hs = 1 .. n
      /\ \A j \in DOMAIN hs : hs[j].off \in Nat /\ End(hs[j]) \in Nat /\ hs[j].off < End(hs[j])
      /\ \A r : r \in Free(hs) <=> \E j \in DOMAIN hs : r \in Nat /\ hs[j].off <= r /\ r < End(hs[j])
  <2>1. /\ n \in Nat /\ DOMAIN hs = 1 .. n
        /\ \A j \in DOMAIN hs : hs[j].off \in Nat /\ hs[j].size \in Nat \ {0}
                                /\ End(hs[j]) = hs[j].off + hs[j].size
        /\ \A r : r \in Free(hs) <=>
              \E j \in DOMAIN hs : r \in Nat /\ hs[j].off <= r /\ r < hs[j].off + hs[j].size
    BY <1>1, RowsOfList
  <2> QED BY <2>1
<1>3. o \in Nat /\ e \in Nat /\ o < e /\ RowsOf(b) = o .. e - 1
  <2>1. o \in Nat /\ b.size \in Nat \ {0} /\ e = o + b.size
    BY DEF Within, Block, End
  <2>2. RowsOf(b) = o .. e - 1
    BY DEF RowsOf
  <2> HIDE DEF o
  <2> QED BY <2>1, <2>2
<1> HIDE DEF n, o, e
<1>4. ASSUME NEW i \in DOMAIN hs
      PROVE  \/ hs[i].off < o /\ End(hs[i]) <= o
             \/ o < hs[i].off /\ e <= hs[i].off
  <2>1. hs[i].off \in Nat /\ End(hs[i]) \in Nat /\ hs[i].off < End(hs[i])
    BY <1>2
  <2>2. ASSUME hs[i].off <= o PROVE End(hs[i]) <= o
    <3> SUFFICES ASSUME o < End(hs[i]) PROVE FALSE
      BY <1>3, <2>1
    <3>1. o \in Free(hs) /\ o \in RowsOf(b)
      BY <1>2, <1>3, <2>2
    <3> QED BY <3>1
  <2>3. ASSUME o < hs[i].off PROVE e <= hs[i].off
    <3> SUFFICES ASSUME hs[i].off < e PROVE FALSE
      BY <1>3, <2>1
    <3>1. hs[i].off \in Free(hs) /\ hs[i].off \in RowsOf(b)
      BY <1>2, <1>3, <2>1, <2>3
    <3> QED BY <3>1
  <2> QED BY <1>3, <2>1, <2>2, <2>3
<1>5. m \in 0 .. n /\ T = 1 .. m
  <2>1. T \subseteq 1 .. n
    BY <1>2
  <2>2. \A i, j \in 1 .. n : i < j /\ j \in T => i \in T
    <3> SUFFICES ASSUME NEW i \in 1 .. n, NEW j \in 1 .. n, i < j, j \in T PROVE i \in T
      OBVIOUS
    <3>1. End(hs[i]) < hs[j].off /\ hs[j].off < o
      BY <1>1, <1>2
    <3> QED BY <1>2, <1>3, <3>1
  <2> HIDE DEF T
  <2> QED BY <1>2, <2>1, <2>2, DownToOne
<1>6. ASSUME NEW i \in DOMAIN hs, i <= m PROVE hs[i].off < o /\ End(hs[i]) <= o
  <2>1. i \in T
    <3> HIDE DEF T, m
    <3> QED BY <1>2, <1>5, <1>6
  <2> QED BY <1>2, <1>3, <1>4, <2>1
<1>7. ASSUME NEW i \in DOMAIN hs, i > m PROVE o < hs[i].off /\ e <= hs[i].off
  <2>1. i \notin T
    <3> HIDE DEF T, m
    <3> QED BY <1>2, <1>5, <1>7
  <2> QED BY <1>2, <1>3, <1>4, <2>1
<1>8. m = Cardinality({i \in DOMAIN hs : hs[i].off < b.off})
  BY DEF o
<1> HIDE DEF m
<1> QED BY <1>5, <1>6, <1>7, <1>8 DEF n, o, e

(* Put where it belongs, it touches at most its two neighbours.             *)
LEMMA PutKeeps ==
  ASSUME NEW hs, FreeList(hs), NEW b, Within(b), RowsOf(b) \cap Free(hs) = {},
         NEW m, m = Cardinality({i \in DOMAIN hs : hs[i].off < b.off})
  PROVE  /\ m \in Nat /\ InOrder(Seqs!InsertAt(hs, 1 + m, b))
         /\ Free(Seqs!InsertAt(hs, 1 + m, b)) = Free(hs) \cup RowsOf(b)
         /\ Touching(Seqs!InsertAt(hs, 1 + m, b)) \subseteq {m, 1 + m}
<1> DEFINE n == Len(hs)
           p == Seqs!InsertAt(hs, 1 + m, b)
<1>1. /\ hs \in Seq(Block) /\ InOrder(hs) /\ b \in Block /\ End(b) <= Rows
      /\ \A j \in DOMAIN hs : End(hs[j]) <= Rows
      /\ \A j, k \in DOMAIN hs : j < k => End(hs[j]) < hs[k].off
  BY StrictlyApart DEF FreeList, InOrder, Within
<1>2. /\ n \in Nat /\ DOMAIN hs = 1 .. n
      /\ \A j \in DOMAIN hs : hs[j].off \in Nat /\ hs[j].size \in Nat \ {0}
                              /\ End(hs[j]) = hs[j].off + hs[j].size
      /\ \A r : r \in Free(hs) <=>
            \E j \in DOMAIN hs : r \in Nat /\ hs[j].off <= r /\ r < hs[j].off + hs[j].size
  BY <1>1, RowsOfList
<1>3. /\ m \in 0 .. n
      /\ \A i \in DOMAIN hs : i <= m => hs[i].off < b.off /\ End(hs[i]) <= b.off
      /\ \A i \in DOMAIN hs : i > m => b.off < hs[i].off /\ End(b) <= hs[i].off
  BY BeforeOrBehind
<1>4. 1 + m \in 1 .. Len(hs) + 1
  BY <1>2, <1>3
<1>5. /\ p \in Seq(Block) /\ Len(p) = n + 1
      /\ \A j \in 1 .. n + 1 : p[j] = IF j < 1 + m THEN hs[j] ELSE IF j = 1 + m THEN b ELSE hs[j - 1]
  <2>1. hs \in Seq(Block) /\ b \in Block
    BY <1>1
  <2> DEFINE at == 1 + m
  <2>2. at \in 1 .. Len(hs) + 1
    BY <1>4
  <2> HIDE DEF at
  <2>3. /\ Seqs!InsertAt(hs, at, b) \in Seq(Block)
        /\ Len(Seqs!InsertAt(hs, at, b)) = Len(hs) + 1
        /\ \A j \in 1 .. Len(hs) + 1 :
             Seqs!InsertAt(hs, at, b)[j] = IF j < at THEN hs[j] ELSE IF j = at THEN b ELSE hs[j - 1]
    BY <2>1, <2>2, Inserted
  <2> QED BY <2>3 DEF at
<1> HIDE DEF n, p
<1>6. /\ DOMAIN p = 1 .. n + 1
      /\ \A j \in DOMAIN p : p[j].off \in Nat /\ p[j].size \in Nat \ {0}
                             /\ End(p[j]) = p[j].off + p[j].size
      /\ \A r : r \in Free(p) <=>
            \E j \in DOMAIN p : r \in Nat /\ p[j].off <= r /\ r < p[j].off + p[j].size
  BY <1>5, RowsOfList
<1>7. ASSUME NEW j \in 1 .. n + 1
      PROVE  /\ j < 1 + m => j \in 1 .. n /\ j <= m /\ p[j] = hs[j]
             /\ j = 1 + m => p[j] = b
             /\ j > 1 + m => j - 1 \in 1 .. n /\ j - 1 > m /\ p[j] = hs[j - 1]
  <2>1. /\ j < 1 + m => j \in 1 .. n /\ j <= m
        /\ j > 1 + m => j - 1 \in 1 .. n /\ j - 1 > m /\ ~(j < 1 + m) /\ j # 1 + m
    BY <1>2, <1>3
  <2>2. 1 + m \in Int
    BY <1>3
  <2> QED BY <1>5, <2>1, <2>2
<1>8. ASSUME NEW j \in 1 .. n + 1, NEW k \in 1 .. n + 1, j < k
      PROVE  /\ End(p[j]) <= p[k].off
             /\ j # 1 + m /\ k # 1 + m => End(p[j]) < p[k].off
  <2>1. CASE k < 1 + m
    <3>1. p[j] = hs[j] /\ p[k] = hs[k] /\ j \in 1 .. n /\ k \in 1 .. n
      BY <1>3, <1>7, <1>8, <2>1
    <3>2. End(hs[j]) < hs[k].off
      BY <1>1, <1>2, <1>8, <3>1
    <3> QED BY <1>2, <3>1, <3>2
  <2>2. CASE k = 1 + m
    <3>1. p[j] = hs[j] /\ p[k] = b /\ j \in 1 .. n /\ j <= m
      BY <1>3, <1>7, <1>8, <2>2
    <3> QED BY <1>2, <1>3, <2>2, <3>1
  <2>3. CASE k > 1 + m /\ j < 1 + m
    <3>1. p[j] = hs[j] /\ p[k] = hs[k - 1] /\ j \in 1 .. n /\ k - 1 \in 1 .. n /\ j < k - 1
      BY <1>3, <1>7, <1>8, <2>3
    <3>2. End(hs[j]) < hs[k - 1].off
      BY <1>1, <1>2, <3>1
    <3> QED BY <1>2, <3>1, <3>2
  <2>4. CASE k > 1 + m /\ j = 1 + m
    <3>1. p[j] = b /\ p[k] = hs[k - 1] /\ k - 1 \in 1 .. n /\ k - 1 > m
      BY <1>3, <1>7, <1>8, <2>4
    <3> QED BY <1>2, <1>3, <2>4, <3>1
  <2>5. CASE k > 1 + m /\ j > 1 + m
    <3>1. p[j] = hs[j - 1] /\ p[k] = hs[k - 1] /\ j - 1 \in 1 .. n /\ k - 1 \in 1 .. n /\ j - 1 < k - 1
      BY <1>3, <1>7, <1>8, <2>5
    <3>2. End(hs[j - 1]) < hs[k - 1].off
      BY <1>1, <1>2, <3>1
    <3> QED BY <1>2, <3>1, <3>2
  <2> QED BY <1>3, <2>1, <2>2, <2>3, <2>4, <2>5
<1>9. ASSUME NEW j \in 1 .. n + 1 PROVE End(p[j]) <= Rows
  <2>1. p[j] = b \/ \E k \in 1 .. n : p[j] = hs[k]
    <3>1. j < 1 + m \/ j = 1 + m \/ j > 1 + m
      BY <1>3
    <3> QED BY <1>7, <3>1
  <2> QED BY <1>1, <1>2, <2>1
<1>10. InOrder(p)
  BY <1>5, <1>6, <1>8, <1>9 DEF InOrder
<1>11. ASSUME NEW j \in Touching(p) PROVE j \in {m, 1 + m}
  <2>1. j \in 1 .. (n + 1) - 1 /\ End(p[j]) = p[j + 1].off
    BY <1>5 DEF Touching
  <2>2. j \in 1 .. n + 1 /\ j + 1 \in 1 .. n + 1 /\ j < j + 1
    BY <1>2, <2>1
  <2>3. ~(j # 1 + m /\ j + 1 # 1 + m)
    <3> DEFINE a == End(p[j])
               d == p[j + 1].off
    <3>1. j # 1 + m /\ j + 1 # 1 + m => a < d
      BY <1>8, <2>2
    <3>2. a = d /\ d \in Nat
      BY <1>6, <2>1, <2>2
    <3> HIDE DEF a, d
    <3> QED BY <3>1, <3>2
  <2> QED BY <1>3, <2>2, <2>3
<1>12. \A r : r \in RowsOf(b) <=> r \in Nat /\ b.off <= r /\ r < b.off + b.size
  <2> DEFINE o == b.off
             z == b.size
  <2>1. o \in Nat /\ z \in Nat /\ End(b) = o + z
    BY <1>1 DEF Block, End
  <2>2. RowsOf(b) = o .. (o + z) - 1
    BY <2>1 DEF RowsOf
  <2> HIDE DEF o, z
  <2>3. \A r : r \in RowsOf(b) <=> r \in Nat /\ o <= r /\ r < o + z
    BY <2>1, <2>2
  <2> QED BY <2>3 DEF o, z
<1>13. ASSUME NEW r PROVE r \in Free(p) <=> r \in Free(hs) \/ r \in RowsOf(b)
  <2>1. ASSUME r \in Free(p) PROVE r \in Free(hs) \/ r \in RowsOf(b)
    <3>1. PICK j \in 1 .. n + 1 : r \in Nat /\ p[j].off <= r /\ r < p[j].off + p[j].size
      BY <1>6, <2>1
    <3>2. p[j] = b \/ \E k \in 1 .. n : p[j] = hs[k]
      <4>1. j < 1 + m \/ j = 1 + m \/ j > 1 + m
        BY <1>3
      <4> QED BY <1>7, <4>1
    <3> QED BY <1>2, <1>12, <3>1, <3>2
  <2>2. ASSUME r \in RowsOf(b) PROVE r \in Free(p)
    <3>1. 1 + m \in 1 .. n + 1
      BY <1>2, <1>3
    <3>2. p[1 + m] = b
      BY <1>7, <3>1
    <3> QED BY <1>6, <1>12, <2>2, <3>1, <3>2
  <2>3. ASSUME r \in Free(hs) PROVE r \in Free(p)
    <3>1. PICK k \in 1 .. n : r \in Nat /\ hs[k].off <= r /\ r < hs[k].off + hs[k].size
      BY <1>2, <2>3
    <3>2. k \in 1 .. n + 1 /\ k + 1 \in 1 .. n + 1 /\ (k + 1) - 1 = k /\ (k < 1 + m \/ k + 1 > 1 + m)
      BY <1>2, <1>3
    <3>3. \E j \in 1 .. n + 1 : p[j] = hs[k]
      BY <1>7, <3>2
    <3> QED BY <1>6, <3>1, <3>3
  <2> QED BY <2>1, <2>2, <2>3
<1>14. Free(p) = Free(hs) \cup RowsOf(b)
  BY <1>13
<1> QED BY <1>3, <1>10, <1>11, <1>14 DEF p

(* pim_free takes back what nobody else has, and the list is one again.     *)
LEMMA GivenBackKeeps ==
  ASSUME NEW hs, FreeList(hs), NEW b, Within(b), RowsOf(b) \cap Free(hs) = {}
  PROVE  /\ ~FreeRefused(hs, b)
         /\ FreeList(GivenBack(hs, b))
         /\ Free(GivenBack(hs, b)) = Free(hs) \cup RowsOf(b)
<1> DEFINE m == Cardinality({i \in DOMAIN hs : hs[i].off < b.off})
           at == 1 + m
           p == Seqs!InsertAt(hs, at, b)
           right == IF at \in Touching(p) THEN Merged(p, at) ELSE p
           g == IF Touching(right) = {} THEN right ELSE Merged(right, Sets!Min(Touching(right)))
<1>1. GivenBack(hs, b) = g
  BY DEF GivenBack
<1>2. ~FreeRefused(hs, b)
  <2>1. /\ hs \in Seq(Block) /\ b \in Block /\ End(b) <= Rows
    BY DEF FreeList, InOrder, Within
  <2>2. /\ Len(hs) \in Nat /\ DOMAIN hs = 1 .. Len(hs)
        /\ \A j \in DOMAIN hs : hs[j].off \in Nat /\ End(hs[j]) \in Nat
    <3>1. /\ Len(hs) \in Nat /\ DOMAIN hs = 1 .. Len(hs)
          /\ \A j \in DOMAIN hs : hs[j].off \in Nat /\ hs[j].size \in Nat \ {0}
                                  /\ End(hs[j]) = hs[j].off + hs[j].size
      BY <2>1, RowsOfList
    <3> QED BY <3>1
  <2>3. b.off \in Nat /\ End(b) \in Nat /\ Rows \in Nat
    BY <2>1, LegacyAssumption DEF Block, End
  <2>4. /\ m \in 0 .. Len(hs)
        /\ \A i \in DOMAIN hs : i <= m => hs[i].off < b.off /\ End(hs[i]) <= b.off
        /\ \A i \in DOMAIN hs : i > m => b.off < hs[i].off /\ End(b) <= hs[i].off
    BY BeforeOrBehind
  <2> HIDE DEF m
  <2>5. \A i \in DOMAIN hs : ~(hs[i].off < b.off /\ End(hs[i]) > b.off)
    BY <2>2, <2>3, <2>4
  <2>6. \A i \in DOMAIN hs : ~(hs[i].off >= b.off /\ End(b) > hs[i].off)
    BY <2>2, <2>3, <2>4
  <2>7. ~(End(b) > Rows)
    BY <2>1, <2>3
  <2> QED BY <2>5, <2>6, <2>7, Zenon DEF FreeRefused
<1>3. m \in Nat /\ InOrder(p) /\ Free(p) = Free(hs) \cup RowsOf(b) /\ Touching(p) \subseteq {m, 1 + m}
  BY PutKeeps
<1> HIDE DEF m, p
<1>4. InOrder(right) /\ Free(right) = Free(p) /\ Touching(right) \subseteq {m}
  <2>1. CASE at \in Touching(p)
    <3>1. right = Merged(p, at)
      BY <2>1
    <3>2. /\ InOrder(right) /\ Free(right) = Free(p)
          /\ \A j : j \in Touching(right) => (j \in Touching(p) /\ j < at) \/ (j + 1 \in Touching(p) /\ j >= at)
      BY <1>3, <2>1, <3>1, MergeKeeps
    <3> HIDE DEF right
    <3>3. ASSUME NEW j \in Touching(right) PROVE j = m
      <4>1. j \in Int
        BY DEF Touching
      <4> QED BY <1>3, <3>2, <4>1
    <3> QED BY <3>2, <3>3
  <2>2. CASE at \notin Touching(p)
    <3>1. right = p
      BY <2>2
    <3> HIDE DEF right
    <3> QED BY <1>3, <2>2, <3>1
  <2> QED BY <2>1, <2>2
<1> HIDE DEF right
<1>5. FreeList(g) /\ Free(g) = Free(right)
  <2>1. CASE Touching(right) = {}
    BY <1>4, <2>1 DEF FreeList
  <2>2. CASE Touching(right) # {}
    <3>1. Touching(right) = {m}
      BY <1>4, <2>2
    <3>2. Sets!Min(Touching(right)) = m
      <4> DEFINE t == Touching(right)
      <4>1. t \subseteq Nat /\ t # {}
        BY <1>3, <3>1
      <4> HIDE DEF t
      <4>2. Sets!Min(t) \in t
        BY <4>1, Smallest
      <4> QED BY <3>1, <4>2 DEF t
    <3>3. g = Merged(right, m) /\ m \in Touching(right)
      BY <2>2, <3>1, <3>2
    <3> HIDE DEF g
    <3>4. /\ InOrder(g) /\ Free(g) = Free(right)
          /\ \A j : j \in Touching(g) => (j \in Touching(right) /\ j < m) \/ (j + 1 \in Touching(right) /\ j >= m)
      BY <1>4, <3>3, MergeKeeps
    <3>5. Touching(g) = {}
      <4> SUFFICES ASSUME NEW j \in Touching(g) PROVE FALSE
        OBVIOUS
      <4>1. j \in Int
        BY DEF Touching
      <4> QED BY <1>3, <3>1, <3>4, <4>1
    <3> QED BY <3>4, <3>5 DEF FreeList
  <2> QED BY <2>1, <2>2
<1> HIDE DEF g
<1> QED BY <1>1, <1>2, <1>3, <1>4, <1>5

------------------------------------------------------------------------------
(* The heap seen as three facts: the free list, the rows in use, their sum. *)
Exact(hs, u, T) ==
  /\ FreeList(hs) /\ T \subseteq 0 .. Rows - 1
  /\ Free(hs) = (0 .. Rows - 1) \ T /\ u = Cardinality(T)

(* Who has them: weights that are allocated, and the two halves of a cache. *)
Lives == {h \in Handle : weight[h] # NoWeight}
BlockOf(h) == [off |-> weight[h].off, size |-> weight[h].size]
KvRows == IF kv = NoKv THEN {} ELSE RowsOf(kv.k) \cup RowsOf(kv.v)
Taken == (UNION {RowsOf(BlockOf(h)) : h \in Lives}) \cup KvRows

(* The inductive invariant: every block in use lies on the card, no two     *)
(* share a row, and the holes are exactly what is left.                     *)
WeightsPlaced == DOMAIN weight = Handle /\ \A h \in Lives : Within(BlockOf(h))
KvPlaced ==
  kv # NoKv => /\ {"k", "v"} \subseteq DOMAIN kv
               /\ Within(kv.k) /\ Within(kv.v) /\ kv.k.size = KRows /\ kv.v.size = VRows
Apart ==
  /\ \A g, h \in Lives : g # h => RowsOf(BlockOf(g)) \cap RowsOf(BlockOf(h)) = {}
  /\ \A h \in Lives : RowsOf(BlockOf(h)) \cap KvRows = {}
  /\ kv # NoKv => RowsOf(kv.k) \cap RowsOf(kv.v) = {}
HInv == Exact(holes, used, Taken) /\ old \subseteq Block /\ WeightsPlaced /\ KvPlaced /\ Apart

------------------------------------------------------------------------------
(* What is asked for is never nothing.                                      *)
LEMMA CeilPositive ==
  ASSUME NEW a \in Nat \ {0}, NEW b \in Nat \ {0}
  PROVE  CeilOf(a, b) \in Nat \ {0}
<1> DEFINE x == (a + b) - 1
<1>1. x \in Nat /\ x >= b
  OBVIOUS
<1> HIDE DEF x
<1>2. x \div b \in Nat \ {0}
  BY <1>1
<1> QED BY <1>2 DEF CeilOf, x

LEMMA WholeQuotient ==
  ASSUME NEW a \in Nat \ {0}, NEW b \in Nat \ {0}, b <= a
  PROVE  a \div b \in Nat \ {0}
OBVIOUS

LEMMA Divides ==
  ASSUME NEW a \in Nat \ {0}, NEW b \in Nat \ {0}, a % b = 0
  PROVE  b <= a
OBVIOUS

LEMMA AtMostOne ==
  ASSUME NEW a \in Nat \ {0}, NEW b \in Nat \ {0}, CeilOf(a, b) = 1
  PROVE  a <= b
<1> DEFINE x == (a + b) - 1
<1>1. x \in Nat /\ x \div b = 1
  BY DEF CeilOf
<1> HIDE DEF x
<1>2. x < b + b
  BY <1>1
<1> QED BY <1>2 DEF x

LEMMA ProductPositive ==
  ASSUME NEW a \in Nat \ {0}, NEW b \in Nat \ {0}
  PROVE  a * b \in Nat \ {0} /\ a <= a * b /\ b <= a * b
OBVIOUS

LEMMA PlanHasRows ==
  ASSUME NEW s \in Shapes
  PROVE  PlanOf(s).size \in Nat \ {0}
<1> DEFINE beats == CeilOf(s.k + s.bias, LLanes)
           nchunks == CeilOf(beats, LBeats)
           ngroups == CeilOf(s.n, LBanks)
           perRow == IF nchunks = 1 THEN LBeats \div beats ELSE 1
           rows == CeilOf(ngroups, perRow)
<1>1. s.n \in Nat \ {0} /\ s.k + s.bias \in Nat \ {0}
  BY LegacyAssumption
<1>2. LLanes \in Nat \ {0} /\ LBeats \in Nat \ {0} /\ LBanks \in Nat \ {0}
  BY LegacyAssumption
<1>3. beats \in Nat \ {0}
  BY <1>1, <1>2, CeilPositive
<1>4. ngroups \in Nat \ {0}
  BY <1>1, <1>2, CeilPositive
<1> HIDE DEF beats, ngroups
<1>5. nchunks \in Nat \ {0}
  BY <1>2, <1>3, CeilPositive
<1>6. perRow \in Nat \ {0}
  <2>1. CASE nchunks = 1
    <3>1. beats <= LBeats
      BY <1>2, <1>3, <2>1, AtMostOne
    <3> QED BY <1>2, <1>3, <2>1, <3>1, WholeQuotient
  <2> QED BY <2>1
<1> HIDE DEF nchunks, perRow
<1>7. rows \in Nat \ {0}
  BY <1>4, <1>6, CeilPositive
<1> HIDE DEF rows
<1>8. rows * nchunks \in Nat \ {0}
  BY <1>5, <1>7, ProductPositive
<1>9. PlanOf(s).size = rows * nchunks
  BY DEF PlanOf, rows, nchunks, perRow, ngroups, beats
<1> QED BY <1>8, <1>9

LEMMA CacheHasRows ==
  KRows \in Nat \ {0} /\ VRows \in Nat \ {0}
<1>1. /\ Hkv \in Nat \ {0} /\ HeadDim \in Nat \ {0} /\ MaxPos \in Nat \ {0}
      /\ LLanes \in Nat \ {0} /\ LBeats \in Nat \ {0} /\ LBanks \in Nat \ {0} /\ RowElems \in Nat \ {0}
  <2>1. /\ Hkv \in Nat \ {0} /\ HeadDim \in Nat \ {0} /\ MaxPos \in Nat \ {0}
        /\ LLanes \in Nat \ {0} /\ LBeats \in Nat \ {0} /\ LBanks \in Nat \ {0}
    BY LegacyAssumption, KvAssumption
  <2> QED BY <2>1, ProductPositive DEF RowElems
<1>2. HeadDim % LLanes = 0 /\ Dims % LBanks = 0 /\ LBeats % PosBeats = 0
  BY KvAssumption DEF Dims, PosBeats
<1>3. Dims \in Nat \ {0} /\ HeadDim <= Dims
  BY <1>1, ProductPositive DEF Dims
<1>4. LLanes <= Dims /\ LBanks <= Dims
  <2>1. LLanes <= HeadDim /\ LBanks <= Dims
    BY <1>1, <1>2, <1>3, Divides
  <2> QED BY <1>1, <1>3, <2>1
<1>5. PosBeats \in Nat \ {0} /\ VGroups \in Nat \ {0}
  BY <1>1, <1>3, <1>4, WholeQuotient DEF PosBeats, VGroups
<1>6. PosPerRow \in Nat \ {0}
  <2>1. PosBeats <= LBeats
    BY <1>1, <1>2, <1>5, Divides
  <2> QED BY <1>1, <1>5, <2>1, WholeQuotient DEF PosPerRow
<1>7. CeilOf(MaxPos, LBanks) \in Nat \ {0} /\ VChunks \in Nat \ {0}
  BY <1>1, CeilPositive DEF VChunks
<1>8. KRows \in Nat \ {0}
  BY <1>6, <1>7, CeilPositive DEF KRows
<1>9. VRows \in Nat \ {0}
  BY <1>5, <1>7, ProductPositive DEF VRows
<1> QED BY <1>8, <1>9

------------------------------------------------------------------------------
(* The rows of one block.                                                   *)
LEMMA RowsOfBlock ==
  ASSUME NEW b, Within(b)
  PROVE  /\ RowsOf(b) \subseteq 0 .. Rows - 1 /\ RowsOf(b) # {}
         /\ IsFiniteSet(RowsOf(b)) /\ Cardinality(RowsOf(b)) = b.size
<1> DEFINE o == b.off
           z == b.size
<1>1. o \in Nat /\ z \in Nat \ {0} /\ End(b) = o + z /\ o + z <= Rows /\ Rows \in Nat
  BY LegacyAssumption DEF Within, Block, End
<1>2. RowsOf(b) = o .. (o + z) - 1
  BY <1>1 DEF RowsOf
<1> HIDE DEF o, z
<1>3. o .. (o + z) - 1 \subseteq 0 .. Rows - 1 /\ o \in o .. (o + z) - 1
  BY <1>1
<1>4. /\ IsFiniteSet(o .. (o + z) - 1)
      /\ Cardinality(o .. (o + z) - 1) = IF o > (o + z) - 1 THEN 0 ELSE ((o + z) - 1) - o + 1
  <2>1. o \in Int /\ (o + z) - 1 \in Int
    BY <1>1
  <2> QED BY <2>1, FS_Interval
<1>5. Cardinality(o .. (o + z) - 1) = z
  BY <1>1, <1>4
<1> QED BY <1>2, <1>3, <1>4, <1>5 DEF z

LEMMA CardIsFinite ==
  ASSUME NEW T, T \subseteq 0 .. Rows - 1
  PROVE  IsFiniteSet(T) /\ Cardinality(T) \in Nat
<1>1. 0 \in Int /\ Rows - 1 \in Int
  BY LegacyAssumption
<1>2. IsFiniteSet(0 .. Rows - 1)
  BY <1>1, FS_Interval
<1>3. IsFiniteSet(T)
  BY <1>2, FS_Subset
<1> QED BY <1>3, FS_CardinalityType

(* A block taken: nobody had a row of it, and it is counted.                *)
LEMMA TakeKeeps ==
  ASSUME NEW hs, NEW u, NEW T, Exact(hs, u, T), NEW want \in Nat \ {0}, Fits(hs, want) # {}
  PROVE  /\ Exact(Carved(hs, want), u + want, T \cup RowsOf(PlacedAt(hs, want)))
         /\ Within(PlacedAt(hs, want)) /\ PlacedAt(hs, want).size = want
         /\ RowsOf(PlacedAt(hs, want)) \cap T = {}
<1> DEFINE p == PlacedAt(hs, want)
           c == Carved(hs, want)
<1>1. FreeList(hs) /\ T \subseteq 0 .. Rows - 1 /\ Free(hs) = (0 .. Rows - 1) \ T /\ u = Cardinality(T)
  BY DEF Exact
<1>2. /\ FreeList(c) /\ Within(p) /\ p.size = want
      /\ RowsOf(p) \subseteq Free(hs) /\ Free(c) = Free(hs) \ RowsOf(p)
  BY <1>1, CarveKeeps
<1> HIDE DEF c, p
<1>3. /\ RowsOf(p) \subseteq 0 .. Rows - 1 /\ IsFiniteSet(RowsOf(p)) /\ Cardinality(RowsOf(p)) = want
  BY <1>2, RowsOfBlock
<1>4. RowsOf(p) \cap T = {}
  BY <1>1, <1>2
<1>5. Cardinality(T \cup RowsOf(p)) = u + want
  <2>1. IsFiniteSet(T) /\ Cardinality(T) \in Nat
    BY <1>1, CardIsFinite
  <2>2. Cardinality(T \cup RowsOf(p)) = Cardinality(T) + Cardinality(RowsOf(p)) - Cardinality(T \cap RowsOf(p))
    BY <1>3, <2>1, FS_Union
  <2>3. T \cap RowsOf(p) = {}
    BY <1>4
  <2>4. Cardinality(T \cap RowsOf(p)) = 0
    BY <2>3, FS_EmptySet
  <2> QED BY <1>1, <1>3, <2>1, <2>2, <2>4
<1>6. Free(c) = (0 .. Rows - 1) \ (T \cup RowsOf(p)) /\ T \cup RowsOf(p) \subseteq 0 .. Rows - 1
  BY <1>1, <1>2, <1>3
<1>7. Exact(c, u + want, T \cup RowsOf(p))
  BY <1>2, <1>5, <1>6 DEF Exact
<1> QED BY <1>2, <1>4, <1>7 DEF c, p

(* A block given back: never refused to who has it.                         *)
LEMMA GiveKeeps ==
  ASSUME NEW hs, NEW u, NEW T, Exact(hs, u, T), NEW b, Within(b), RowsOf(b) \subseteq T
  PROVE  /\ ~FreeRefused(hs, b)
         /\ Exact(GivenBack(hs, b), u - b.size, T \ RowsOf(b))
<1> DEFINE g == GivenBack(hs, b)
<1>1. FreeList(hs) /\ T \subseteq 0 .. Rows - 1 /\ Free(hs) = (0 .. Rows - 1) \ T /\ u = Cardinality(T)
  BY DEF Exact
<1>2. RowsOf(b) \cap Free(hs) = {}
  BY <1>1
<1>3. ~FreeRefused(hs, b) /\ FreeList(g) /\ Free(g) = Free(hs) \cup RowsOf(b)
  BY <1>1, <1>2, GivenBackKeeps
<1> HIDE DEF g
<1>4. RowsOf(b) \subseteq 0 .. Rows - 1 /\ Cardinality(RowsOf(b)) = b.size
  BY RowsOfBlock
<1>5. Cardinality(T \ RowsOf(b)) = u - b.size
  <2>1. IsFiniteSet(T)
    BY <1>1, CardIsFinite
  <2>2. Cardinality(T \ RowsOf(b)) = Cardinality(T) - Cardinality(T \cap RowsOf(b))
    BY <2>1, FS_Difference
  <2>3. T \cap RowsOf(b) = RowsOf(b)
    OBVIOUS
  <2> QED BY <1>1, <1>4, <2>2, <2>3
<1>6. Free(g) = (0 .. Rows - 1) \ (T \ RowsOf(b)) /\ T \ RowsOf(b) \subseteq 0 .. Rows - 1
  BY <1>1, <1>3, <1>4
<1>7. Exact(g, u - b.size, T \ RowsOf(b))
  BY <1>3, <1>5, <1>6 DEF Exact
<1> QED BY <1>3, <1>7 DEF g

(* The list that pim_open starts with.                                      *)
LEMMA OneHole == Exact(<<[off |-> 0, size |-> Rows]>>, 0, {})
<1> DEFINE b == [off |-> 0, size |-> Rows]
           hs == <<b>>
<1>1. Rows \in Nat \ {0}
  BY LegacyAssumption
<1>2. b \in Block /\ b.off = 0 /\ End(b) = Rows
  BY <1>1 DEF Block, End
<1>3. RowsOf(b) = 0 .. Rows - 1
  BY <1>2 DEF RowsOf
<1> HIDE DEF b
<1>4. hs \in Seq(Block) /\ Len(hs) = 1 /\ DOMAIN hs = {1} /\ hs[1] = b
  <2>1. hs \in Seq(Block) /\ Len(hs) = 1 /\ hs[1] = b
    BY <1>2
  <2>2. DOMAIN hs = 1 .. 1
    BY <2>1
  <2>3. 1 .. 1 = {1}
    OBVIOUS
  <2> QED BY <2>1, <2>2, <2>3
<1> HIDE DEF hs
<1>5. InOrder(hs)
  <2>1. \A i \in DOMAIN hs : End(hs[i]) <= Rows
    BY <1>1, <1>2, <1>4
  <2>2. \A i, j \in DOMAIN hs : i < j => End(hs[i]) <= hs[j].off
    BY <1>4
  <2> QED BY <1>4, <2>1, <2>2 DEF InOrder
<1>6. Touching(hs) = {}
  BY <1>4 DEF Touching
<1>7. Free(hs) = 0 .. Rows - 1
  BY <1>3, <1>4 DEF Free
<1>8. Cardinality({}) = 0
  BY FS_EmptySet
<1>9. Exact(hs, 0, {})
  BY <1>5, <1>6, <1>7, <1>8 DEF Exact, FreeList
<1> QED BY <1>9 DEF hs, b

------------------------------------------------------------------------------
(* Where a weight comes to lie.                                             *)
LEMMA PlanPlaced ==
  ASSUME NEW s, NEW p
  PROVE  /\ PlanAt(PlanOf(s), p).off = p.off
         /\ PlanAt(PlanOf(s), p).size = PlanOf(s).size
<1> DEFINE w == PlanOf(s)
<1>1. DOMAIN w = {"n", "k", "bias", "beats", "ngroups", "nchunks", "perRow", "last", "size"}
  BY DEF PlanOf
<1> HIDE DEF w
<1>2. PlanAt(w, p)["off"] = p.off /\ PlanAt(w, p)["size"] = w["size"]
  BY <1>1 DEF PlanAt
<1> QED BY <1>2 DEF w

(* What is in use, row by row.                                              *)
LEMMA TakenRows ==
  \A r : r \in Taken <=> (\E h \in Lives : r \in RowsOf(BlockOf(h))) \/ r \in KvRows
<1> DEFINE U == UNION {RowsOf(BlockOf(h)) : h \in Lives}
<1>1. \A r : r \in U <=> \E h \in Lives : r \in RowsOf(BlockOf(h))
  OBVIOUS
<1>2. Taken = U \cup KvRows
  BY DEF Taken
<1> HIDE DEF U
<1> QED BY <1>1, <1>2

(* A step that leaves the heap, the weights and the places of a cache.      *)
LEMMA HeapKept ==
  ASSUME HInv, holes' = holes, used' = used, old' \subseteq old, weight' = weight,
         kv = NoKv <=> kv' = NoKv,
         kv # NoKv => DOMAIN kv' = DOMAIN kv /\ kv'.k = kv.k /\ kv'.v = kv.v
  PROVE  HInv'
<1>1. Lives' = Lives /\ \A h : BlockOf(h)' = BlockOf(h)
  BY DEF Lives, BlockOf
<1>2. KvRows' = KvRows
  <2>1. CASE kv = NoKv
    BY <2>1 DEF KvRows
  <2>2. CASE kv # NoKv
    BY <2>2 DEF KvRows, RowsOf, End
  <2> QED BY <2>1, <2>2
<1>3. Taken' = Taken
  BY <1>1, <1>2 DEF Taken, RowsOf, End
<1>4. Exact(holes, used, Taken)'
  BY <1>3 DEF HInv, Exact
<1>5. WeightsPlaced'
  BY <1>1 DEF HInv, WeightsPlaced, Within
<1>6. KvPlaced'
  BY DEF HInv, KvPlaced
<1>7. Apart'
  BY <1>1, <1>2 DEF HInv, Apart, RowsOf, End
<1> QED BY <1>4, <1>5, <1>6, <1>7 DEF HInv

------------------------------------------------------------------------------
(* The steps of the heap.                                                   *)
LEMMA AllocKeepsHeap ==
  ASSUME HInv, NEW h \in Handle, NEW s \in Shapes, WeightAlloc(h, s), UNCHANGED kv
  PROVE  HInv'
<1> DEFINE want == PlanOf(s).size
           p == PlacedAt(holes, want)
           w == PlanAt(PlanOf(s), p)
<1>1. CASE Fits(holes, want) = {}
  <2>1. holes' = holes /\ used' = used /\ weight' = weight /\ old' = old
    BY <1>1 DEF WeightAlloc
  <2> QED BY <2>1, HeapKept
<1>2. CASE Fits(holes, want) # {}
  <2>1. /\ holes' = Carved(holes, want) /\ used' = used + want /\ old' = old
        /\ weight' = [weight EXCEPT ![h] = w] /\ weight[h] = NoWeight
    BY <1>2 DEF WeightAlloc, Grow
  <2>2. want \in Nat \ {0}
    BY PlanHasRows
  <2>3. w.off = p.off /\ w.size = want
    BY PlanPlaced
  <2> HIDE DEF want, p, w
  <2>4. /\ Exact(holes, used, Taken) /\ DOMAIN weight = Handle /\ old \subseteq Block
        /\ \A g \in Lives : Within(BlockOf(g))
    BY DEF HInv, WeightsPlaced
  <2>5. /\ Exact(Carved(holes, want), used + want, Taken \cup RowsOf(PlacedAt(holes, want)))
        /\ Within(PlacedAt(holes, want)) /\ PlacedAt(holes, want).size = want
        /\ RowsOf(PlacedAt(holes, want)) \cap Taken = {}
    BY <1>2, <2>2, <2>4, TakeKeeps DEF want
  <2>6. /\ Exact(holes', used', Taken \cup RowsOf(p))
        /\ Within(p) /\ p.size = want /\ RowsOf(p) \cap Taken = {}
    BY <2>1, <2>5 DEF p
  <2>7. weight'[h] = w /\ \A g \in Handle : g # h => weight'[g] = weight[g]
    BY <2>1, <2>4
  <2>8. w # NoWeight
    BY <2>2, <2>3 DEF NoWeight
  <2>9. Lives' = Lives \cup {h} /\ h \notin Lives
    BY <2>1, <2>7, <2>8 DEF Lives
  <2>10. /\ BlockOf(h)' = p /\ \A g \in Lives : BlockOf(g)' = BlockOf(g)
    <3>1. p = [off |-> p.off, size |-> p.size]
      BY <2>6 DEF Within, Block
    <3>2. BlockOf(h)' = [off |-> w.off, size |-> w.size]
      BY <2>7 DEF BlockOf
    <3>3. \A g \in Lives : BlockOf(g)' = BlockOf(g)
      BY <2>7, <2>9 DEF BlockOf, Lives
    <3> QED BY <2>3, <2>6, <3>1, <3>2, <3>3
  <2>11. KvRows' = KvRows
    BY DEF KvRows, RowsOf, End
  <2>12. /\ RowsOf(BlockOf(h))' = RowsOf(p)
         /\ \A g \in Lives : RowsOf(BlockOf(g))' = RowsOf(BlockOf(g))
    BY <2>10 DEF RowsOf, End
  <2>13. Taken' = Taken \cup RowsOf(p)
    BY <2>9, <2>11, <2>12 DEF Taken
  <2>14. Exact(holes, used, Taken)'
    BY <2>6, <2>13 DEF Exact
  <2>15. WeightsPlaced'
    BY <2>1, <2>4, <2>6, <2>9, <2>10 DEF WeightsPlaced, Within
  <2>16. KvPlaced'
    BY DEF HInv, KvPlaced
  <2>17. Apart'
    <3>1. \A g \in Lives : RowsOf(BlockOf(g)) \cap RowsOf(p) = {}
      BY <2>6, TakenRows
    <3>2. KvRows \cap RowsOf(p) = {}
      BY <2>6, TakenRows
    <3>3. ASSUME NEW f \in Lives', NEW g \in Lives', f # g
          PROVE  RowsOf(BlockOf(f))' \cap RowsOf(BlockOf(g))' = {}
      <4>1. CASE f = h
        BY <2>9, <2>12, <3>1, <3>3, <4>1
      <4>2. CASE g = h
        BY <2>9, <2>12, <3>1, <3>3, <4>2
      <4>3. CASE f # h /\ g # h
        <5>1. RowsOf(BlockOf(f)) \cap RowsOf(BlockOf(g)) = {}
          BY <2>9, <3>3, <4>3 DEF HInv, Apart
        <5> QED BY <2>9, <2>12, <4>3, <5>1
      <4> QED BY <4>1, <4>2, <4>3
    <3>4. ASSUME NEW g \in Lives' PROVE RowsOf(BlockOf(g))' \cap KvRows' = {}
      <4>1. CASE g = h
        BY <2>11, <2>12, <3>2, <4>1
      <4>2. CASE g # h
        BY <2>9, <2>11, <2>12, <4>2 DEF HInv, Apart
      <4> QED BY <4>1, <4>2
    <3>5. kv' # NoKv => RowsOf(kv.k)' \cap RowsOf(kv.v)' = {}
      BY DEF HInv, Apart, RowsOf, End
    <3> QED BY <3>3, <3>4, <3>5 DEF Apart
  <2> QED BY <2>1, <2>4, <2>14, <2>15, <2>16, <2>17 DEF HInv
<1> QED BY <1>1, <1>2

LEMMA FreeKeepsHeap ==
  ASSUME HInv, NEW h \in Handle, NEW copied \in BOOLEAN, WeightFree(h, copied), UNCHANGED kv
  PROVE  HInv'
<1> DEFINE b == BlockOf(h)
<1>1. /\ weight[h] # NoWeight /\ weight' = [weight EXCEPT ![h] = NoWeight]
      /\ IF FreeRefused(holes, b) THEN UNCHANGED <<holes, used>>
         ELSE holes' = GivenBack(holes, b) /\ used' = used - b.size
      /\ old' \subseteq old \cup {b}
  BY DEF WeightFree, BlockOf
<1>2. /\ Exact(holes, used, Taken) /\ DOMAIN weight = Handle /\ old \subseteq Block
      /\ \A g \in Lives : Within(BlockOf(g))
  BY DEF HInv, WeightsPlaced
<1>3. h \in Lives /\ Within(b) /\ RowsOf(b) \subseteq Taken
  <2>1. h \in Lives
    BY <1>1 DEF Lives
  <2> QED BY <1>2, <2>1, TakenRows
<1> HIDE DEF b
<1>4. ~FreeRefused(holes, b) /\ Exact(GivenBack(holes, b), used - b.size, Taken \ RowsOf(b))
  BY <1>2, <1>3, GiveKeeps
<1>5. Exact(holes', used', Taken \ RowsOf(b))
  BY <1>1, <1>4
<1>6. weight'[h] = NoWeight /\ \A g \in Handle : g # h => weight'[g] = weight[g]
  BY <1>1, <1>2
<1>7. Lives' = Lives \ {h}
  BY <1>6 DEF Lives
<1>8. \A g \in Lives' : BlockOf(g)' = BlockOf(g) /\ RowsOf(BlockOf(g))' = RowsOf(BlockOf(g))
  BY <1>6, <1>7 DEF BlockOf, Lives, RowsOf, End
<1>9. KvRows' = KvRows
  BY DEF KvRows, RowsOf, End
<1>10. \A g \in Lives' : RowsOf(BlockOf(g)) \cap RowsOf(b) = {}
  BY <1>3, <1>7 DEF HInv, Apart, b
<1>11. KvRows \cap RowsOf(b) = {}
  BY <1>3 DEF HInv, Apart, b
<1>12. Taken' = Taken \ RowsOf(b)
  <2>1. \A r : r \in Taken' <=> (\E g \in Lives' : r \in RowsOf(BlockOf(g))') \/ r \in KvRows'
    <3> DEFINE V == UNION {RowsOf(BlockOf(g))' : g \in Lives'}
    <3>1. \A r : r \in V <=> \E g \in Lives' : r \in RowsOf(BlockOf(g))'
      OBVIOUS
    <3>2. Taken' = V \cup KvRows'
      BY DEF Taken
    <3> HIDE DEF V
    <3> QED BY <3>1, <3>2
  <2>2. ASSUME NEW r PROVE r \in Taken' <=> r \in Taken /\ r \notin RowsOf(b)
    <3>1. r \in Taken' <=> (\E g \in Lives' : r \in RowsOf(BlockOf(g))) \/ r \in KvRows
      BY <1>8, <1>9, <2>1
    <3>2. ASSUME r \in Taken' PROVE r \in Taken /\ r \notin RowsOf(b)
      BY <1>7, <1>10, <1>11, <3>1, <3>2, TakenRows
    <3>3. ASSUME r \in Taken, r \notin RowsOf(b) PROVE r \in Taken'
      BY <1>7, <3>1, <3>3, TakenRows DEF b
    <3> QED BY <3>2, <3>3
  <2> QED BY <2>2
<1>13. Exact(holes, used, Taken)'
  BY <1>5, <1>12 DEF Exact
<1>14. old' \subseteq Block
  BY <1>1, <1>2, <1>3 DEF Within
<1>15. WeightsPlaced'
  BY <1>1, <1>2, <1>7, <1>8 DEF WeightsPlaced, Within
<1>16. KvPlaced'
  BY DEF HInv, KvPlaced
<1>17. Apart'
  <2>1. \A f, g \in Lives' : f # g => RowsOf(BlockOf(f))' \cap RowsOf(BlockOf(g))' = {}
    BY <1>7, <1>8 DEF HInv, Apart
  <2>2. \A g \in Lives' : RowsOf(BlockOf(g))' \cap KvRows' = {}
    BY <1>7, <1>8, <1>9 DEF HInv, Apart
  <2>3. kv' # NoKv => RowsOf(kv.k)' \cap RowsOf(kv.v)' = {}
    BY DEF HInv, Apart, RowsOf, End
  <2> QED BY <2>1, <2>2, <2>3 DEF Apart
<1> QED BY <1>13, <1>14, <1>15, <1>16, <1>17 DEF HInv

(* A copy of a handle that was freed is refused while a hole overlaps it.   *)
LEMMA FreeAgainKeepsHeap ==
  ASSUME HInv, NEW b \in old, FreeAgain(b), UNCHANGED kv
  PROVE  HInv'
<1>1. b \in Block /\ holes \in Seq(Block)
  BY DEF HInv, Exact, FreeList, InOrder
<1>2. b.off \in Nat /\ \A i \in DOMAIN holes : holes[i].off \in Nat
  BY <1>1, RowsOfList DEF Block
<1>3. PICK i \in DOMAIN holes : holes[i].off < End(b) /\ End(holes[i]) > b.off
  BY DEF FreeAgain
<1>4. holes[i].off < b.off \/ holes[i].off >= b.off
  BY <1>2
<1>5. FreeRefused(holes, b)
  <2>1. CASE holes[i].off < b.off
    BY <1>3, <2>1 DEF FreeRefused
  <2>2. CASE holes[i].off >= b.off
    <3>1. End(b) > holes[i].off
      BY <1>3
    <3> QED BY <2>2, <3>1 DEF FreeRefused
  <2> QED BY <1>4, <2>1, <2>2
<1>6. holes' = holes /\ used' = used /\ weight' = weight /\ old' \subseteq old
  BY <1>5 DEF FreeAgain, contents
<1> QED BY <1>6, HeapKept

------------------------------------------------------------------------------
(* What an append or a flush changes of a cache is not where it lies.       *)
SamePlaces(c, d) == DOMAIN d = DOMAIN c /\ d.k = c.k /\ d.v = c.v

LEMMA FlushStays ==
  ASSUME NEW c, NEW mem, {"k", "v"} \subseteq DOMAIN c, Flush(c, mem)
  PROVE  SamePlaces(c, kv')
<1>1. SamePlaces(c, c)
  BY DEF SamePlaces
<1>2. SamePlaces(c, [c EXCEPT !.torn = TRUE])
  BY DEF SamePlaces
<1>3. SamePlaces(c, Slid(c))
  <2> DEFINE f == c.flushed + Whole(c)
             p == [i \in DOMAIN c.pending |->
                     IF i < Held(c) - Whole(c) THEN c.pending[i + Whole(c)] ELSE c.pending[i]]
  <2>1. Slid(c) = [c EXCEPT !.flushed = f, !.pending = p]
    BY DEF Slid
  <2> HIDE DEF f, p
  <2>2. SamePlaces(c, [c EXCEPT !.flushed = f, !.pending = p])
    BY DEF SamePlaces
  <2> QED BY <2>1, <2>2
<1>4. kv' = c \/ kv' = [c EXCEPT !.torn = TRUE] \/ kv' = Slid(c)
  BY Zenon DEF Flush
<1> QED BY <1>1, <1>2, <1>3, <1>4

LEMMA CacheKept ==
  ASSUME HInv, kv # NoKv, SamePlaces(kv, kv'), holes' = holes, used' = used, old' = old, weight' = weight
  PROVE  HInv'
<1>1. "k" \in DOMAIN kv
  BY DEF HInv, KvPlaced
<1>2. kv' # NoKv
  <2>1. "k" \in DOMAIN kv' /\ DOMAIN NoKv = {"npos"}
    BY <1>1 DEF SamePlaces, NoKv
  <2> QED BY <2>1
<1> QED BY <1>2, HeapKept DEF SamePlaces

LEMMA AppendKeepsHeap ==
  ASSUME HInv, KvAppend
  PROVE  HInv'
<1> DEFINE t == kv.npos
           x == <<KRow(kv, t \div LBanks), t % LBanks>>
           from == KCol(t \div LBanks, 0) * LLanes
           mem == [dram EXCEPT ![x] = [e \in DOMAIN @ |-> IF e - from \in 0 .. Dims - 1
                                                          THEN KElem(t, e - from) ELSE @[e]]]
           c == [kv EXCEPT !.npos = @ + 1, !.pending[t % kv.gran] = t,
                           !.skewed = @ \/ kv.flushed % kv.gran # 0]
<1>1. /\ kv # NoKv
      /\ \/ IF c.npos % kv.gran = 0 THEN Flush(c, mem) ELSE kv' = c /\ dram' = mem
         \/ kv' = kv
      /\ holes' = holes /\ used' = used /\ old' = old /\ weight' = weight
  BY Zenon DEF KvAppend, heap
<1>2. {"k", "v"} \subseteq DOMAIN kv
  BY <1>1 DEF HInv, KvPlaced
<1>3. SamePlaces(kv, c)
  BY <1>2, Zenon DEF SamePlaces
<1> HIDE DEF c, mem
<1>4. {"k", "v"} \subseteq DOMAIN c
  BY <1>2, <1>3 DEF SamePlaces
<1>5. SamePlaces(kv, kv')
  <2>1. CASE kv' = kv
    BY <2>1 DEF SamePlaces
  <2>2. CASE kv' = c
    BY <1>3, <2>2
  <2>3. CASE Flush(c, mem)
    <3>1. SamePlaces(c, kv')
      BY <1>4, <2>3, FlushStays
    <3> QED BY <1>3, <3>1 DEF SamePlaces
  <2> QED BY <1>1, <2>1, <2>2, <2>3
<1> QED BY <1>1, <1>5, CacheKept

LEMMA FlushKeepsHeap ==
  ASSUME HInv, FlushByHand
  PROVE  HInv'
<1>1. kv # NoKv /\ Flush(kv, dram) /\ holes' = holes /\ used' = used /\ old' = old /\ weight' = weight
  BY DEF FlushByHand, heap
<1>2. {"k", "v"} \subseteq DOMAIN kv
  BY <1>1 DEF HInv, KvPlaced
<1>3. SamePlaces(kv, kv')
  BY <1>1, <1>2, FlushStays
<1> QED BY <1>1, <1>3, CacheKept

(* pim_kv_alloc: both halves, or what it took of the first goes back.       *)
LEMMA KvAllocKeepsHeap ==
  ASSUME HInv, KvAlloc
  PROVE  HInv'
<1> DEFINE k == PlacedAt(holes, KRows)
           v == PlacedAt(Carved(holes, KRows), VRows)
           T1 == Taken \cup RowsOf(k)
           T2 == T1 \cup RowsOf(v)
<1>1. kv = NoKv /\ old' = old /\ weight' = weight /\ KRows \in Nat \ {0} /\ VRows \in Nat \ {0}
  BY CacheHasRows DEF KvAlloc
<1>2. /\ Exact(holes, used, Taken) /\ DOMAIN weight = Handle /\ old \subseteq Block
      /\ \A g \in Lives : Within(BlockOf(g))
  BY DEF HInv, WeightsPlaced
<1>3. Lives' = Lives /\ \A g : BlockOf(g)' = BlockOf(g) /\ RowsOf(BlockOf(g))' = RowsOf(BlockOf(g))
  BY <1>1 DEF Lives, BlockOf, RowsOf, End
<1>4. CASE Fits(holes, KRows) = {} \/ Fits(Carved(holes, KRows), VRows) = {}
  <2>1. holes' = holes /\ used' = used /\ kv' = kv
    BY <1>4 DEF KvAlloc
  <2> QED BY <1>1, <2>1, HeapKept
<1>5. CASE Fits(holes, KRows) # {} /\ Fits(Carved(holes, KRows), VRows) # {}
  <2>1. /\ Exact(Carved(holes, KRows), used + KRows, T1)
        /\ Within(k) /\ k.size = KRows /\ RowsOf(k) \cap Taken = {}
    BY <1>1, <1>2, <1>5, TakeKeeps
  <2>2. /\ Exact(KvTaken, (used + KRows) + VRows, T2)
        /\ Within(v) /\ v.size = VRows /\ RowsOf(v) \cap T1 = {}
    BY <1>1, <1>5, <2>1, TakeKeeps DEF KvTaken
  <2>3. \/ /\ holes' = KvTaken /\ used' = used + KRows + VRows
           /\ {"k", "v"} \subseteq DOMAIN kv' /\ kv'.k = k /\ kv'.v = v
        \/ /\ holes' = GivenBack(GivenBack(KvTaken, k), v) /\ used' = used /\ kv' = kv
    <3> DEFINE buf(n) == [i \in 0 .. n - 1 |-> Nothing]
               d(n) == [k |-> k, v |-> v, npos |-> 0, flushed |-> 0, torn |-> FALSE, skewed |-> FALSE,
                        gran |-> n, pending |-> buf(n)]
    <3>1. \/ /\ holes' = KvTaken /\ used' = used + KRows + VRows /\ \E n \in FlushGran : kv' = d(n)
          \/ /\ holes' = GivenBack(GivenBack(KvTaken, k), v) /\ used' = used /\ kv' = kv
      BY <1>5, Zenon DEF KvAlloc
    <3> HIDE DEF k, v, buf
    <3>2. \A n : {"k", "v"} \subseteq DOMAIN d(n) /\ d(n).k = k /\ d(n).v = v
      OBVIOUS
    <3> HIDE DEF d
    <3> QED BY <3>1, <3>2, Zenon
  <2> HIDE DEF k, v
  <2>4. RowsOf(k) \subseteq T2 /\ RowsOf(v) \subseteq T2 \ RowsOf(k) /\ (T2 \ RowsOf(k)) \ RowsOf(v) = Taken
    BY <2>1, <2>2
  <2>5. CASE /\ holes' = KvTaken /\ used' = used + KRows + VRows
             /\ {"k", "v"} \subseteq DOMAIN kv' /\ kv'.k = k /\ kv'.v = v
    <3>1. kv' # NoKv
      <4>1. "k" \in DOMAIN kv' /\ DOMAIN NoKv = {"npos"}
        BY <2>5 DEF NoKv
      <4> QED BY <4>1
    <3>2. RowsOf(kv.k)' = RowsOf(k) /\ RowsOf(kv.v)' = RowsOf(v)
      BY <2>5 DEF RowsOf, End
    <3>3. KvRows' = RowsOf(k) \cup RowsOf(v) /\ KvRows = {}
      BY <1>1, <3>1, <3>2 DEF KvRows
    <3>4. Taken' = T2
      BY <1>3, <3>3 DEF Taken
    <3>5. Exact(holes, used, Taken)'
      BY <2>2, <2>5, <3>4 DEF Exact
    <3>6. WeightsPlaced'
      BY <1>1, <1>2, <1>3 DEF WeightsPlaced, Within
    <3>7. KvPlaced'
      BY <2>1, <2>2, <2>5 DEF KvPlaced, Within
    <3>8. Apart'
      <4>1. \A f, g \in Lives' : f # g => RowsOf(BlockOf(f))' \cap RowsOf(BlockOf(g))' = {}
        BY <1>3 DEF HInv, Apart
      <4>2. \A g \in Lives' : RowsOf(BlockOf(g))' \cap KvRows' = {}
        <5>1. \A g \in Lives : RowsOf(BlockOf(g)) \subseteq Taken
          BY TakenRows
        <5> QED BY <1>3, <2>1, <2>2, <3>3, <5>1
      <4>3. RowsOf(kv.k)' \cap RowsOf(kv.v)' = {}
        BY <2>2, <3>2
      <4> QED BY <4>1, <4>2, <4>3 DEF Apart
    <3> QED BY <1>1, <1>2, <3>5, <3>6, <3>7, <3>8 DEF HInv
  <2>6. CASE holes' = GivenBack(GivenBack(KvTaken, k), v) /\ used' = used /\ kv' = kv
    <3>1. Exact(GivenBack(KvTaken, k), ((used + KRows) + VRows) - k.size, T2 \ RowsOf(k))
      BY <2>1, <2>2, <2>4, GiveKeeps
    <3>2. Exact(holes', (((used + KRows) + VRows) - k.size) - v.size, (T2 \ RowsOf(k)) \ RowsOf(v))
      BY <2>2, <2>4, <2>6, <3>1, GiveKeeps
    <3>3. Exact(holes', used', Taken)
      <4>1. used \in Nat
        BY <1>2, CardIsFinite DEF Exact
      <4>2. (((used + KRows) + VRows) - k.size) - v.size = used
        BY <1>1, <2>1, <2>2, <4>1
      <4> QED BY <2>4, <2>6, <3>2, <4>2
    <3>4. KvRows' = KvRows
      BY <2>6 DEF KvRows, RowsOf, End
    <3>5. Taken' = Taken
      BY <1>3, <3>4 DEF Taken
    <3>6. Exact(holes, used, Taken)'
      BY <3>3, <3>5 DEF Exact
    <3>7. WeightsPlaced'
      BY <1>1, <1>2, <1>3 DEF WeightsPlaced, Within
    <3>8. KvPlaced' /\ Apart'
      BY <1>1, <1>3, <2>6, <3>4 DEF HInv, KvPlaced, Apart
    <3> QED BY <1>1, <1>2, <3>6, <3>7, <3>8 DEF HInv
  <2> QED BY <2>3, <2>5, <2>6
<1> QED BY <1>4, <1>5

LEMMA KvFreeKeepsHeap ==
  ASSUME HInv, KvFree
  PROVE  HInv'
<1> DEFINE k == kv.k
           v == kv.v
<1>1. /\ kv # NoKv /\ holes' = GivenBack(GivenBack(holes, k), v)
      /\ used' = used - KRows - VRows /\ kv' = NoKv /\ old' = old /\ weight' = weight
  BY DEF KvFree
<1>2. /\ Exact(holes, used, Taken) /\ DOMAIN weight = Handle /\ old \subseteq Block
      /\ \A g \in Lives : Within(BlockOf(g))
      /\ Within(k) /\ Within(v) /\ k.size = KRows /\ v.size = VRows
      /\ RowsOf(k) \cap RowsOf(v) = {}
  BY <1>1 DEF HInv, WeightsPlaced, KvPlaced, Apart
<1>3. KvRows = RowsOf(k) \cup RowsOf(v) /\ KvRows \subseteq Taken
  BY <1>1 DEF KvRows, Taken
<1>4. KvRows' = {}
  BY <1>1 DEF KvRows
<1>5. Lives' = Lives /\ \A g : BlockOf(g)' = BlockOf(g) /\ RowsOf(BlockOf(g))' = RowsOf(BlockOf(g))
  BY <1>1 DEF Lives, BlockOf, RowsOf, End
<1> HIDE DEF k, v
<1>6. Exact(GivenBack(holes, k), used - KRows, Taken \ RowsOf(k))
  BY <1>2, <1>3, GiveKeeps
<1>7. Exact(holes', used', (Taken \ RowsOf(k)) \ RowsOf(v))
  <2>1. RowsOf(v) \subseteq Taken \ RowsOf(k)
    BY <1>2, <1>3
  <2>2. Exact(holes', (used - KRows) - VRows, (Taken \ RowsOf(k)) \ RowsOf(v))
    BY <1>1, <1>2, <1>6, <2>1, GiveKeeps
  <2> QED BY <1>1, <2>2
<1>8. Taken' = (Taken \ RowsOf(k)) \ RowsOf(v)
  <2> DEFINE U == UNION {RowsOf(BlockOf(g)) : g \in Lives}
  <2>1. Taken' = U /\ Taken = U \cup KvRows
    BY <1>4, <1>5 DEF Taken
  <2>2. \A r : r \in U <=> \E g \in Lives : r \in RowsOf(BlockOf(g))
    OBVIOUS
  <2>3. \A g \in Lives : RowsOf(BlockOf(g)) \cap KvRows = {}
    BY DEF HInv, Apart
  <2> HIDE DEF U
  <2>4. U \cap KvRows = {}
    BY <2>2, <2>3
  <2> QED BY <1>3, <2>1, <2>4
<1>9. Exact(holes, used, Taken)'
  BY <1>7, <1>8 DEF Exact
<1>10. WeightsPlaced'
  BY <1>1, <1>2, <1>5 DEF WeightsPlaced, Within
<1>11. KvPlaced'
  BY <1>1 DEF KvPlaced
<1>12. Apart'
  BY <1>1, <1>4, <1>5 DEF HInv, Apart
<1> QED BY <1>1, <1>2, <1>9, <1>10, <1>11, <1>12 DEF HInv

------------------------------------------------------------------------------
LEMMA HeapStarts ==
  ASSUME Init
  PROVE  HInv
<1>1. /\ holes = <<[off |-> 0, size |-> Rows]>> /\ used = 0 /\ old = {}
      /\ weight = [h \in Handle |-> NoWeight] /\ kv = NoKv
  BY DEF Init, LInit
<1>2. Lives = {} /\ KvRows = {}
  BY <1>1 DEF Lives, KvRows
<1>3. Taken = {}
  BY <1>2 DEF Taken
<1>4. Exact(holes, used, Taken)
  BY <1>1, <1>3, OneHole
<1>5. WeightsPlaced /\ KvPlaced /\ Apart
  BY <1>1, <1>2 DEF WeightsPlaced, KvPlaced, Apart
<1> QED BY <1>1, <1>4, <1>5 DEF HInv

LEMMA HeapSteps ==
  ASSUME HInv, [Next]_kvars
  PROVE  HInv'
<1>1. ASSUME NEW h \in Handle, NEW s \in Shapes, WeightAlloc(h, s), UNCHANGED kv PROVE HInv'
  BY <1>1, AllocKeepsHeap
<1>2. ASSUME NEW h \in Handle, NEW n, Upload(h, n), UNCHANGED kv PROVE HInv'
  <2>1. UNCHANGED heap /\ weight' = weight
    BY <1>2 DEF Upload
  <2> QED BY <1>2, <2>1, HeapKept DEF heap
<1>3. ASSUME NEW h \in Handle, NEW copied \in BOOLEAN, WeightFree(h, copied), UNCHANGED kv PROVE HInv'
  BY <1>3, FreeKeepsHeap
<1>4. ASSUME NEW b \in old, FreeAgain(b), UNCHANGED kv PROVE HInv'
  BY <1>4, FreeAgainKeepsHeap
<1>5. ASSUME UNCHANGED heap, UNCHANGED contents, UNCHANGED kv PROVE HInv'
  BY <1>5, HeapKept DEF heap, contents
<1>6. ASSUME NEW ws, NEW exact, Gemv(ws, exact) \/ GemvFailed(ws, exact), UNCHANGED kv PROVE HInv'
  <2>1. UNCHANGED heap /\ UNCHANGED contents
    BY <1>6 DEF Gemv, GemvFailed
  <2> QED BY <1>5, <1>6, <2>1
<1>7. ASSUME Scrubs \/ Look, UNCHANGED kv PROVE HInv'
  <2>1. UNCHANGED heap /\ UNCHANGED contents
    BY <1>7 DEF Scrubs, Look
  <2> QED BY <1>5, <1>7, <2>1
<1>8. ASSUME LNext, UNCHANGED kv PROVE HInv'
  BY <1>1, <1>2, <1>3, <1>4, <1>6, <1>7, <1>8 DEF LNext
<1>9. ASSUME Scores \/ Output \/ AttentionFailed PROVE HInv'
  <2>1. UNCHANGED heap /\ UNCHANGED contents /\ UNCHANGED kv
    BY <1>9, Zenon DEF Scores, Output, AttentionFailed
  <2> QED BY <1>5, <2>1
<1>10. ASSUME UNCHANGED kvars PROVE HInv'
  <2>1. UNCHANGED heap /\ UNCHANGED contents /\ UNCHANGED kv
    BY <1>10 DEF kvars, heap, contents
  <2> QED BY <1>5, <2>1
<1> QED BY <1>7, <1>8, <1>9, <1>10, KvAllocKeepsHeap, KvFreeKeepsHeap, AppendKeepsHeap,
           FlushKeepsHeap DEF Next

(* What the run checks, from what is inductive.                             *)
LEMMA HeapInvIsExact ==
  ASSUME HInv
  PROVE  HeapIsExact
<1> DEFINE bufs == Buffers \cup KvBuffers
           free == {[off |-> holes[i].off, size |-> holes[i].size] : i \in DOMAIN holes}
           all == free \cup bufs
<1>1. /\ FreeList(holes) /\ Taken \subseteq 0 .. Rows - 1 /\ Free(holes) = (0 .. Rows - 1) \ Taken
      /\ used = Cardinality(Taken)
  BY DEF HInv, Exact
<1>2. /\ InOrder(holes) /\ holes \in Seq(Block)
      /\ \A i, j \in DOMAIN holes : i < j => End(holes[i]) < holes[j].off
  BY <1>1, StrictlyApart DEF FreeList, InOrder
<1>3. Len(holes) \in Nat /\ DOMAIN holes = 1 .. Len(holes) /\ \A i \in DOMAIN holes : holes[i] \in Block
  BY <1>2, RowsOfList
<1>4. \A b \in Block : [off |-> b.off, size |-> b.size] = b
  BY DEF Block
<1>5. \A b : b \in free <=> \E i \in DOMAIN holes : b = holes[i]
  BY <1>3, <1>4
<1>6. \A b : b \in bufs <=> (\E h \in Lives : b = BlockOf(h)) \/ (kv # NoKv /\ (b = kv.k \/ b = kv.v))
  <2>1. \A b : b \in Buffers <=> \E h \in Lives : b = BlockOf(h)
    BY DEF Buffers, Lives, BlockOf
  <2>2. \A b : b \in KvBuffers <=> kv # NoKv /\ (b = kv.k \/ b = kv.v)
    BY DEF KvBuffers
  <2> QED BY <2>1, <2>2
<1> HIDE DEF free, bufs
<1>7. \A r : r \in Taken <=> \E b \in bufs : r \in RowsOf(b)
  <2>1. \A r : r \in KvRows <=> kv # NoKv /\ (r \in RowsOf(kv.k) \/ r \in RowsOf(kv.v))
    BY DEF KvRows
  <2> QED BY <1>6, <2>1, TakenRows
<1>8. \A r : r \in Free(holes) <=> \E b \in free : r \in RowsOf(b)
  BY <1>5 DEF Free
<1>9. \A i \in 1 .. Len(holes) - 1 : End(holes[i]) < holes[i + 1].off
  <2> SUFFICES ASSUME NEW i \in 1 .. Len(holes) - 1 PROVE End(holes[i]) < holes[i + 1].off
    OBVIOUS
  <2>1. i \in DOMAIN holes /\ i + 1 \in DOMAIN holes /\ i < i + 1
    BY <1>3
  <2> QED BY <1>2, <2>1
<1>10. ASSUME NEW b \in free, NEW c \in free, b # c PROVE RowsOf(b) \cap RowsOf(c) = {}
  <2>1. PICK i \in DOMAIN holes : b = holes[i]
    BY <1>5
  <2>2. PICK j \in DOMAIN holes : c = holes[j]
    BY <1>5
  <2>3. i # j
    BY <1>10, <2>1, <2>2
  <2>4. /\ b.off \in Nat /\ c.off \in Nat /\ End(b) \in Nat /\ End(c) \in Nat
    BY <1>3, <2>1, <2>2 DEF Block, End
  <2>5. End(b) < c.off \/ End(c) < b.off
    BY <1>2, <1>3, <2>1, <2>2, <2>3
  <2> DEFINE o == b.off
             e == End(b)
             p == c.off
             f == End(c)
  <2>6. RowsOf(b) = o .. e - 1 /\ RowsOf(c) = p .. f - 1
    BY DEF RowsOf
  <2>7. o \in Nat /\ e \in Nat /\ p \in Nat /\ f \in Nat /\ (e < p \/ f < o)
    BY <2>4, <2>5
  <2> HIDE DEF o, e, p, f
  <2>8. (o .. e - 1) \cap (p .. f - 1) = {}
    BY <2>7
  <2> QED BY <2>6, <2>8
<1>11. ASSUME NEW b \in bufs, NEW c \in bufs, b # c PROVE RowsOf(b) \cap RowsOf(c) = {}
  <2>1. kv # NoKv => KvRows = RowsOf(kv.k) \cup RowsOf(kv.v)
    BY DEF KvRows
  <2> QED BY <1>6, <1>11, <2>1 DEF HInv, Apart
<1>12. ASSUME NEW b \in free, NEW c \in bufs PROVE RowsOf(b) \cap RowsOf(c) = {}
  BY <1>1, <1>7, <1>8
<1>13. \A b, c \in all : b # c => RowsOf(b) \cap RowsOf(c) = {}
  BY <1>10, <1>11, <1>12
<1>14. UNION {RowsOf(b) : b \in all} = 0 .. Rows - 1
  <2> DEFINE U == UNION {RowsOf(b) : b \in all}
  <2>1. \A r : r \in U <=> \E b \in all : r \in RowsOf(b)
    OBVIOUS
  <2> HIDE DEF U
  <2>2. \A r : r \in U <=> r \in Free(holes) \/ r \in Taken
    BY <1>7, <1>8, <2>1
  <2>3. U = 0 .. Rows - 1
    BY <1>1, <2>2
  <2> QED BY <2>3 DEF U
<1>15. UNION {RowsOf(b) : b \in bufs} = Taken
  <2> DEFINE U == UNION {RowsOf(b) : b \in bufs}
  <2>1. \A r : r \in U <=> \E b \in bufs : r \in RowsOf(b)
    OBVIOUS
  <2> HIDE DEF U
  <2>2. U = Taken
    BY <1>7, <2>1
  <2> QED BY <2>2 DEF U
<1>16. /\ \A b, c \in all : b # c => (b.off .. End(b) - 1) \cap (c.off .. End(c) - 1) = {}
       /\ UNION {b.off .. End(b) - 1 : b \in all} = 0 .. Rows - 1
       /\ used = Cardinality(UNION {b.off .. End(b) - 1 : b \in bufs})
  BY <1>1, <1>13, <1>14, <1>15 DEF RowsOf
<1> QED BY <1>9, <1>16, Zenon DEF HeapIsExact, HeapIsExactFor, free, bufs

(* The heap of the older runtime is exact: whatever is allocated, stored,   *)
(* freed, freed again from a copy or broken off half-way (pim_alloc,        *)
(* pim_free, pim_weight_alloc, pim_kv_alloc), no row is ever lost, in two   *)
(* blocks, or counted wrongly, and no two holes touch.                      *)
THEOREM HeapStaysExact == Spec => []HeapIsExact
<1>1. Init => HInv
  BY HeapStarts
<1>2. HInv /\ [Next]_kvars => HInv'
  BY HeapSteps
<1>3. HInv => HeapIsExact
  BY HeapInvIsExact
<1> QED BY <1>1, <1>2, <1>3, PTL DEF Spec
==============================================================================
