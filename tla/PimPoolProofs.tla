---------------------------- MODULE PimPoolProofs -----------------------------
(***************************************************************************)
(* What libpim's pools and transfers guarantee for any number of contexts, *)
(* hugepages and allocations.                                              *)
(***************************************************************************)
EXTENDS PimPool, FiniteSetTheorems, TLAPS

------------------------------------------------------------------------------
(* Sorting: the members of a finite set, each once.                         *)

Below(S, x) == {y \in S : y < x}

(* Fewer members lie below a smaller one, and below none lie all.           *)
LEMMA BelowGrows ==
  ASSUME NEW S \in SUBSET Nat, IsFiniteSet(S), NEW x \in S
  PROVE  /\ Cardinality(Below(S, x)) \in 0 .. Cardinality(S) - 1
         /\ \A y \in S : y < x => Cardinality(Below(S, y)) < Cardinality(Below(S, x))
<1>1. Below(S, x) \in SUBSET S /\ x \notin Below(S, x)
  BY DEF Below
<1>2. IsFiniteSet(Below(S, x)) /\ Cardinality(Below(S, x)) <= Cardinality(S)
      /\ Cardinality(S) # Cardinality(Below(S, x))
  BY <1>1, FS_Subset
<1>3. Cardinality(S) \in Nat /\ Cardinality(Below(S, x)) \in Nat
  BY <1>2, FS_CardinalityType
<1>4. ASSUME NEW y \in S, y < x
      PROVE  Cardinality(Below(S, y)) < Cardinality(Below(S, x))
  <2>1. Below(S, y) \in SUBSET Below(S, x) /\ y \in Below(S, x) /\ y \notin Below(S, y)
    <3>1. x \in Nat /\ y \in Nat /\ \A z \in S : z \in Nat
      OBVIOUS
    <3>2. \A z \in S : z < y => z < x
      BY <1>4, <3>1, SMT
    <3>3. ~ (y < y)
      BY <3>1, SMT
    <3> QED BY <1>4, <3>2, <3>3, Zenon DEF Below
  <2>2. IsFiniteSet(Below(S, y)) /\ Cardinality(Below(S, y)) <= Cardinality(Below(S, x))
        /\ Cardinality(Below(S, x)) # Cardinality(Below(S, y))
    BY <1>2, <2>1, FS_Subset
  <2>3. Cardinality(Below(S, y)) \in Nat
    BY <2>2, FS_CardinalityType
  <2> QED BY <1>3, <2>2, <2>3
<1> QED BY <1>2, <1>3, <1>4

(* Every rank has its member.                                               *)
LEMMA Ranked ==
  ASSUME NEW S \in SUBSET Nat, IsFiniteSet(S), NEW i \in 1 .. Cardinality(S)
  PROVE  \E x \in S : Cardinality(Below(S, x)) = i - 1
<1> DEFINE n == Cardinality(S)
           r == [x \in S |-> Cardinality(Below(S, x))]
<1>1. n \in Nat
  BY FS_CardinalityType
<1>2. r \in [S -> 0 .. n - 1]
  BY BelowGrows
<1>3. \A x, y \in S : r[x] = r[y] => x = y
  <2> SUFFICES ASSUME NEW x \in S, NEW y \in S, x # y  PROVE r[x] # r[y]
    OBVIOUS
  <2>1. r[x] = Cardinality(Below(S, x)) /\ r[y] = Cardinality(Below(S, y))
        /\ r[x] \in Nat /\ r[y] \in Nat
    BY <1>1, <1>2
  <2>2. CASE x < y
    BY <2>1, <2>2, BelowGrows
  <2>3. CASE y < x
    BY <2>1, <2>3, BelowGrows
  <2> QED BY <2>2, <2>3
<1>4. r \in Injection(S, 0 .. n - 1)
  BY <1>2, <1>3 DEF Injection, IsInjective
<1>5. IsFiniteSet(0 .. n - 1) /\ Cardinality(0 .. n - 1) = n
  <2>1. 0 \in Int /\ n - 1 \in Int /\ (n - 1) - 0 + 1 = n /\ (0 > n - 1 => n = 0)
    BY <1>1, SMT
  <2> HIDE DEF n
  <2> QED BY <2>1, FS_Interval, Zenon
<1> HIDE DEF r
<1>6. r \in Surjection(S, 0 .. n - 1)
  BY <1>4, <1>5, FS_Injection
<1>7. PICK x \in S : r[x] = i - 1
  <2>1. i - 1 \in 0 .. n - 1
    BY <1>1
  <2> QED BY <1>6, <2>1 DEF Surjection
<1> QED BY <1>7 DEF r

(* Ascending lists the members of a set, each of them once.                 *)
LEMMA Sorted ==
  ASSUME NEW S \in SUBSET Nat, IsFiniteSet(S)
  PROVE  /\ Ascending(S) \in Seq(S) /\ Len(Ascending(S)) = Cardinality(S)
         /\ IsInjective(Ascending(S))
<1> DEFINE n == Cardinality(S)
           a == Ascending(S)
<1>1. n \in Nat
  BY FS_CardinalityType
<1>2. ASSUME NEW i \in 1 .. n
      PROVE  a[i] \in S /\ Cardinality(Below(S, a[i])) = i - 1
  <2>1. \E x \in S : Cardinality(Below(S, x)) = i - 1
    BY Ranked
  <2>2. a[i] = CHOOSE x \in S : Cardinality(Below(S, x)) = i - 1
    BY DEF Ascending, Below
  <2> QED BY <2>1, <2>2
<1>3. a = [i \in 1 .. n |-> a[i]]
  BY SMTT(60) DEF Ascending
<1> HIDE DEF a
<1>4. a \in Seq(S) /\ Len(a) = n /\ DOMAIN a = 1 .. n
  BY <1>1, <1>2, <1>3
<1>5. \A i, j \in DOMAIN a : a[i] = a[j] => i = j
  BY <1>1, <1>2, <1>4
<1> QED BY <1>4, <1>5 DEF IsInjective, a

------------------------------------------------------------------------------
(* Sequences without repetitions.                                           *)

(* Two of them over sets with nothing in common make a third.               *)
LEMMA Joined ==
  ASSUME NEW A, NEW B, NEW s \in Seq(A), NEW t \in Seq(B),
         IsInjective(s), IsInjective(t), A \cap B = {}
  PROVE  /\ s \o t \in Seq(A \cup B) /\ Len(s \o t) = Len(s) + Len(t)
         /\ IsInjective(s \o t)
<1> DEFINE u == s \o t
<1>1. Len(s) \in Nat /\ Len(t) \in Nat /\ DOMAIN s = 1 .. Len(s) /\ DOMAIN t = 1 .. Len(t)
  OBVIOUS
<1>2. u \in Seq(A \cup B) /\ Len(u) = Len(s) + Len(t) /\ DOMAIN u = 1 .. Len(s) + Len(t)
  OBVIOUS
<1>3. \A i \in 1 .. Len(s) : u[i] = s[i] /\ s[i] \in A
  OBVIOUS
<1>4. \A i \in 1 .. Len(s) + Len(t) : i > Len(s) =>
        u[i] = t[i - Len(s)] /\ t[i - Len(s)] \in B /\ i - Len(s) \in 1 .. Len(t)
  OBVIOUS
<1> HIDE DEF u
<1>5. \A i, j \in DOMAIN u : u[i] = u[j] => i = j
  <2> SUFFICES ASSUME NEW i \in 1 .. Len(s) + Len(t), NEW j \in 1 .. Len(s) + Len(t), u[i] = u[j]
               PROVE  i = j
    BY <1>2
  <2>1. CASE i <= Len(s) /\ j <= Len(s)
    <3>1. i \in DOMAIN s /\ j \in DOMAIN s /\ s[i] = s[j]
      BY <1>1, <1>3, <2>1
    <3> QED BY <3>1 DEF IsInjective
  <2>2. CASE i > Len(s) /\ j > Len(s)
    <3>1. i - Len(s) \in DOMAIN t /\ j - Len(s) \in DOMAIN t /\ t[i - Len(s)] = t[j - Len(s)]
      BY <1>1, <1>4, <2>2
    <3>2. i - Len(s) = j - Len(s)
      BY <3>1, Zenon DEF IsInjective
    <3> QED BY <1>1, <3>2
  <2>3. CASE i <= Len(s) /\ j > Len(s)
    <3>1. u[i] \in A /\ u[j] \in B
      BY <1>1, <1>3, <1>4, <2>3
    <3> QED BY <3>1
  <2>4. CASE i > Len(s) /\ j <= Len(s)
    <3>1. u[j] \in A /\ u[i] \in B
      BY <1>1, <1>3, <1>4, <2>4
    <3> QED BY <3>1
  <2> QED BY <1>1, <2>1, <2>2, <2>3, <2>4
<1> QED BY <1>2, <1>5 DEF IsInjective, u

(* So does a beginning of one.                                              *)
LEMMA Beginning ==
  ASSUME NEW A, NEW s \in Seq(A), IsInjective(s), NEW n \in 0 .. Len(s)
  PROVE  /\ SubSeq(s, 1, n) \in Seq(A) /\ Len(SubSeq(s, 1, n)) = n
         /\ IsInjective(SubSeq(s, 1, n))
<1> DEFINE u == SubSeq(s, 1, n)
<1>1. u \in Seq(A) /\ Len(u) = n /\ DOMAIN u = 1 .. n /\ \A i \in 1 .. n : u[i] = s[i]
  OBVIOUS
<1> HIDE DEF u
<1>2. \A i \in 1 .. n : i \in DOMAIN s
  OBVIOUS
<1>3. \A i, j \in DOMAIN u : u[i] = u[j] => i = j
  BY <1>1, <1>2 DEF IsInjective
<1> QED BY <1>1, <1>3 DEF IsInjective, u

(* What a sequence over a set lists is in the set.                          *)
LEMMA Listed ==
  ASSUME NEW A, NEW s \in Seq(A)
  PROVE  /\ ToSet(s) \subseteq A /\ \A i \in 1 .. Len(s) : s[i] \in ToSet(s)
         /\ \A x \in ToSet(s) : \E i \in 1 .. Len(s) : x = s[i]
BY DEF ToSet

------------------------------------------------------------------------------
(* Hugepages and granules.                                                  *)

LEMMA PageFacts ==
  ASSUME NEW m \in Region
  PROVE  Gpb[m] \in Nat \ {0} /\ NrHugepages[m] \in Nat /\ Pages(m) \subseteq Nat
BY PoolAssumption DEF Pages

(* The granules of a hugepage, as many as Gpb says, on the card.            *)
LEMMA GransOf ==
  ASSUME NEW m \in Region, NEW p \in Pages(m)
  PROVE  /\ Grans(m, p) \in SUBSET Nat /\ IsFiniteSet(Grans(m, p)) /\ Cardinality(Grans(m, p)) = Gpb[m]
         /\ Grans(m, p) \subseteq AllGrans(m)
<1> DEFINE G == Gpb[m]
           N == NrHugepages[m]
           a == p * G
<1>1. G \in Nat /\ G > 0 /\ N \in Nat /\ p \in 0 .. N - 1
  BY PageFacts DEF Pages
<1>2. a \in Nat /\ (p + 1) * G = a + G /\ (p + 1) * G <= N * G /\ N * G \in Nat
  <2> HIDE DEF G, N
  <2> QED BY <1>1, SMT
<1>3. Grans(m, p) = a .. (a + G - 1) /\ AllGrans(m) = 0 .. (N * G - 1)
  BY DEF Grans, AllGrans
<1> HIDE DEF a, G, N
<1>4. /\ a \in Int /\ a + G - 1 \in Int /\ ~ (a > a + G - 1) /\ (a + G - 1) - a + 1 = G
  BY <1>1, <1>2, SMT
<1>5. IsFiniteSet(a .. (a + G - 1)) /\ Cardinality(a .. (a + G - 1)) = G
  BY <1>4, FS_Interval, Zenon
<1>6. (a .. (a + G - 1)) \subseteq Nat /\ (a .. (a + G - 1)) \subseteq 0 .. (N * G - 1)
  BY <1>1, <1>2, SMT
<1> QED BY <1>3, <1>5, <1>6 DEF G

(* Two hugepages have no granule in common.                                 *)
LEMMA GransApart ==
  ASSUME NEW m \in Region, NEW p \in Pages(m), NEW q \in Pages(m), p # q
  PROVE  Grans(m, p) \cap Grans(m, q) = {}
<1> DEFINE G == Gpb[m]
           a == p * G
           b == q * G
<1>1. G \in Nat /\ G > 0 /\ p \in Nat /\ q \in Nat
  BY PageFacts
<1>2. a \in Nat /\ b \in Nat /\ (a + G <= b \/ b + G <= a)
  <2> HIDE DEF G
  <2>1. a \in Nat /\ b \in Nat /\ (p + 1) * G = a + G /\ (q + 1) * G = b + G
    BY <1>1, SMT
  <2>2. CASE p + 1 <= q
    <3>1. (p + 1) * G <= q * G
      BY <1>1, <2>2, SMT
    <3> QED BY <2>1, <3>1
  <2>3. CASE q + 1 <= p
    <3>1. (q + 1) * G <= p * G
      BY <1>1, <2>3, SMT
    <3> QED BY <2>1, <3>1
  <2> QED BY <1>1, <2>2, <2>3, SMT
<1>3. Grans(m, p) = a .. (a + G - 1) /\ Grans(m, q) = b .. (b + G - 1)
  BY DEF Grans
<1> HIDE DEF a, b, G
<1> QED BY <1>1, <1>2, <1>3, SMT

------------------------------------------------------------------------------
(* The operators on one pool.                                               *)

(* The pool's own consistency: hugepages of the region, granules of theirs  *)
(* marked, and the rest of them counted.                                    *)
PoolOK(m, P, F) ==
  /\ DOMAIN P \subseteq Pages(m) /\ DOMAIN F = DOMAIN P
  /\ P = [p \in DOMAIN P |-> P[p]] /\ F = [p \in DOMAIN P |-> F[p]]
  /\ \A p \in DOMAIN P : P[p] \subseteq Grans(m, p) /\ F[p] = Gpb[m] - Cardinality(P[p])

Marked(P) == UNION {P[p] : p \in DOMAIN P}
FreeIn(m, P, Q) == UNION {Grans(m, p) \ P[p] : p \in Q}

LEMMA MarkedIn ==
  ASSUME NEW P, NEW x
  PROVE  x \in Marked(P) <=> \E p \in DOMAIN P : x \in P[p]
BY DEF Marked

LEMMA FreeInIs ==
  ASSUME NEW m, NEW P, NEW Q, NEW x
  PROVE  x \in FreeIn(m, P, Q) <=> \E p \in Q : x \in Grans(m, p) /\ x \notin P[p]
BY DEF FreeIn

(* Marked granules are few enough to count.                                 *)
LEMMA PageCounts ==
  ASSUME NEW m \in Region, NEW P, NEW F, PoolOK(m, P, F), NEW p \in DOMAIN P
  PROVE  /\ p \in Pages(m) /\ P[p] \subseteq Grans(m, p) /\ IsFiniteSet(P[p])
         /\ Cardinality(P[p]) \in Nat /\ F[p] \in Nat /\ F[p] = Gpb[m] - Cardinality(P[p])
<1>1. p \in Pages(m) /\ P[p] \in SUBSET Grans(m, p) /\ F[p] = Gpb[m] - Cardinality(P[p])
  BY DEF PoolOK
<1>2. IsFiniteSet(Grans(m, p)) /\ Cardinality(Grans(m, p)) = Gpb[m]
  BY <1>1, GransOf
<1>3. IsFiniteSet(P[p]) /\ Cardinality(P[p]) <= Gpb[m]
  BY <1>1, <1>2, FS_Subset
<1>4. Cardinality(P[p]) \in Nat
  BY <1>3, FS_CardinalityType
<1> QED BY <1>1, <1>3, <1>4, PageFacts

(* A hugepage whose count says it is empty has no granule marked.           *)
LEMMA EmptyIsUnmarked ==
  ASSUME NEW m \in Region, NEW P, NEW F, PoolOK(m, P, F), NEW p \in DOMAIN P, F[p] = Gpb[m]
  PROVE  P[p] = {}
<1>1. IsFiniteSet(P[p]) /\ Cardinality(P[p]) = 0
  BY PageCounts, PageFacts
<1> QED BY <1>1, FS_EmptySet

(* Different hugepages have different free granules.                        *)
LEMMA FreeApart ==
  ASSUME NEW m \in Region, NEW P, NEW F, PoolOK(m, P, F),
         NEW Q \in SUBSET DOMAIN P, NEW R \in SUBSET DOMAIN P, Q \cap R = {}
  PROVE  /\ FreeIn(m, P, Q) \cap FreeIn(m, P, R) = {}
         /\ FreeIn(m, P, Q \cup R) = FreeIn(m, P, Q) \cup FreeIn(m, P, R)
<1>1. DOMAIN P \subseteq Pages(m)
  BY DEF PoolOK
<1>2. ASSUME NEW x, x \in FreeIn(m, P, Q), x \in FreeIn(m, P, R)
      PROVE  FALSE
  <2>1. PICK p \in Q : x \in Grans(m, p)
    BY <1>2, FreeInIs
  <2>2. PICK q \in R : x \in Grans(m, q)
    BY <1>2, FreeInIs
  <2>3. p \in Pages(m) /\ q \in Pages(m) /\ p # q
    BY <1>1, <2>1, <2>2
  <2> QED BY <2>1, <2>2, <2>3, GransApart
<1>3. ASSUME NEW x
      PROVE  x \in FreeIn(m, P, Q \cup R) <=> x \in FreeIn(m, P, Q) \/ x \in FreeIn(m, P, R)
  BY FreeInIs
<1> QED BY <1>2, <1>3

(* A hugepage at a time or all together, they are finitely many.            *)
LEMMA FreeFinite ==
  ASSUME NEW m \in Region, NEW P, NEW F, PoolOK(m, P, F), NEW Q \in SUBSET DOMAIN P
  PROVE  FreeIn(m, P, Q) \in SUBSET AllGrans(m) /\ FreeIn(m, P, Q) \in SUBSET Nat
         /\ IsFiniteSet(FreeIn(m, P, Q)) /\ Cardinality(FreeIn(m, P, Q)) \in Nat
<1>1. ASSUME NEW x, x \in FreeIn(m, P, Q)
      PROVE  x \in AllGrans(m)
  <2>1. PICK p \in Q : x \in Grans(m, p)
    BY <1>1, FreeInIs
  <2>2. p \in Pages(m)
    BY <2>1 DEF PoolOK
  <2> QED BY <2>1, <2>2, GransOf
<1>2. FreeIn(m, P, Q) \in SUBSET AllGrans(m)
  BY <1>1
<1> DEFINE top == NrHugepages[m] * Gpb[m] - 1
<1>3. AllGrans(m) = 0 .. top /\ top \in Int
  <2>1. NrHugepages[m] \in Int /\ Gpb[m] \in Int
    BY PageFacts
  <2>2. NrHugepages[m] * Gpb[m] \in Int
    BY <2>1
  <2> QED BY <2>2 DEF AllGrans
<1> HIDE DEF top
<1>4. IsFiniteSet(AllGrans(m)) /\ AllGrans(m) \subseteq Nat
  <2>1. 0 \in Int
    OBVIOUS
  <2>2. IsFiniteSet(0 .. top)
    BY <1>3, <2>1, FS_Interval, Zenon
  <2> QED BY <1>3, <2>2
<1>5. IsFiniteSet(FreeIn(m, P, Q))
  BY <1>2, <1>4, FS_Subset
<1> QED BY <1>2, <1>4, <1>5, FS_CardinalityType

(* A sweep lists the free granules of its hugepages, each once.             *)
LEMMA Swept ==
  ASSUME NEW m \in Region, NEW P, NEW F, PoolOK(m, P, F), NEW Q \in SUBSET DOMAIN P
  PROVE  /\ Sweep(m, P, Q) \in Seq(FreeIn(m, P, Q)) /\ IsInjective(Sweep(m, P, Q))
         /\ Len(Sweep(m, P, Q)) = Cardinality(FreeIn(m, P, Q))
<1>1. FreeIn(m, P, Q) \in SUBSET Nat /\ IsFiniteSet(FreeIn(m, P, Q))
  BY FreeFinite
<1>2. Sweep(m, P, Q) = Ascending(FreeIn(m, P, Q))
  BY DEF Sweep, FreeIn
<1> HIDE DEF Sweep
<1> QED BY <1>1, <1>2, Sorted

(* Two sweeps over different hugepages, one after the other.                *)
LEMMA TwoSweeps ==
  ASSUME NEW m \in Region, NEW P, NEW F, PoolOK(m, P, F),
         NEW Q \in SUBSET DOMAIN P, NEW R \in SUBSET DOMAIN P, Q \cap R = {}
  PROVE  LET s == Sweep(m, P, Q) \o Sweep(m, P, R) IN
         /\ s \in Seq(FreeIn(m, P, Q \cup R)) /\ IsInjective(s)
         /\ Len(s) = Cardinality(FreeIn(m, P, Q)) + Cardinality(FreeIn(m, P, R))
         /\ Len(s) = Cardinality(FreeIn(m, P, Q \cup R))
<1> DEFINE A == FreeIn(m, P, Q)
           B == FreeIn(m, P, R)
           a == Sweep(m, P, Q)
           b == Sweep(m, P, R)
<1>1. A \cap B = {} /\ FreeIn(m, P, Q \cup R) = A \cup B
  BY FreeApart
<1>2. /\ a \in Seq(A) /\ IsInjective(a) /\ Len(a) = Cardinality(A)
      /\ b \in Seq(B) /\ IsInjective(b) /\ Len(b) = Cardinality(B)
  BY Swept
<1>3. IsFiniteSet(A) /\ IsFiniteSet(B) /\ Cardinality(A) \in Nat /\ Cardinality(B) \in Nat
  BY FreeFinite
<1> HIDE DEF A, B, a, b
<1>4. a \o b \in Seq(A \cup B) /\ Len(a \o b) = Len(a) + Len(b) /\ IsInjective(a \o b)
  BY <1>1, <1>2, Joined
<1>5. Cardinality(A \cup B) = Cardinality(A) + Cardinality(B) - Cardinality({})
  BY <1>1, <1>3, FS_Union
<1>6. Cardinality({}) = 0
  BY FS_EmptySet
<1>7. Len(a \o b) = Cardinality(A) + Cardinality(B) /\ Len(a \o b) = Cardinality(A \cup B)
  BY <1>2, <1>3, <1>4, <1>5, <1>6
<1> QED BY <1>1, <1>4, <1>7 DEF a, b, A, B

(* Filling order: every free granule of the pool, each once.                *)
LEMMA Ordered ==
  ASSUME NEW m \in Region, NEW P, NEW F, PoolOK(m, P, F)
  PROVE  /\ FreeOrder(m, P, F) \in Seq(FreeIn(m, P, DOMAIN P)) /\ IsInjective(FreeOrder(m, P, F))
         /\ Len(FreeOrder(m, P, F)) = Cardinality(FreeIn(m, P, DOMAIN P))
<1> DEFINE Q == Partial(m, P, F)
           R == Untouched(m, P, F)
<1>1. Q \in SUBSET DOMAIN P /\ R \in SUBSET DOMAIN P /\ Q \cap R = {} /\ Q \cup R = DOMAIN P
  BY DEF Partial, Untouched
<1>2. FreeOrder(m, P, F) = Sweep(m, P, Q) \o Sweep(m, P, R)
  BY DEF FreeOrder
<1> HIDE DEF Q, R
<1>3. LET s == Sweep(m, P, Q) \o Sweep(m, P, R) IN
         /\ s \in Seq(FreeIn(m, P, Q \cup R)) /\ IsInjective(s)
         /\ Len(s) = Cardinality(FreeIn(m, P, Q \cup R))
  BY SMTT(60), <1>1, TwoSweeps
<1> QED BY <1>1, <1>2, <1>3

(* The pool P and what it becomes when hugepages that were not in it are    *)
(* inserted.                                                                *)
Extends(m, P, F, P1, F1) ==
  /\ PoolOK(m, P, F) /\ PoolOK(m, P1, F1) /\ DOMAIN P \subseteq DOMAIN P1
  /\ \A p \in DOMAIN P : P1[p] = P[p] /\ F1[p] = F[p]
  /\ \A p \in DOMAIN P1 \ DOMAIN P : P1[p] = {} /\ F1[p] = Gpb[m]

LEMMA Inserting ==
  ASSUME NEW m \in Region, NEW P, NEW F, PoolOK(m, P, F),
         NEW S \in SUBSET Pages(m), S \cap DOMAIN P = {}
  PROVE  /\ Extends(m, P, F, InsertAll(P, S), InsertFree(m, F, S))
         /\ DOMAIN InsertAll(P, S) = DOMAIN P \cup S
         /\ Marked(InsertAll(P, S)) = Marked(P)
<1> DEFINE P1 == InsertAll(P, S)
           F1 == InsertFree(m, F, S)
<1>1. DOMAIN F = DOMAIN P
  BY DEF PoolOK
<1>2. /\ DOMAIN P1 = DOMAIN P \cup S /\ DOMAIN F1 = DOMAIN P \cup S
      /\ P1 = [p \in DOMAIN P1 |-> P1[p]] /\ F1 = [p \in DOMAIN F1 |-> F1[p]]
      /\ \A p \in DOMAIN P : P1[p] = P[p] /\ F1[p] = F[p]
      /\ \A p \in S : P1[p] = {} /\ F1[p] = Gpb[m]
  BY <1>1 DEF InsertAll, InsertFree
<1> HIDE DEF P1, F1
<1>3. Gpb[m] = Gpb[m] - Cardinality({})
  BY FS_EmptySet, PageFacts
<1>4. \A p \in DOMAIN P1 : P1[p] \subseteq Grans(m, p) /\ F1[p] = Gpb[m] - Cardinality(P1[p])
  BY <1>2, <1>3 DEF PoolOK
<1>5. DOMAIN P1 \subseteq Pages(m)
  BY <1>2 DEF PoolOK
<1>6. PoolOK(m, P1, F1)
  BY <1>2, <1>4, <1>5 DEF PoolOK
<1>7. ASSUME NEW x  PROVE x \in Marked(P1) <=> x \in Marked(P)
  BY <1>2, MarkedIn
<1> QED BY <1>2, <1>6, <1>7 DEF Extends, P1, F1

(* The granules an allocation gets: n different free ones of the pool.      *)
Picks(m, P, F, P1, F1, n, g) ==
  /\ Extends(m, P, F, P1, F1) /\ n \in Nat /\ n <= Len(FreeOrder(m, P1, F1))
  /\ g = SubSeq(FreeOrder(m, P, F) \o Sweep(m, P1, DOMAIN P1 \ DOMAIN P), 1, n)

LEMMA Chosen ==
  ASSUME NEW m \in Region, NEW P, NEW F, NEW P1, NEW F1, NEW n, NEW g,
         Picks(m, P, F, P1, F1, n, g)
  PROVE  g \in Seq(FreeIn(m, P1, DOMAIN P1)) /\ IsInjective(g) /\ Len(g) = n
<1> DEFINE A == FreeIn(m, P1, DOMAIN P)
           B == FreeIn(m, P1, DOMAIN P1 \ DOMAIN P)
           a == FreeOrder(m, P, F)
           b == Sweep(m, P1, DOMAIN P1 \ DOMAIN P)
           C == FreeIn(m, P1, DOMAIN P1)
<1>0. /\ Extends(m, P, F, P1, F1) /\ n \in Nat /\ n <= Len(FreeOrder(m, P1, F1))
      /\ g = SubSeq(a \o b, 1, n)
  BY DEF Picks
<1>1. PoolOK(m, P, F) /\ PoolOK(m, P1, F1) /\ DOMAIN P \in SUBSET DOMAIN P1
      /\ DOMAIN P1 \ DOMAIN P \in SUBSET DOMAIN P1
  BY <1>0 DEF Extends
<1>2. FreeIn(m, P, DOMAIN P) = A
  <2>1. ASSUME NEW x
        PROVE  x \in FreeIn(m, P, DOMAIN P) <=> x \in FreeIn(m, P1, DOMAIN P)
    BY <1>0, FreeInIs DEF Extends
  <2> QED BY <2>1
<1>3. A \cap B = {} /\ A \cup B = C
  <2> DEFINE Q == DOMAIN P
             R == DOMAIN P1 \ DOMAIN P
  <2>1. Q \cup R = DOMAIN P1
    BY <1>1
  <2>4. Q \cap R = {} /\ Q \in SUBSET DOMAIN P1 /\ R \in SUBSET DOMAIN P1
    BY <1>1
  <2> HIDE DEF Q, R
  <2>2. /\ FreeIn(m, P1, Q) \cap FreeIn(m, P1, R) = {}
        /\ FreeIn(m, P1, Q \cup R) = FreeIn(m, P1, Q) \cup FreeIn(m, P1, R)
    <3>1. PoolOK(m, P1, F1)
      BY <1>1
    <3> QED BY <2>4, <3>1, FreeApart
  <2>3. C = FreeIn(m, P1, Q \cup R)
    BY <2>1
  <2> QED BY <2>2, <2>3 DEF Q, R
<1>4. a \in Seq(A) /\ IsInjective(a) /\ Len(a) = Cardinality(A)
  BY <1>1, <1>2, Ordered
<1>5. b \in Seq(B) /\ IsInjective(b) /\ Len(b) = Cardinality(B)
  BY <1>1, Swept
<1>6. Len(FreeOrder(m, P1, F1)) = Cardinality(C)
  BY <1>1, Ordered
<1>7. IsFiniteSet(A) /\ IsFiniteSet(B) /\ Cardinality(A) \in Nat /\ Cardinality(B) \in Nat
  BY <1>1, FreeFinite
<1> HIDE DEF A, B, C, a, b
<1>8. Cardinality(C) = Cardinality(A) + Cardinality(B)
  <2>1. Cardinality(A \cup B) = Cardinality(A) + Cardinality(B) - Cardinality({})
    BY <1>3, <1>7, FS_Union
  <2>2. Cardinality({}) = 0
    BY FS_EmptySet
  <2>3. Cardinality(A \cup B) = Cardinality(A) + Cardinality(B)
    BY <1>7, <2>1, <2>2
  <2> QED BY <1>3, <2>3, Zenon
<1>9. a \o b \in Seq(C) /\ Len(a \o b) = Len(a) + Len(b) /\ IsInjective(a \o b)
  <2>1. a \o b \in Seq(A \cup B) /\ Len(a \o b) = Len(a) + Len(b) /\ IsInjective(a \o b)
    BY <1>3, <1>4, <1>5, Joined
  <2> QED BY <1>3, <2>1, Zenon
<1>10. n \in 0 .. Len(a \o b)
  BY <1>0, <1>4, <1>5, <1>6, <1>7, <1>8, <1>9
<1>11. SubSeq(a \o b, 1, n) \in Seq(C) /\ Len(SubSeq(a \o b, 1, n)) = n
       /\ IsInjective(SubSeq(a \o b, 1, n))
  BY <1>9, <1>10, Beginning
<1> QED BY <1>0, <1>11 DEF a, b, C

(* Taking free granules marks them and counts them off.                     *)
LEMMA Taking ==
  ASSUME NEW m \in Region, NEW P, NEW F, PoolOK(m, P, F),
         NEW G, G \subseteq FreeIn(m, P, DOMAIN P)
  PROVE  /\ PoolOK(m, Taken(m, P, G), TakenFree(m, P, F, G))
         /\ DOMAIN Taken(m, P, G) = DOMAIN P
         /\ Marked(Taken(m, P, G)) = Marked(P) \cup G
<1> DEFINE P1 == Taken(m, P, G)
           F1 == TakenFree(m, P, F, G)
<1>1. DOMAIN F = DOMAIN P
  BY DEF PoolOK
<1>2. /\ DOMAIN P1 = DOMAIN P /\ DOMAIN F1 = DOMAIN P
      /\ P1 = [p \in DOMAIN P1 |-> P1[p]] /\ F1 = [p \in DOMAIN F1 |-> F1[p]]
      /\ \A p \in DOMAIN P : /\ P1[p] = P[p] \cup (G \cap Grans(m, p))
                             /\ F1[p] = F[p] - Cardinality((G \cap Grans(m, p)) \ P[p])
  BY <1>1 DEF Taken, TakenFree
<1> HIDE DEF P1, F1
<1>3. ASSUME NEW p \in DOMAIN P
      PROVE  P1[p] \subseteq Grans(m, p) /\ F1[p] = Gpb[m] - Cardinality(P1[p])
  <2> DEFINE X == (G \cap Grans(m, p)) \ P[p]
             Y == P[p]
  <2>1. /\ p \in Pages(m) /\ Y \subseteq Grans(m, p) /\ IsFiniteSet(Y) /\ Cardinality(Y) \in Nat
        /\ F[p] = Gpb[m] - Cardinality(Y) /\ Gpb[m] \in Nat
    BY PageCounts, PageFacts
  <2>2. IsFiniteSet(X) /\ Cardinality(X) \in Nat
    <3>1. IsFiniteSet(Grans(m, p)) /\ X \in SUBSET Grans(m, p)
      BY <2>1, GransOf
    <3> QED BY <3>1, FS_Subset, FS_CardinalityType
  <2>3. P1[p] = Y \cup X /\ Y \cap X = {} /\ X \subseteq Grans(m, p)
        /\ F1[p] = F[p] - Cardinality(X)
    BY <1>2
  <2> HIDE DEF X, Y
  <2>4. Cardinality(Y \cup X) = Cardinality(Y) + Cardinality(X) - Cardinality({})
    BY <2>1, <2>2, <2>3, FS_Union
  <2>5. Cardinality({}) = 0
    BY FS_EmptySet
  <2>6. F1[p] = Gpb[m] - Cardinality(P1[p])
    BY <2>1, <2>2, <2>3, <2>4, <2>5
  <2> QED BY <2>1, <2>3, <2>6
<1>4. PoolOK(m, P1, F1)
  BY <1>2, <1>3 DEF PoolOK
<1>5. ASSUME NEW x
      PROVE  x \in Marked(P1) <=> x \in Marked(P) \/ x \in G
  <2>1. x \in G => \E p \in DOMAIN P : x \in Grans(m, p)
    BY FreeInIs
  <2>2. x \in Marked(P1) <=> \E p \in DOMAIN P : x \in P[p] \/ (x \in G /\ x \in Grans(m, p))
    <3>1. x \in Marked(P1) <=> \E p \in DOMAIN P1 : x \in P1[p]
      BY MarkedIn
    <3>2. \A p \in DOMAIN P : x \in P1[p] <=> x \in P[p] \/ (x \in G /\ x \in Grans(m, p))
      BY <1>2
    <3>3. DOMAIN P1 = DOMAIN P
      BY <1>2
    <3> QED BY <3>1, <3>2, <3>3
  <2>3. x \in Marked(P) <=> \E p \in DOMAIN P : x \in P[p]
    BY MarkedIn
  <2> QED BY <2>1, <2>2, <2>3
<1> QED BY <1>2, <1>4, <1>5 DEF P1, F1

(* Giving marked ones back unmarks and counts them.                         *)
LEMMA Giving ==
  ASSUME NEW m \in Region, NEW P, NEW F, PoolOK(m, P, F), NEW G, G \subseteq Marked(P)
  PROVE  /\ PoolOK(m, Given(m, P, G), GivenFree(m, P, F, G))
         /\ DOMAIN Given(m, P, G) = DOMAIN P
         /\ Marked(Given(m, P, G)) = Marked(P) \ G
<1> DEFINE P1 == Given(m, P, G)
           F1 == GivenFree(m, P, F, G)
<1>1. DOMAIN F = DOMAIN P
  BY DEF PoolOK
<1>2. /\ DOMAIN P1 = DOMAIN P /\ DOMAIN F1 = DOMAIN P
      /\ P1 = [p \in DOMAIN P1 |-> P1[p]] /\ F1 = [p \in DOMAIN F1 |-> F1[p]]
      /\ \A p \in DOMAIN P : /\ P1[p] = P[p] \ (G \cap Grans(m, p))
                             /\ F1[p] = F[p] + Cardinality(G \cap P[p])
  BY <1>1 DEF Given, GivenFree
<1> HIDE DEF P1, F1
<1>3. ASSUME NEW p \in DOMAIN P
      PROVE  /\ P1[p] = P[p] \ G /\ P1[p] \subseteq Grans(m, p)
             /\ F1[p] = Gpb[m] - Cardinality(P1[p])
  <2> DEFINE Y == P[p]
  <2>1. /\ p \in Pages(m) /\ Y \subseteq Grans(m, p) /\ IsFiniteSet(Y) /\ Cardinality(Y) \in Nat
        /\ F[p] = Gpb[m] - Cardinality(Y) /\ Gpb[m] \in Nat
    BY PageCounts, PageFacts
  <2>2. P1[p] = Y \ G /\ F1[p] = F[p] + Cardinality(Y \cap G)
    <3>1. G \cap Y = Y \cap G
      OBVIOUS
    <3> QED BY <1>2, <2>1, <3>1
  <2> HIDE DEF Y
  <2>3. Cardinality(Y \ G) = Cardinality(Y) - Cardinality(Y \cap G)
    BY <2>1, FS_Difference
  <2>4. Cardinality(Y \cap G) \in Nat
    <3>1. IsFiniteSet(Y \cap G)
      BY <2>1, FS_Intersection
    <3> QED BY <3>1, FS_CardinalityType
  <2>5. F1[p] = Gpb[m] - Cardinality(P1[p])
    BY <2>1, <2>2, <2>3, <2>4
  <2>6. P1[p] \subseteq Grans(m, p)
    BY <2>1, <2>2
  <2> QED BY <2>2, <2>5, <2>6 DEF Y
<1>4. PoolOK(m, P1, F1)
  BY <1>2, <1>3 DEF PoolOK
<1>5. ASSUME NEW x
      PROVE  x \in Marked(P1) <=> x \in Marked(P) /\ x \notin G
  BY <1>2, <1>3, MarkedIn
<1> QED BY <1>2, <1>4, <1>5 DEF P1, F1

(* A trim drops only hugepages with nothing marked.                         *)
LEMMA Trimming ==
  ASSUME NEW m \in Region, NEW P, NEW F, PoolOK(m, P, F), NEW keep
  PROVE  LET D == ToTrim(m, F, keep) IN
         /\ D \subseteq DOMAIN P
         /\ PoolOK(m, Kept(P, D), Kept(F, D))
         /\ DOMAIN Kept(P, D) = DOMAIN P \ D
         /\ Marked(Kept(P, D)) = Marked(P)
<1> DEFINE D == ToTrim(m, F, keep)
           P1 == Kept(P, D)
           F1 == Kept(F, D)
<1>1. DOMAIN F = DOMAIN P
  BY DEF PoolOK
<1>2. D \subseteq DOMAIN P /\ \A p \in D : F[p] = Gpb[m]
  BY <1>1 DEF ToTrim, EmptyPages
<1> HIDE DEF D
<1>3. \A p \in D : P[p] = {}
  BY <1>2, EmptyIsUnmarked
<1>4. /\ DOMAIN P1 = DOMAIN P \ D /\ DOMAIN F1 = DOMAIN P \ D
      /\ P1 = [p \in DOMAIN P1 |-> P1[p]] /\ F1 = [p \in DOMAIN F1 |-> F1[p]]
      /\ \A p \in DOMAIN P \ D : P1[p] = P[p] /\ F1[p] = F[p]
  BY <1>1 DEF Kept, Without
<1> HIDE DEF P1, F1
<1>5. PoolOK(m, P1, F1)
  BY <1>4 DEF PoolOK
<1>6. ASSUME NEW x
      PROVE  x \in Marked(P1) <=> x \in Marked(P)
  BY <1>2, <1>3, <1>4, MarkedIn
<1> QED BY <1>2, <1>4, <1>5, <1>6 DEF P1, F1, D

(* The pool of a new context, or of one that is gone.                       *)
LEMMA EmptyPool ==
  ASSUME NEW m \in Region
  PROVE  PoolOK(m, Empty, Empty) /\ DOMAIN Empty = {} /\ Marked(Empty) = {}
<1>1. DOMAIN Empty = {} /\ Empty = [p \in DOMAIN Empty |-> Empty[p]]
  BY DEF Empty
<1> QED BY <1>1, MarkedIn DEF PoolOK

------------------------------------------------------------------------------
(* One run of a transfer.                                                   *)

(* A set of numbers has a least one.                                        *)
LEMMA Least ==
  ASSUME NEW T, T \subseteq Nat, T # {}
  PROVE  \E m \in T : \A k \in T : m <= k
<1>1. PICK m \in T : \A k \in T : <<k, m>> \notin OpToRel(<, Nat)
  BY NatLessThanWellFounded, WFMin, Zenon
<1>2. \A k \in T : ~ (k < m)
  BY <1>1, Zenon DEF OpToRel
<1> QED BY <1>2

(* The run that pim_resolve finds is there, and is one stretch of the card. *)
LEMMA RunOf ==
  ASSUME NEW g \in Seq(Nat), NEW i \in Nat, i < Len(g), NEW k, k = RunLength(g, i)
  PROVE  /\ k \in 1 .. Len(g) - i
         /\ \A j \in 0 .. k - 1 : i + 1 + j \in 1 .. Len(g) /\ g[i + 1 + j] = g[i + 1] + j
<1>0. \A x \in 1 .. Len(g) : g[x] \in Nat
  OBVIOUS
<1> DEFINE N == Len(g) - i
           Next1(j) == g[i + j + 1] = g[i + j] + 1
           T == {x \in 1 .. N : x = N \/ ~ Next1(x)}
           Good(x) == (\A j \in 1 .. x - 1 : Next1(j)) /\ (x = N \/ ~ Next1(x))
<1>1. N \in Nat \ {0} /\ Len(g) = i + N
  OBVIOUS
<1>2. k = CHOOSE x \in 1 .. N : Good(x)
  BY DEF RunLength
<1> HIDE DEF Next1, N
<1>3. T \subseteq Nat /\ N \in T
  BY <1>1
<1>4. PICK x \in T : \A y \in T : x <= y
  <2> HIDE DEF T
  <2> QED BY <1>3, Least
<1>5. x \in 1 .. N /\ Good(x)
  <2>1. x \in 1 .. N /\ (x = N \/ ~ Next1(x))
    BY <1>4
  <2>2. ASSUME NEW j \in 1 .. x - 1
        PROVE  Next1(j)
    <3>1. j \in 1 .. N /\ ~ (x <= j)
      BY <1>1, <2>1
    <3> QED BY <1>4, <3>1
  <2> QED BY <2>1, <2>2
<1>6. k \in 1 .. N /\ Good(k)
  <2> HIDE DEF Good
  <2> QED BY <1>2, <1>5, Zenon
<1> DEFINE a == g[i + 1]
           B == {j \in 0 .. k - 1 : g[i + 1 + j] # a + j}
<1>7. B = {}
  <2> SUFFICES ASSUME B # {}  PROVE FALSE
    OBVIOUS
  <2>1. B \subseteq Nat
    OBVIOUS
  <2>2. PICK b \in B : \A y \in B : b <= y
    <3> HIDE DEF B
    <3> QED BY <2>1, Least
  <2>3. b \in 0 .. k - 1 /\ g[i + 1 + b] # a + b /\ a \in Nat
    <3>1. b \in 0 .. k - 1 /\ g[i + 1 + b] # a + b
      BY <2>2
    <3>2. i + 1 \in 1 .. Len(g)
      BY <1>1
    <3>3. a \in Nat
      BY <1>0, <3>2
    <3> QED BY <3>1, <3>3
  <2>4. b # 0
    <3>1. b = 0 => i + 1 + b = i + 1 /\ a + b = a
      BY <2>3
    <3> QED BY <2>3, <3>1, Zenon
  <2>5. b - 1 \in 0 .. k - 1 /\ b \in 1 .. k - 1 /\ ~ (b <= b - 1)
    BY <1>1, <1>6, <2>3, <2>4
  <2>6. g[i + 1 + (b - 1)] = a + (b - 1)
    BY <2>2, <2>5
  <2>7. i + 1 + (b - 1) = i + b /\ i + 1 + b = i + b + 1
    BY <2>3
  <2>8. g[i + b + 1] = g[i + b] + 1
    BY <1>6, <2>5 DEF Next1
  <2>9. g[i + b] = a + (b - 1)
    BY <2>6, <2>7
  <2> HIDE DEF a
  <2>10. g[i + 1 + b] = g[i + b] + 1
    BY <2>7, <2>8, Zenon
  <2>11. (a + (b - 1)) + 1 = a + b
    BY <2>3
  <2> QED BY <2>3, <2>9, <2>10, <2>11
<1>8. ASSUME NEW j \in 0 .. k - 1
      PROVE  i + 1 + j \in 1 .. Len(g) /\ g[i + 1 + j] = a + j
  <2>1. g[i + 1 + j] = a + j
    BY <1>7
  <2>2. i + 1 + j \in 1 .. Len(g)
    BY <1>1, <1>6
  <2> QED BY <2>1, <2>2
<1> QED BY <1>6, <1>8 DEF N

------------------------------------------------------------------------------
(* What a FREE names.                                                       *)

LEMMA NamedIs ==
  ASSUME NEW ext, NEW x
  PROVE  x \in Named(ext) <=> \E e \in ext : x \in Pieces(e)
BY DEF Named

(* An extent that is listed is a stretch of the set ...                     *)
LEMMA ExtentIs ==
  ASSUME NEW S \in SUBSET Nat, IsFiniteSet(S), NEW e \in Extents(S)
  PROVE  /\ e.addr \in S /\ e.nr \in Nat \ {0} /\ e = [addr |-> e.addr, nr |-> e.nr]
         /\ Pieces(e) \subseteq S /\ Pieces(e) = e.addr .. e.addr + e.nr - 1
         /\ e.addr \in Pieces(e) /\ e.addr - 1 \notin S /\ e.addr + e.nr \notin S
<1>1. e \in [addr : S, nr : 1 .. Cardinality(S)] /\ Pieces(e) \subseteq S
      /\ e.addr - 1 \notin S /\ e.addr + e.nr \notin S
  BY DEF Extents
<1>2. Cardinality(S) \in Nat
  BY FS_CardinalityType
<1>3. e.addr \in S /\ e.nr \in 1 .. Cardinality(S) /\ e = [addr |-> e.addr, nr |-> e.nr]
  BY <1>1
<1>4. e.nr \in Nat \ {0} /\ e.addr \in Nat
  BY <1>2, <1>3
<1>5. Pieces(e) = e.addr .. e.addr + e.nr - 1
  BY DEF Pieces
<1>6. e.addr \in Pieces(e)
  BY <1>4, <1>5
<1> QED BY <1>1, <1>3, <1>4, <1>5, <1>6

(* ... two that meet are the same one ...                                   *)
LEMMA ExtentsApart ==
  ASSUME NEW S \in SUBSET Nat, IsFiniteSet(S), NEW d \in Extents(S), NEW e \in Extents(S),
         NEW x, x \in Pieces(d), x \in Pieces(e)
  PROVE  d = e
<1> DEFINE a == d.addr
           b == e.addr
           n == d.nr
           k == e.nr
<1>1. /\ a \in Nat /\ b \in Nat /\ n \in Nat \ {0} /\ k \in Nat \ {0}
      /\ d = [addr |-> a, nr |-> n] /\ e = [addr |-> b, nr |-> k]
  BY ExtentIs
<1>2. /\ Pieces(d) = a .. a + n - 1 /\ Pieces(e) = b .. b + k - 1
      /\ \A y \in a .. a + n - 1 : y \in S
      /\ \A y \in b .. b + k - 1 : y \in S
      /\ a - 1 \notin S /\ b - 1 \notin S /\ a + n \notin S /\ b + k \notin S
  <2>1. /\ Pieces(d) = a .. a + n - 1 /\ Pieces(d) \subseteq S
        /\ a - 1 \notin S /\ a + n \notin S
    BY ExtentIs
  <2>2. /\ Pieces(e) = b .. b + k - 1 /\ Pieces(e) \subseteq S
        /\ b - 1 \notin S /\ b + k \notin S
    BY ExtentIs
  <2> QED BY <2>1, <2>2
<1>3. x \in a .. a + n - 1 /\ x \in b .. b + k - 1
  BY <1>2
<1> HIDE DEF a, b, n, k
<1>4. ~ (a < b)
  <2> SUFFICES ASSUME a < b  PROVE FALSE
    OBVIOUS
  <2>1. b - 1 \in a .. a + n - 1
    BY <1>1, <1>3
  <2> QED BY <1>2, <2>1
<1>5. ~ (b < a)
  <2> SUFFICES ASSUME b < a  PROVE FALSE
    OBVIOUS
  <2>1. a - 1 \in b .. b + k - 1
    BY <1>1, <1>3
  <2> QED BY <1>2, <2>1
<1>6. a = b
  BY <1>1, <1>4, <1>5
<1>7. ~ (n < k)
  <2> SUFFICES ASSUME n < k  PROVE FALSE
    OBVIOUS
  <2>1. a + n \in b .. b + k - 1
    BY <1>1, <1>6
  <2> QED BY <1>2, <2>1
<1>8. ~ (k < n)
  <2> SUFFICES ASSUME k < n  PROVE FALSE
    OBVIOUS
  <2>1. b + k \in a .. a + n - 1
    BY <1>1, <1>6
  <2> QED BY <1>2, <2>1
<1>9. n = k
  BY <1>1, <1>7, <1>8
<1> QED BY <1>1, <1>6, <1>9

(* ... and everything is in one of them.                                    *)
LEMMA ExtentOf ==
  ASSUME NEW S \in SUBSET Nat, IsFiniteSet(S), NEW x \in S
  PROVE  \E e \in Extents(S) : x \in Pieces(e)
<1>0. x \in Nat
  OBVIOUS
<1> DEFINE T == {p \in 0 .. x : \A y \in p .. x : y \in S}
           U == {q \in Nat : q > x /\ q \notin S}
           N == Cardinality(S)
<1>1. PICK p \in T : \A y \in T : p <= y
  <2>1. T \subseteq Nat /\ x \in T
    BY <1>0
  <2> HIDE DEF T
  <2> QED BY <2>1, Least
<1>2. p \in 0 .. x /\ \A y \in p .. x : y \in S
  BY <1>1
<1>3. p - 1 \notin S
  <2> SUFFICES ASSUME p - 1 \in S  PROVE FALSE
    OBVIOUS
  <2>1. p - 1 \in Nat
    OBVIOUS
  <2>2. p - 1 \in 0 .. x /\ \A y \in (p - 1) .. x : y = p - 1 \/ y \in p .. x
    BY <1>0, <1>2, <2>1
  <2>3. p - 1 \in T
    BY <1>2, <2>2
  <2>4. p <= p - 1
    BY <1>1, <2>3
  <2> QED BY <1>2, <2>4
<1>4. N \in Nat
  BY FS_CardinalityType
<1>5. U # {}
  <2> SUFFICES ASSUME U = {}  PROVE FALSE
    OBVIOUS
  <2> DEFINE I == x + 1 .. x + 1 + N
  <2>1. \A q \in Nat : q > x => q \in S
    OBVIOUS
  <2>2. \A q \in I : q \in Nat /\ q > x
    BY <1>0, <1>4
  <2>3. I \in SUBSET S
    <3> HIDE DEF I
    <3> QED BY <2>1, <2>2
  <2>4. Cardinality(I) = N + 1
    <3>1. x + 1 \in Int /\ x + 1 + N \in Int /\ ~ (x + 1 > x + 1 + N) /\ (x + 1 + N) - (x + 1) + 1 = N + 1
      BY <1>0, <1>4
    <3> HIDE DEF N
    <3>2. Cardinality(x + 1 .. x + 1 + N) = IF x + 1 > x + 1 + N THEN 0 ELSE (x + 1 + N) - (x + 1) + 1
      BY <3>1, FS_Interval
    <3> QED BY <3>1, <3>2
  <2> HIDE DEF I
  <2>5. Cardinality(I) <= N
    BY <2>3, FS_Subset
  <2> QED BY <1>4, <2>4, <2>5
<1>6. PICK q \in U : \A y \in U : q <= y
  <2>1. U \subseteq Nat
    OBVIOUS
  <2> HIDE DEF U
  <2> QED BY <1>5, <2>1, Least
<1>7. q \in Nat /\ q > x /\ q \notin S
  BY <1>6
<1>8. ASSUME NEW y \in p .. q - 1
      PROVE  y \in S
  <2>1. y \in Nat /\ (y <= x \/ y > x) /\ p <= y
    BY <1>0, <1>2, <1>7
  <2>2. CASE y <= x
    BY <1>0, <1>2, <2>1, <2>2
  <2>3. CASE y > x
    <3>1. ~ (q <= y)
      BY <1>7, <2>1
    <3>2. y \notin U
      BY <1>6, <3>1
    <3> QED BY <2>1, <2>3, <3>2
  <2> QED BY <2>1, <2>2, <2>3
<1> HIDE DEF T, U
<1> DEFINE e == [addr |-> p, nr |-> q - p]
<1>9. /\ e.addr = p /\ e.nr = q - p /\ p \in S /\ q - p \in Nat \ {0}
      /\ e.addr + e.nr = q /\ e.addr + e.nr - 1 = q - 1
  BY <1>0, <1>2, <1>7
<1>10. Pieces(e) = p .. q - 1
  BY <1>9 DEF Pieces
<1>11. q - p \in 1 .. N
  <2> DEFINE I == p .. q - 1
  <2>1. I \in SUBSET S
    BY <1>8
  <2>2. Cardinality(I) = q - p
    <3>1. p \in Int /\ q - 1 \in Int /\ ~ (p > q - 1) /\ (q - 1) - p + 1 = q - p
      BY <1>0, <1>2, <1>7
    <3>2. Cardinality(p .. q - 1) = IF p > q - 1 THEN 0 ELSE (q - 1) - p + 1
      BY <3>1, FS_Interval
    <3> QED BY <3>1, <3>2
  <2> HIDE DEF I
  <2>3. Cardinality(I) <= N
    BY <2>1, FS_Subset
  <2> QED BY <1>4, <1>9, <2>2, <2>3
<1>12. x \in Pieces(e)
  BY <1>0, <1>2, <1>7, <1>10
<1>13. Pieces(e) \subseteq S
  BY <1>8, <1>10
<1>14. e \in [addr : S, nr : 1 .. N]
  BY <1>9, <1>11
<1> HIDE DEF e
<1>15. e.addr - 1 \notin S /\ e.addr + e.nr \notin S
  BY <1>3, <1>7, <1>9
<1>16. e \in Extents(S)
  BY <1>13, <1>14, <1>15 DEF Extents
<1> QED BY <1>12, <1>16

(* A FREE of one's own hugepages by their extents gives back just these.    *)
LEMMA FreesJust ==
  ASSUME NEW S \in SUBSET Nat, IsFiniteSet(S), NEW o, S \subseteq o
  PROVE  /\ ~ Refused(o, Extents(S)) /\ Remains(o, Extents(S)) = o \ S
         /\ ~ Twice(Extents(S))
<1>1. ~ Refused(o, Extents(S))
  <2> SUFFICES ASSUME NEW e \in Extents(S)  PROVE e.nr # 0 /\ Pieces(e) \subseteq o
    BY DEF Refused
  <2>1. e.nr \in Nat \ {0} /\ Pieces(e) \subseteq S
    BY ExtentIs
  <2> QED BY <2>1
<1>2. Named(Extents(S)) = S
  <2>1. ASSUME NEW x \in S
        PROVE  x \in Named(Extents(S))
    <3>1. \E e \in Extents(S) : x \in Pieces(e)
      BY ExtentOf
    <3> QED BY <3>1, NamedIs
  <2>2. ASSUME NEW x \in Named(Extents(S))
        PROVE  x \in S
    <3>1. PICK e \in Extents(S) : x \in Pieces(e)
      BY NamedIs
    <3>2. Pieces(e) \subseteq S
      BY ExtentIs
    <3> QED BY <3>1, <3>2
  <2> QED BY <2>1, <2>2
<1>3. ~ Twice(Extents(S))
  <2> SUFFICES ASSUME NEW d \in Extents(S), NEW e \in Extents(S), NEW x, x \in Pieces(d), x \in Pieces(e)
               PROVE  d = e
    BY DEF Twice
  <2> QED BY ExtentsApart
<1> QED BY <1>1, <1>2, <1>3 DEF Remains

(* ALLOC lists the extents of a grant one by one.                           *)
LEMMA ReplyIs ==
  ASSUME NEW S \in SUBSET Nat, IsFiniteSet(S), NEW E, E = Reply(S)
  PROVE  /\ E \in Seq(Extents(S))
         /\ \A k, l \in DOMAIN E : k # l => E[k] # E[l]
         /\ \A e \in Extents(S) : \E k \in DOMAIN E : E[k] = e
<1> DEFINE T == {p \in S : p - 1 \notin S}
           a == Ascending(T)
           n == Cardinality(T)
<1>1. T \in SUBSET Nat /\ T \in SUBSET S
  OBVIOUS
<1>2. IsFiniteSet(T)
  BY <1>1, FS_Subset
<1>3. n \in Nat
  BY <1>2, FS_CardinalityType
<1>4. E = [k \in DOMAIN a |-> CHOOSE e \in Extents(S) : e.addr = a[k]]
  BY DEF Reply
<1> HIDE DEF T
<1>5. a \in Seq(T) /\ Len(a) = n /\ IsInjective(a)
  BY <1>1, <1>2, Sorted
<1> HIDE DEF a
<1>6. DOMAIN a = 1 .. n /\ a \in [1 .. n -> T] /\ \A k, l \in 1 .. n : a[k] = a[l] => k = l
  BY <1>5 DEF IsInjective
<1>7. \A p \in T : \E k \in 1 .. n : a[k] = p
  <2>1. IsFiniteSet(1 .. n) /\ Cardinality(1 .. n) = n
    <3>1. 1 \in Int /\ n \in Int /\ (1 > n => n = 0) /\ n - 1 + 1 = n
      BY <1>3
    <3> HIDE DEF n
    <3>2. IsFiniteSet(1 .. n) /\ Cardinality(1 .. n) = IF 1 > n THEN 0 ELSE n - 1 + 1
      BY <3>1, FS_Interval
    <3> QED BY <3>1, <3>2
  <2>2. a \in Injection(1 .. n, T)
    BY <1>6 DEF Injection, IsInjective
  <2>3. a \in Surjection(1 .. n, T)
    BY <1>2, <2>1, <2>2, FS_Injection
  <2> HIDE DEF n
  <2> QED BY <2>3 DEF Surjection
<1> HIDE DEF n
<1>8. ASSUME NEW p \in T
      PROVE  \E e \in Extents(S) : e.addr = p
  <2>1. p \in S /\ p - 1 \notin S /\ p \in Nat
    BY <1>1 DEF T
  <2>2. PICK e \in Extents(S) : p \in Pieces(e)
    BY <2>1, ExtentOf
  <2>3. e.addr \in S /\ e.nr \in Nat \ {0} /\ Pieces(e) = e.addr .. e.addr + e.nr - 1 /\ Pieces(e) \subseteq S
    BY ExtentIs
  <2>4. e.addr \in Nat
    BY <2>3
  <2>5. p # e.addr => p - 1 \in e.addr .. e.addr + e.nr - 1
    BY <2>1, <2>2, <2>3, <2>4
  <2> QED BY <2>1, <2>3, <2>5
<1>9. ASSUME NEW k \in 1 .. n
      PROVE  E[k] \in Extents(S) /\ E[k].addr = a[k]
  <2>1. a[k] \in T
    BY <1>6
  <2>2. \E e \in Extents(S) : e.addr = a[k]
    BY <1>8, <2>1
  <2>3. E[k] = CHOOSE e \in Extents(S) : e.addr = a[k]
    BY <1>4, <1>6
  <2> QED BY <2>2, <2>3
<1>10. DOMAIN E = 1 .. n /\ E = [k \in 1 .. n |-> E[k]]
  BY <1>4, <1>6
<1>11. E \in Seq(Extents(S))
  BY <1>3, <1>9, <1>10
<1>12. \A k, l \in DOMAIN E : k # l => E[k] # E[l]
  BY <1>6, <1>9, <1>10
<1>13. ASSUME NEW e \in Extents(S)
       PROVE  \E k \in DOMAIN E : E[k] = e
  <2>1. e.addr \in S /\ e.addr - 1 \notin S /\ e.addr \in Pieces(e)
    BY ExtentIs
  <2>2. e.addr \in T
    BY <2>1 DEF T
  <2>3. PICK k \in 1 .. n : a[k] = e.addr
    BY <1>7, <2>2
  <2>4. E[k] \in Extents(S) /\ E[k].addr = e.addr
    BY <1>9, <2>3
  <2>5. E[k].addr \in Pieces(E[k])
    BY <2>4, ExtentIs
  <2>6. E[k] = e
    BY <2>1, <2>4, <2>5, ExtentsApart
  <2> QED BY <1>10, <2>3, <2>6
<1> QED BY <1>11, <1>12, <1>13

(* What is left of a sequence after its first i members.                    *)
LEMMA Remainder ==
  ASSUME NEW A, NEW s \in Seq(A), NEW i \in 1 .. Len(s), NEW t, t = SubSeq(s, i + 1, Len(s))
  PROVE  t \in Seq(A) /\ Len(t) = Len(s) - i /\ \A k \in 1 .. Len(s) - i : t[k] = s[i + k]
<1>1. Len(s) \in Nat /\ i \in Nat /\ i <= Len(s)
  OBVIOUS
<1>2. t \in Seq(A) /\ Len(t) = Len(s) - i
  OBVIOUS
<1>3. ASSUME NEW k \in 1 .. Len(s) - i
      PROVE  t[k] = s[i + k]
  <2>1. t[k] = s[i + 1 + k - 1]
    OBVIOUS
  <2>2. i + 1 + k - 1 = i + k
    BY <1>1
  <2> QED BY <2>1, <2>2, Zenon
<1> QED BY <1>2, <1>3

(* What pool_grow could not record and hands back is all there is besides   *)
(* what it recorded, each hugepage in one extent.                           *)
LEMMA RestIs ==
  ASSUME NEW S \in SUBSET Nat, IsFiniteSet(S), NEW E, E = Reply(S),
         NEW i \in DOMAIN E, NEW j \in 0 .. E[i].nr - 1,
         NEW X, X = Recorded(E, i, j), NEW ext, ext = HandedBack(E, i, j)
  PROVE  /\ \A k \in DOMAIN ext : /\ ext[k].nr # 0 /\ Pieces(ext[k]) \subseteq S
                                  /\ Pieces(ext[k]) \cap X = {}
         /\ \A k, l \in DOMAIN ext : k # l => Pieces(ext[k]) \cap Pieces(ext[l]) = {}
         /\ X \subseteq S
         /\ \A x \in S : x \in X \/ \E k \in DOMAIN ext : x \in Pieces(ext[k])
         /\ \E n \in Nat : DOMAIN ext = 1 .. n
<1> DEFINE L == Len(E)
           a == E[i].addr
           n == E[i].nr
<1>1. /\ E \in Seq(Extents(S))
      /\ \A k, l \in DOMAIN E : k # l => E[k] # E[l]
      /\ \A e \in Extents(S) : \E k \in DOMAIN E : E[k] = e
  BY ReplyIs
<1>2. L \in Nat /\ DOMAIN E = 1 .. L /\ \A k \in 1 .. L : E[k] \in Extents(S)
  BY <1>1
<1>3. ASSUME NEW k \in 1 .. L
      PROVE  E[k].nr # 0 /\ Pieces(E[k]) \subseteq S
  <2>1. E[k] \in Extents(S)
    BY <1>2
  <2>2. E[k].nr \in Nat \ {0} /\ Pieces(E[k]) \subseteq S
    BY <2>1, ExtentIs
  <2> QED BY <2>2
<1>4. ASSUME NEW k \in 1 .. L, NEW l \in 1 .. L, k # l, NEW x, x \in Pieces(E[k])
      PROVE  x \notin Pieces(E[l])
  <2>1. E[k] \in Extents(S) /\ E[l] \in Extents(S) /\ E[k] # E[l]
    BY <1>1, <1>2, <1>4
  <2> QED BY <1>4, <2>1, ExtentsApart
<1>5. /\ a \in Nat /\ n \in Nat \ {0} /\ Pieces(E[i]) = a .. a + n - 1 /\ i \in 1 .. L
      /\ j \in 0 .. n - 1
  <2>1. E[i] \in Extents(S) /\ i \in 1 .. L
    BY <1>2
  <2>2. a \in S /\ n \in Nat \ {0} /\ Pieces(E[i]) = a .. a + n - 1
    BY <2>1, ExtentIs
  <2> QED BY <2>1, <2>2
<1> DEFINE r == Rest(E[i], j)
<1>6. r.addr = a + j /\ r.nr = n - j /\ Pieces(r) = a + j .. a + n - 1 /\ r.nr # 0
  <2>1. r.addr = a + j /\ r.nr = n - j
    BY DEF Rest
  <2>2. a + j + (n - j) - 1 = a + n - 1 /\ n - j # 0
    BY <1>5
  <2> HIDE DEF r, a, n
  <2> QED BY <2>1, <2>2 DEF Pieces
<1> HIDE DEF r, a, n
<1> DEFINE M == L - i
           t == SubSeq(E, i + 1, L)
<1>a. M \in Nat /\ i + 1 \in 1 .. L + 1 /\ i \in Nat /\ L = i + M
  <2> HIDE DEF L
  <2> QED BY <1>2, <1>5
<1>b. ASSUME NEW k \in 2 .. 1 + M
      PROVE  k - 1 \in 1 .. M /\ i + (k - 1) = i + k - 1 /\ i + k - 1 \in 1 .. L /\ i + k - 1 > i
  <2> HIDE DEF L, M
  <2> QED BY <1>a
<1>c. t \in Seq(Extents(S)) /\ Len(t) = M /\ \A k \in 1 .. M : t[k] = E[i + k]
  <2>1. E \in Seq(Extents(S)) /\ i \in 1 .. Len(E)
    BY <1>1
  <2>2. t = SubSeq(E, i + 1, Len(E))
    OBVIOUS
  <2> HIDE DEF t, M, L
  <2>3. t \in Seq(Extents(S)) /\ Len(t) = Len(E) - i /\ \A k \in 1 .. Len(E) - i : t[k] = E[i + k]
    BY <2>1, <2>2, Remainder
  <2> QED BY <2>3 DEF M, L
<1>7. /\ M \in Nat /\ DOMAIN ext = 1 .. 1 + M /\ ext[1] = r
      /\ \A k \in 2 .. 1 + M : ext[k] = E[i + k - 1] /\ i + k - 1 \in 1 .. L /\ i + k - 1 > i
  <2>3. ext = <<r>> \o t
    BY DEF HandedBack, r
  <2> HIDE DEF t, M, L
  <2>4. Len(ext) = 1 + M /\ DOMAIN ext = 1 .. 1 + M /\ ext[1] = r
        /\ \A k \in 2 .. 1 + M : ext[k] = t[k - 1]
    BY <1>a, <1>c, <2>3
  <2>5. ASSUME NEW k \in 2 .. 1 + M
        PROVE  ext[k] = E[i + k - 1] /\ i + k - 1 \in 1 .. L /\ i + k - 1 > i
    <3>1. k - 1 \in 1 .. M /\ i + (k - 1) = i + k - 1 /\ i + k - 1 \in 1 .. L /\ i + k - 1 > i
      BY <1>b
    <3>2. t[k - 1] = E[i + (k - 1)]
      BY <1>c, <3>1
    <3> QED BY <2>4, <3>1, <3>2
  <2> QED BY <1>a, <2>4, <2>5
<1> HIDE DEF t, M, L
<1>8. ASSUME NEW k \in 1 .. 1 + M
      PROVE  /\ i + k - 1 \in 1 .. L /\ i + k - 1 >= i
             /\ Pieces(ext[k]) \subseteq Pieces(E[i + k - 1]) /\ ext[k].nr # 0
  <2>1. CASE k = 1
    <3>1. i + k - 1 = i
      BY <1>5, <2>1
    <3>2. a + j .. a + n - 1 \subseteq a .. a + n - 1
      BY <1>5
    <3> QED BY <1>5, <1>6, <1>7, <2>1, <3>1, <3>2
  <2>2. CASE k \in 2 .. 1 + M
    <3>1. ext[k] = E[i + k - 1] /\ i + k - 1 \in 1 .. L /\ i + k - 1 > i
      BY <1>7, <2>2
    <3>2. i + k - 1 >= i
      BY <1>2, <1>5, <3>1
    <3>3. E[i + k - 1].nr # 0
      BY <1>3, <3>1
    <3> QED BY <3>1, <3>2, <3>3
  <2> QED BY <1>7, <2>1, <2>2
<1>9. ASSUME NEW x
      PROVE  x \in X <=> (\E k \in 1 .. i - 1 : x \in Pieces(E[k])) \/ x \in a .. a + j - 1
  BY DEF Recorded, Named, a
<1>10. \A k \in 1 .. i - 1 : k \in 1 .. L /\ k < i
  BY <1>2, <1>5
<1>11. X \subseteq S
  <2> SUFFICES ASSUME NEW x \in X  PROVE x \in S
    OBVIOUS
  <2>1. a .. a + j - 1 \subseteq a .. a + n - 1
    BY <1>5
  <2>2. \A k \in 1 .. L : Pieces(E[k]) \subseteq S
    BY <1>3
  <2> QED BY <1>5, <1>9, <1>10, <2>1, <2>2
<1>12. ASSUME NEW k \in 1 .. 1 + M
       PROVE  Pieces(ext[k]) \subseteq S /\ Pieces(ext[k]) \cap X = {} /\ ext[k].nr # 0
  <2>1. i + k - 1 \in 1 .. L /\ Pieces(ext[k]) \subseteq Pieces(E[i + k - 1]) /\ ext[k].nr # 0
        /\ i + k - 1 >= i
    BY <1>8
  <2>2. Pieces(E[i + k - 1]) \subseteq S
    BY <1>3, <2>1
  <2>3. ASSUME NEW x \in Pieces(ext[k]), x \in X
        PROVE  FALSE
    <3>1. x \in Pieces(E[i + k - 1])
      BY <2>1
    <3>2. CASE \E l \in 1 .. i - 1 : x \in Pieces(E[l])
      <4>1. PICK l \in 1 .. i - 1 : x \in Pieces(E[l])
        BY <3>2
      <4>2. l \in 1 .. L /\ l # i + k - 1
        <5>1. l \in 1 .. L /\ l < i
          BY <1>10
        <5> QED BY <1>5, <2>1, <5>1
      <4> QED BY <1>4, <2>1, <3>1, <4>1, <4>2
    <3>3. CASE x \in a .. a + j - 1
      <4>1. x \in Pieces(E[i])
        BY <1>5, <3>3
      <4>2. i + k - 1 = i
        BY <1>4, <1>5, <2>1, <3>1, <4>1
      <4>3. k = 1
        BY <1>5, <1>7, <4>2
      <4>4. x \in a + j .. a + n - 1
        BY <1>6, <1>7, <4>3
      <4> QED BY <1>5, <3>3, <4>4
    <3> QED BY <1>9, <2>3, <3>2, <3>3
  <2> QED BY <2>1, <2>2, <2>3
<1>13. ASSUME NEW k \in 1 .. 1 + M, NEW l \in 1 .. 1 + M, k # l
       PROVE  Pieces(ext[k]) \cap Pieces(ext[l]) = {}
  <2>1. i + k - 1 \in 1 .. L /\ Pieces(ext[k]) \subseteq Pieces(E[i + k - 1])
    BY <1>8
  <2>2. i + l - 1 \in 1 .. L /\ Pieces(ext[l]) \subseteq Pieces(E[i + l - 1])
    BY <1>8
  <2>3. i + k - 1 # i + l - 1
    BY <1>5, <1>7, <1>13
  <2>4. Pieces(E[i + k - 1]) \cap Pieces(E[i + l - 1]) = {}
    BY <1>4, <2>1, <2>2, <2>3
  <2> QED BY <2>1, <2>2, <2>4
<1>14. ASSUME NEW x \in S
       PROVE  x \in X \/ \E k \in 1 .. 1 + M : x \in Pieces(ext[k])
  <2>1. PICK e \in Extents(S) : x \in Pieces(e)
    BY ExtentOf
  <2>2. PICK l \in 1 .. L : E[l] = e
    BY <1>1, <1>2
  <2>3. CASE l < i
    <3>1. l \in 1 .. i - 1
      BY <1>5, <1>2, <2>3
    <3> QED BY <1>9, <2>1, <2>2, <3>1
  <2>4. CASE l = i
    <3>1. x \in a .. a + n - 1
      BY <1>5, <2>1, <2>2, <2>4
    <3>2. x \in a .. a + j - 1 \/ x \in a + j .. a + n - 1
      BY <1>5, <3>1
    <3>3. x \in a + j .. a + n - 1 => x \in Pieces(ext[1]) /\ 1 \in 1 .. 1 + M
      BY <1>6, <1>7
    <3> QED BY <1>9, <3>2, <3>3
  <2>5. CASE l > i
    <3>1. l - i + 1 \in 2 .. 1 + M /\ i + (l - i + 1) - 1 = l
      BY <1>2, <1>5, <2>5 DEF M
    <3>2. ext[l - i + 1] = E[l]
      BY <1>7, <3>1
    <3>3. l - i + 1 \in 1 .. 1 + M
      BY <1>7, <3>1
    <3> QED BY <2>1, <2>2, <3>2, <3>3
  <2>6. l < i \/ l = i \/ l > i
    BY <1>2, <1>5
  <2> QED BY <2>3, <2>4, <2>5, <2>6
<1>15. \E l \in Nat : DOMAIN ext = 1 .. l
  <2>1. 1 + M \in Nat
    BY <1>7
  <2> QED BY <1>7, <2>1
<1> QED BY <1>7, <1>11, <1>12, <1>13, <1>14, <1>15

(* The hugepages of a region are finitely many.                             *)
LEMMA PagesFinite ==
  ASSUME NEW m \in Region, NEW S, S \subseteq Pages(m)
  PROVE  S \in SUBSET Nat /\ IsFiniteSet(S)
<1>1. NrHugepages[m] \in Nat \ {0}
  BY PoolAssumption DEF Region
<1>2. 0 \in Int /\ NrHugepages[m] - 1 \in Int /\ Pages(m) \subseteq Nat
  BY <1>1 DEF Pages
<1>3. IsFiniteSet(Pages(m))
  BY <1>2, FS_Interval DEF Pages
<1> QED BY <1>2, <1>3, FS_Subset

------------------------------------------------------------------------------
(* What the members of one context's row have to do with each other.        *)

Line(f) == f = [c \in Ctx |-> f[c]]
Square(f) == f = [c \in Ctx |-> [m \in Region |-> f[c][m]]]

LEMMA LineSet ==
  ASSUME NEW f, NEW g, NEW x, NEW c \in Ctx, Line(f), g = [f EXCEPT ![c] = x]
  PROVE  Line(g) /\ g[c] = x /\ \A d \in Ctx : d # c => g[d] = f[d]
BY DEF Line

LEMMA SquareSet ==
  ASSUME NEW f, NEW g, NEW x, NEW c \in Ctx, NEW m \in Region, Square(f),
         g = [f EXCEPT ![c][m] = x]
  PROVE  /\ Square(g) /\ g[c][m] = x /\ \A n \in Region : n # m => g[c][n] = f[c][n]
         /\ \A d \in Ctx : d # c => g[d] = f[d]
BY DEF Square

LEMMA SquareRow ==
  ASSUME NEW f, NEW g, NEW h, NEW c \in Ctx, Square(f), h = [m \in Region |-> h[m]],
         g = [f EXCEPT ![c] = h]
  PROVE  Square(g) /\ g[c] = h /\ \A d \in Ctx : d # c => g[d] = f[d]
BY DEF Square

(* The granules the records of one table name in region m.                  *)
Used(A, m) == UNION {ToSet(A[v].grans) : v \in {w \in DOMAIN A : A[w].mem = m}}

LEMMA UsedIs ==
  ASSUME NEW A, NEW m, NEW x
  PROVE  x \in Used(A, m) <=> \E v \in DOMAIN A : A[v].mem = m /\ x \in ToSet(A[v].grans)
BY DEF Used

(* A function is what it maps its arguments to.                             *)
Table(A) == A = [v \in DOMAIN A |-> A[v]]

(* Two records do not name the same granule.                                *)
Clear(r, s) == r.mem = s.mem => ToSet(r.grans) \cap ToSet(s.grans) = {}

(* Records: of reserved ranges, each of different granules nobody else has. *)
RecordsOK(A, M) ==
  /\ Table(A) /\ DOMAIN A \subseteq M \cap VRange
  /\ \A v \in DOMAIN A : /\ A[v].mem \in Region /\ A[v].grans \in Seq(Nat) /\ Len(A[v].grans) > 0
                         /\ IsInjective(A[v].grans)
  /\ \A v, w \in DOMAIN A : v # w => Clear(A[v], A[w])

(* The thread: what it works on is there, or no longer there.               *)
ThreadOK(A, label, k) ==
  /\ label \in {"closed", "ready", "zeroing", "writing", "unmap", "fini", "exiting"}
  /\ k \in [v : VRange \cup {0}, done : Nat]
  /\ label \in {"closed", "fini", "exiting"} => DOMAIN A = {}
  /\ label = "unmap" => k.v \notin DOMAIN A
  /\ label \in {"zeroing", "writing"} => k.v \in DOMAIN A /\ k.done < Len(A[k.v].grans)

(* One region: o the hugepages the driver charges to the context, st the    *)
(* stuck ones, P and F the pool, u the granules in use.                     *)
RegionOK(m, o, st, P, F, u, label) ==
  /\ o \subseteq Pages(m) /\ PoolOK(m, P, F) /\ DOMAIN P \subseteq o
  /\ label # "fini" => Marked(P) = u
  /\ label \notin {"fini", "exiting"} => o \ DOMAIN P = st
  /\ label = "closed" => o = {}
  /\ label = "exiting" => DOMAIN P = {} /\ st = {}

RegionsOK(c) ==
  \A m \in Region :
    RegionOK(m, own[c][m], stuck[c][m], pool[c][m], nfree[c][m], Used(allocs[c], m), pc[c])

RowOK(c) ==
  /\ RegionsOK(c)
  /\ RecordsOK(allocs[c], mapped[c])
  /\ ThreadOK(allocs[c], pc[c], cur[c])

Shape ==
  /\ Square(own) /\ Square(stuck) /\ Square(pool) /\ Square(nfree)
  /\ Line(allocs) /\ Line(mapped) /\ Line(pc) /\ Line(cur) /\ Line(expect)

Apart == \A c, d \in Ctx, m \in Region : c # d => own[c][m] \cap own[d][m] = {}

(* Inductive: every context's row is in order, and no hugepage is two's.    *)
PInv == Shape /\ (\A c \in Ctx : RowOK(c)) /\ Apart

(* A context that takes no step.                                            *)
Aside(d) ==
  UNCHANGED <<own[d], stuck[d], pool[d], nfree[d], allocs[d], mapped[d], pc[d], cur[d], expect[d]>>

(* What a context may do to the driver's ledger.                            *)
Asks(c) == \A m \in Region : own'[c][m] \subseteq own[c][m] \cup DriverFree(m)

(* A step of one context has to be right about that context only.           *)
LEMMA OneRow ==
  ASSUME PInv, NEW c \in Ctx, Shape', RowOK(c)', Asks(c), \A d \in Ctx : d # c => Aside(d)
  PROVE  PInv'
<1>1. ASSUME NEW d \in Ctx, d # c
      PROVE  RowOK(d)'
  <2>1. Aside(d) /\ RowOK(d)
    BY <1>1 DEF PInv
  <2>2. own'[d] = own[d] /\ stuck'[d] = stuck[d] /\ pool'[d] = pool[d] /\ nfree'[d] = nfree[d]
        /\ allocs'[d] = allocs[d] /\ mapped'[d] = mapped[d] /\ pc'[d] = pc[d] /\ cur'[d] = cur[d]
    BY <2>1 DEF Aside
  <2>3. RegionsOK(d)'
    BY <2>1, <2>2 DEF RowOK, RegionsOK
  <2> QED BY <2>1, <2>2, <2>3 DEF RowOK
<1>2. ASSUME NEW d \in Ctx, NEW e \in Ctx, NEW m \in Region, d # e
      PROVE  own'[d][m] \cap own'[e][m] = {}
  <2>1. \A x \in Ctx : x # c => own'[x][m] = own[x][m] /\ own[c][m] \cap own[x][m] = {}
    BY DEF Aside, PInv, Apart
  <2>2. \A x \in Ctx : x # c => own'[c][m] \cap own[x][m] = {}
    BY <2>1 DEF Asks, DriverFree
  <2>3. own[d][m] \cap own[e][m] = {}
    BY <1>2 DEF PInv, Apart
  <2> QED BY <1>2, <2>1, <2>2, <2>3
<1> QED BY <1>1, <1>2 DEF PInv, Apart

(* The start.                                                               *)
LEMMA PoolsStart == Init => PInv
<1> SUFFICES ASSUME Init  PROVE PInv
  OBVIOUS
<1>1. Shape
  BY DEF Init, Shape, Square, Line
<1>2. ASSUME NEW c \in Ctx
      PROVE  RowOK(c)
  <2>1. \A m \in Region : own[c][m] = {} /\ stuck[c][m] = {} /\ pool[c][m] = Empty
                          /\ nfree[c][m] = Empty
    BY DEF Init
  <2>2. allocs[c] = Empty /\ pc[c] = "closed" /\ cur[c] = Idle
    BY DEF Init
  <2>3. DOMAIN Empty = {} /\ Empty = [v \in DOMAIN Empty |-> Empty[v]]
    BY DEF Empty
  <2>4. ASSUME NEW m \in Region
        PROVE  RegionOK(m, own[c][m], stuck[c][m], pool[c][m], nfree[c][m], Used(allocs[c], m), pc[c])
    <3>1. Used(Empty, m) = {}
      BY <2>3, UsedIs
    <3>2. PoolOK(m, Empty, Empty) /\ Marked(Empty) = {}
      BY EmptyPool
    <3> QED BY <2>1, <2>2, <2>3, <3>1, <3>2 DEF RegionOK
  <2>5. RecordsOK(allocs[c], mapped[c])
    BY <2>2, <2>3 DEF RecordsOK, Table
  <2>6. ThreadOK(allocs[c], pc[c], cur[c])
    BY <2>2, <2>3 DEF ThreadOK, Idle
  <2> QED BY <2>4, <2>5, <2>6 DEF RowOK, RegionsOK
<1>3. Apart
  BY DEF Init, Apart
<1> QED BY <1>1, <1>2, <1>3 DEF PInv

------------------------------------------------------------------------------
(* The record table.                                                        *)

(* A granule that is free is in no allocation.                              *)
LEMMA FreeUnmarked ==
  ASSUME NEW m \in Region, NEW P, NEW F, PoolOK(m, P, F)
  PROVE  FreeIn(m, P, DOMAIN P) \cap Marked(P) = {}
<1> SUFFICES ASSUME NEW x, x \in FreeIn(m, P, DOMAIN P), x \in Marked(P)  PROVE FALSE
  OBVIOUS
<1>1. PICK p \in DOMAIN P : x \in Grans(m, p) /\ x \notin P[p]
  BY FreeInIs
<1>2. PICK q \in DOMAIN P : x \in P[q]
  BY MarkedIn
<1>3. p \in Pages(m) /\ q \in Pages(m) /\ x \in Grans(m, q) /\ p # q
  BY <1>1, <1>2 DEF PoolOK
<1> QED BY <1>1, <1>3, GransApart

(* The granules of a new record, and the table with it.                     *)
Fits(A, m, g) ==
  g \in Seq(Nat) /\ IsInjective(g) /\ Len(g) > 0 /\ ToSet(g) \cap Used(A, m) = {}
Added(A, B, v, m, g) ==
  /\ DOMAIN B = DOMAIN A \cup {v} /\ Table(B)
  /\ B[v] = [mem |-> m, grans |-> g] /\ \A x \in DOMAIN A : B[x] = A[x]

LEMMA AddRecord ==
  ASSUME NEW A, NEW M, RecordsOK(A, M), NEW v \in VRange, v \notin M, NEW m \in Region,
         NEW g, Fits(A, m, g), NEW B, Added(A, B, v, m, g)
  PROVE  RecordsOK(B, M \cup {v})
<1>1. v \notin DOMAIN A
  BY DEF RecordsOK
<1>2. /\ DOMAIN B = DOMAIN A \cup {v} /\ \A x \in DOMAIN A : B[x] = A[x]
  BY DEF Added
<1>3. /\ B[v].mem = m /\ B[v].grans = g /\ Table(B)
      /\ g \in Seq(Nat) /\ IsInjective(g) /\ Len(g) > 0 /\ ToSet(g) \cap Used(A, m) = {}
  BY DEF Added, Fits
<1>4. \A x \in DOMAIN B : /\ B[x].mem \in Region /\ B[x].grans \in Seq(Nat) /\ Len(B[x].grans) > 0
                          /\ IsInjective(B[x].grans)
  BY <1>2, <1>3 DEF RecordsOK
<1>5. ASSUME NEW x \in DOMAIN A
      PROVE  Clear(A[x], B[v]) /\ Clear(B[v], A[x])
  <2>1. A[x].mem = m => ToSet(A[x].grans) \subseteq Used(A, m)
    BY UsedIs
  <2> QED BY <1>3, <2>1 DEF Clear
<1>6. ASSUME NEW x \in DOMAIN B, NEW w \in DOMAIN B, x # w
      PROVE  Clear(B[x], B[w])
  <2>1. \A y \in DOMAIN B : y = v \/ (y \in DOMAIN A /\ B[y] = A[y])
    BY <1>2
  <2>2. x \in DOMAIN A /\ w \in DOMAIN A => Clear(A[x], A[w])
    BY <1>6 DEF RecordsOK
  <2> QED BY <1>5, <1>6, <2>1, <2>2, Zenon
<1>7. DOMAIN B \subseteq (M \cup {v}) \cap VRange
  BY <1>2 DEF RecordsOK
<1>8. RecordsOK(B, M \cup {v})
  BY <1>3, <1>4, <1>6, <1>7 DEF RecordsOK
<1> QED BY <1>8

(* Its granules are in use then, besides the others.                        *)
LEMMA AddUsed ==
  ASSUME NEW A, NEW B, NEW v, NEW m, NEW g, Added(A, B, v, m, g), v \notin DOMAIN A
  PROVE  /\ Used(B, m) = Used(A, m) \cup ToSet(g)
         /\ \A n \in Region : n # m => Used(B, n) = Used(A, n)
<1>2. /\ DOMAIN B = DOMAIN A \cup {v} /\ \A x \in DOMAIN A : B[x] = A[x]
  BY DEF Added
<1>3. B[v].mem = m /\ B[v].grans = g
  BY DEF Added
<1>9. ASSUME NEW n, NEW x
      PROVE  x \in Used(B, n) <=> x \in Used(A, n) \/ (n = m /\ x \in ToSet(g))
  <2>1. x \in Used(B, n) <=> \E w \in DOMAIN B : B[w].mem = n /\ x \in ToSet(B[w].grans)
    BY UsedIs
  <2>2. x \in Used(A, n) <=> \E w \in DOMAIN A : A[w].mem = n /\ x \in ToSet(A[w].grans)
    BY UsedIs
  <2> QED BY <1>2, <1>3, <2>1, <2>2
<1>10. Used(B, m) = Used(A, m) \cup ToSet(g)
  BY <1>9
<1>11. \A n \in Region : n # m => Used(B, n) = Used(A, n)
  BY <1>9
<1> QED BY <1>10, <1>11

(* One record less: its granules are no longer in use, the others are.      *)
Dropped(A, M, v) ==
  LET B == Without(A, {v})
      m == A[v].mem
  IN  /\ RecordsOK(B, M) /\ DOMAIN B = DOMAIN A \ {v} /\ \A x \in DOMAIN B : B[x] = A[x]
      /\ m \in Region /\ ToSet(A[v].grans) \subseteq Used(A, m)
      /\ Used(B, m) = Used(A, m) \ ToSet(A[v].grans)
      /\ \A n \in Region : n # m => Used(B, n) = Used(A, n)

LEMMA DropRecord ==
  ASSUME NEW A, NEW M, RecordsOK(A, M), NEW v \in DOMAIN A
  PROVE  Dropped(A, M, v)
<1> DEFINE B == Without(A, {v})
           m == A[v].mem
<1>1. DOMAIN B = DOMAIN A \ {v} /\ Table(B) /\ \A x \in DOMAIN B : B[x] = A[x]
  BY DEF Without, Table
<1> HIDE DEF B
<1>2. RecordsOK(B, M)
  <2>1. DOMAIN B \subseteq M \cap VRange
    BY <1>1 DEF RecordsOK
  <2>2. \A x \in DOMAIN B : /\ B[x].mem \in Region /\ B[x].grans \in Seq(Nat) /\ Len(B[x].grans) > 0
                            /\ IsInjective(B[x].grans)
    BY <1>1 DEF RecordsOK
  <2>3. \A x, w \in DOMAIN B : x # w => Clear(B[x], B[w])
    BY <1>1 DEF RecordsOK
  <2> QED BY <1>1, <2>1, <2>2, <2>3 DEF RecordsOK
<1>3. m \in Region /\ ToSet(A[v].grans) \subseteq Used(A, m)
  BY UsedIs DEF RecordsOK
<1>4. ASSUME NEW n, NEW x
      PROVE  x \in Used(B, n) <=> x \in Used(A, n) /\ ~ (n = m /\ x \in ToSet(A[v].grans))
  <2>1. x \in Used(B, n) <=> \E w \in DOMAIN B : B[w].mem = n /\ x \in ToSet(B[w].grans)
    BY SMTT(60), UsedIs
  <2>2. x \in Used(A, n) <=> \E w \in DOMAIN A : A[w].mem = n /\ x \in ToSet(A[w].grans)
    BY UsedIs
  <2>3. \A w \in DOMAIN A : w # v /\ A[w].mem = m =>
          ToSet(A[w].grans) \cap ToSet(A[v].grans) = {}
    BY DEF RecordsOK, Clear
  <2> QED BY <1>1, <2>1, <2>2, <2>3
<1>5. Used(B, m) = Used(A, m) \ ToSet(A[v].grans)
  BY <1>4
<1>6. ASSUME NEW n \in Region, n # m  PROVE Used(B, n) = Used(A, n)
  <2>1. ASSUME NEW x  PROVE x \in Used(B, n) <=> x \in Used(A, n)
    BY <1>4, <1>6
  <2> QED BY <2>1
<1> QED BY <1>1, <1>2, <1>3, <1>5, <1>6 DEF B, Dropped

(* No records, nothing in use.                                              *)
LEMMA NoRecords ==
  ASSUME NEW M
  PROVE  RecordsOK(Empty, M) /\ DOMAIN Empty = {} /\ \A m : Used(Empty, m) = {}
<1>1. DOMAIN Empty = {} /\ Empty = [v \in DOMAIN Empty |-> Empty[v]]
  BY DEF Empty
<1> QED BY <1>1, UsedIs DEF RecordsOK, Table

------------------------------------------------------------------------------
(* The steps.                                                               *)

Busy == {"ready", "zeroing", "writing", "unmap"}

(* A working context changed one region.                                    *)
LEMMA OneRegion ==
  ASSUME PInv, NEW c \in Ctx, NEW m \in Region, pc[c] \in Busy, pc'[c] \in Busy,
         \A n \in Region : n # m =>
           /\ own'[c][n] = own[c][n] /\ stuck'[c][n] = stuck[c][n] /\ pool'[c][n] = pool[c][n]
           /\ nfree'[c][n] = nfree[c][n] /\ Used(allocs'[c], n) = Used(allocs[c], n),
         RegionOK(m, own'[c][m], stuck'[c][m], pool'[c][m], nfree'[c][m], Used(allocs'[c], m), "ready")
  PROVE  RegionsOK(c)'
<1>1. ASSUME NEW n \in Region
      PROVE  RegionOK(n, own'[c][n], stuck'[c][n], pool'[c][n], nfree'[c][n], Used(allocs'[c], n), pc'[c])
  <2>1. CASE n = m
    BY <2>1 DEF RegionOK, Busy
  <2>2. CASE n # m
    <3>1. RegionOK(n, own[c][n], stuck[c][n], pool[c][n], nfree[c][n], Used(allocs[c], n), pc[c])
      BY DEF PInv, RowOK, RegionsOK
    <3>2. own'[c][n] = own[c][n] /\ stuck'[c][n] = stuck[c][n] /\ pool'[c][n] = pool[c][n]
           /\ nfree'[c][n] = nfree[c][n] /\ Used(allocs'[c], n) = Used(allocs[c], n)
      BY <2>2
    <3> QED BY <3>1, <3>2 DEF RegionOK, Busy
  <2> QED BY <2>1, <2>2
<1> QED BY <1>1 DEF RegionsOK

(* ... or none.                                                             *)
LEMMA NoRegion ==
  ASSUME PInv, NEW c \in Ctx, pc[c] \in Busy, pc'[c] \in Busy,
         UNCHANGED <<own, stuck, pool, nfree, allocs>>
  PROVE  RegionsOK(c)'
<1>1. ASSUME NEW n \in Region
      PROVE  RegionOK(n, own'[c][n], stuck'[c][n], pool'[c][n], nfree'[c][n], Used(allocs'[c], n), pc'[c])
  <2>1. RegionOK(n, own[c][n], stuck[c][n], pool[c][n], nfree[c][n], Used(allocs[c], n), pc[c])
    BY DEF PInv, RowOK, RegionsOK
  <2> QED BY <2>1 DEF RegionOK, Busy
<1> QED BY <1>1 DEF RegionsOK

(* The two tables of a pool are set together.                               *)
LEMMA PoolSet ==
  ASSUME Shape, NEW c \in Ctx, NEW m \in Region, NEW P, NEW F, SetPool(c, m, P, F)
  PROVE  /\ Square(pool)' /\ Square(nfree)' /\ pool'[c][m] = P /\ nfree'[c][m] = F
         /\ \A n \in Region : n # m => pool'[c][n] = pool[c][n] /\ nfree'[c][n] = nfree[c][n]
         /\ \A d \in Ctx : d # c => pool'[d] = pool[d] /\ nfree'[d] = nfree[d]
<1>1. Square(pool) /\ Square(nfree)
  BY DEF Shape
<1>2. pool' = [pool EXCEPT ![c][m] = P] /\ nfree' = [nfree EXCEPT ![c][m] = F]
  BY DEF SetPool
<1>3. /\ Square(pool') /\ pool'[c][m] = P /\ \A n \in Region : n # m => pool'[c][n] = pool[c][n]
      /\ \A d \in Ctx : d # c => pool'[d] = pool[d]
  BY <1>1, <1>2 DEF Square
<1>4. /\ Square(nfree') /\ nfree'[c][m] = F /\ \A n \in Region : n # m => nfree'[c][n] = nfree[c][n]
      /\ \A d \in Ctx : d # c => nfree'[d] = nfree[d]
  BY <1>1, <1>2 DEF Square
<1> QED BY <1>3, <1>4

(* What the driver's ledger gains.                                          *)
LEMMA OwnSet ==
  ASSUME Shape, NEW c \in Ctx, NEW m \in Region, NEW X, own' = [own EXCEPT ![c][m] = X]
  PROVE  /\ Square(own)' /\ own'[c][m] = X
         /\ \A n \in Region : n # m => own'[c][n] = own[c][n]
         /\ \A d \in Ctx : d # c => own'[d] = own[d]
<1>1. Square(own)
  BY DEF Shape
<1>2. /\ Square(own') /\ own'[c][m] = X /\ \A n \in Region : n # m => own'[c][n] = own[c][n]
      /\ \A d \in Ctx : d # c => own'[d] = own[d]
  BY <1>1 DEF Square
<1> QED BY <1>2

(* The pool P, F a context may go on with after the driver had its say.     *)
Grown(c, m, P, F) ==
  /\ Extends(m, pool[c][m], nfree[c][m], P, F) /\ Marked(P) = Marked(pool[c][m])
  /\ Square(own)' /\ own'[c][m] \subseteq Pages(m) /\ DOMAIN P \subseteq own'[c][m]
  /\ own'[c][m] \subseteq own[c][m] \cup DriverFree(m)
  /\ \A n \in Region : n # m => own'[c][n] = own[c][n]
  /\ \A d \in Ctx : d # c => own'[d] = own[d]

(* What PInv says of a context that can be called.                          *)
LEMMA ReadyRegion ==
  ASSUME PInv, NEW c \in Ctx, NEW m \in Region, pc[c] \in Busy
  PROVE  /\ own[c][m] \subseteq Pages(m) /\ PoolOK(m, pool[c][m], nfree[c][m])
         /\ DOMAIN pool[c][m] \subseteq own[c][m] /\ Marked(pool[c][m]) = Used(allocs[c], m)
         /\ own[c][m] \ DOMAIN pool[c][m] = stuck[c][m]
<1>1. RegionOK(m, own[c][m], stuck[c][m], pool[c][m], nfree[c][m], Used(allocs[c], m), pc[c])
  BY DEF PInv, RowOK, RegionsOK
<1> QED BY <1>1 DEF RegionOK, Busy

(* The driver granted K and X, and the pool recorded X of them.             *)
Granted(c, m, X, K) ==
  /\ X \subseteq DriverFree(m) /\ K \subseteq DriverFree(m) /\ X \cap K = {}
  /\ \E Y : Y = own[c][m] \cup X \cup K /\ own' = [own EXCEPT ![c][m] = Y]

LEMMA PoolGrows ==
  ASSUME PInv, NEW c \in Ctx, NEW m \in Region, pc[c] \in Busy, NEW X, NEW K, Granted(c, m, X, K)
  PROVE  /\ Grown(c, m, InsertAll(pool[c][m], X), InsertFree(m, nfree[c][m], X))
         /\ own'[c][m] \ DOMAIN InsertAll(pool[c][m], X) = stuck[c][m] \cup K
<1> DEFINE P == pool[c][m]
           F == nfree[c][m]
           o == own[c][m]
           D == DriverFree(m)
<1>0. PICK Y : /\ X \subseteq D /\ K \subseteq D /\ X \cap K = {}
               /\ Y = o \cup X \cup K /\ own' = [own EXCEPT ![c][m] = Y]
  BY DEF Granted
<1>1. /\ o \subseteq Pages(m) /\ PoolOK(m, P, F) /\ DOMAIN P \subseteq o
      /\ o \ DOMAIN P = stuck[c][m]
  BY ReadyRegion
<1>2. D \subseteq Pages(m) /\ D \cap o = {}
  BY DEF DriverFree
<1>3. /\ Square(own)' /\ own'[c][m] = Y /\ \A n \in Region : n # m => own'[c][n] = own[c][n]
      /\ \A d \in Ctx : d # c => own'[d] = own[d]
  <2>1. Shape
    BY DEF PInv
  <2> QED BY ZenonT(60), <1>0, <2>1 DEF Shape, Square
<1>4. X \in SUBSET Pages(m) /\ X \cap DOMAIN P = {}
  BY <1>0, <1>1, <1>2
<1> HIDE DEF P, F
<1>5. /\ Extends(m, P, F, InsertAll(P, X), InsertFree(m, F, X))
      /\ DOMAIN InsertAll(P, X) = DOMAIN P \cup X /\ Marked(InsertAll(P, X)) = Marked(P)
  BY <1>1, <1>4, Inserting
<1>6. Y \subseteq Pages(m) /\ Y \subseteq o \cup D /\ DOMAIN P \cup X \subseteq Y
      /\ Y \ (DOMAIN P \cup X) = stuck[c][m] \cup K
  BY <1>0, <1>1, <1>2
<1> HIDE DEF o, D
<1>7. Grown(c, m, InsertAll(P, X), InsertFree(m, F, X))
  BY <1>3, <1>5, <1>6 DEF Grown, P, F, o, D
<1> QED BY <1>3, <1>5, <1>6, <1>7 DEF P, F

(* Handing back names nothing that is not the fd's any more, and what the   *)
(* driver does not take is neither in the pool nor forgotten.               *)
LEMMA HandsBack ==
  ASSUME NEW c \in Ctx, NEW m \in Region, NEW S, S \subseteq DriverFree(m), NEW E, E = Reply(S),
         NEW i \in DOMAIN E, NEW j \in 0 .. E[i].nr - 1, NEW X, X = Recorded(E, i, j),
         HandBack(c, m, S, HandedBack(E, i, j))
  PROVE  /\ \E K : /\ Granted(c, m, X, K)
                   /\ stuck' = [stuck EXCEPT ![c][m] = stuck[c][m] \cup K]
         /\ UNCHANGED careless
<1> DEFINE ext == HandedBack(E, i, j)
           held == own[c][m] \cup S
<1>1. S \subseteq Pages(m) /\ S \cap own[c][m] = {}
  BY DEF DriverFree
<1>2. S \in SUBSET Nat /\ IsFiniteSet(S)
  BY <1>1, PagesFinite
<1>3. PICK failed \in SUBSET DOMAIN ext :
        LET wrong == Wrong(held, ext, failed)
            still == failed \cup wrong
        IN  /\ own' = [own EXCEPT ![c][m] = held \ Named({ext[k] : k \in DOMAIN ext \ still})]
            /\ stuck' = [stuck EXCEPT ![c][m] = stuck[c][m] \cup Named({ext[k] : k \in still})]
            /\ careless' = IF wrong = {} THEN careless ELSE careless \cup {c}
  BY DEF HandBack
<1>4. /\ \A k \in DOMAIN ext : /\ ext[k].nr # 0 /\ Pieces(ext[k]) \subseteq S
                               /\ Pieces(ext[k]) \cap X = {}
      /\ \A k, l \in DOMAIN ext : k # l => Pieces(ext[k]) \cap Pieces(ext[l]) = {}
      /\ X \subseteq S
      /\ \A x \in S : x \in X \/ \E k \in DOMAIN ext : x \in Pieces(ext[k])
  BY <1>2, RestIs
<1>5. PICK n \in Nat : DOMAIN ext = 1 .. n
  BY <1>2, RestIs
<1> HIDE DEF ext
<1>6. Wrong(held, ext, failed) = {}
  <2> SUFFICES ASSUME NEW k \in DOMAIN ext
               PROVE  ~ Refused(held \ Named({ext[x] : x \in (1 .. k - 1) \ failed}), {ext[k]})
    BY DEF Wrong
  <2> SUFFICES ASSUME NEW y \in Pieces(ext[k])
               PROVE  y \in held /\ y \notin Named({ext[x] : x \in (1 .. k - 1) \ failed})
    BY <1>4 DEF Refused
  <2>1. y \in held
    BY <1>4
  <2>2. ASSUME NEW x \in 1 .. k - 1, y \in Pieces(ext[x])
        PROVE  FALSE
    <3>1. x \in DOMAIN ext /\ x # k
      BY <1>5
    <3> QED BY <1>4, <2>2, <3>1
  <2> QED BY <2>1, <2>2, NamedIs
<1> DEFINE K == Named({ext[k] : k \in failed})
           B == Named({ext[k] : k \in DOMAIN ext \ failed})
<1>7. /\ own' = [own EXCEPT ![c][m] = held \ B]
      /\ stuck' = [stuck EXCEPT ![c][m] = stuck[c][m] \cup K]
      /\ careless' = careless
  <2>1. failed \cup {} = failed
    OBVIOUS
  <2> QED BY <1>3, <1>6, <2>1
<1>8. \A x : x \in K <=> \E k \in failed : x \in Pieces(ext[k])
  BY DEF Named
<1>9. \A x : x \in B <=> \E k \in DOMAIN ext \ failed : x \in Pieces(ext[k])
  BY DEF Named
<1> HIDE DEF K, B
<1>10. K \subseteq S /\ B \subseteq S /\ K \cap X = {} /\ B \cap X = {} /\ K \cap B = {}
       /\ S \subseteq X \cup K \cup B
  <2>1. K \subseteq S /\ K \cap X = {}
    BY <1>4, <1>8
  <2>2. B \subseteq S /\ B \cap X = {}
    BY <1>4, <1>9
  <2>3. K \cap B = {}
    <3> SUFFICES ASSUME NEW x \in K, x \in B  PROVE FALSE
      OBVIOUS
    <3>1. PICK k \in failed : x \in Pieces(ext[k])
      BY <1>8
    <3>2. PICK l \in DOMAIN ext \ failed : x \in Pieces(ext[l])
      BY <1>9
    <3> QED BY <1>4, <3>1, <3>2
  <2>4. S \subseteq X \cup K \cup B
    BY <1>4, <1>8, <1>9
  <2> QED BY <2>1, <2>2, <2>3, <2>4
<1>11. held \ B = own[c][m] \cup X \cup K
  BY <1>1, <1>4, <1>10
<1>12. Granted(c, m, X, K)
  BY <1>4, <1>7, <1>10, <1>11 DEF Granted
<1> QED BY <1>7, <1>12

(* A trim of what the pool has names only hugepages that the fd has, each   *)
(* in one extent.                                                           *)
LEMMA TrimNames ==
  ASSUME NEW c \in Ctx, NEW m \in Region, NEW F, NEW keep,
         own[c][m] \subseteq Pages(m), ToTrim(m, F, keep) \subseteq own[c][m]
  PROVE  LET ext == TrimExtents(m, F, keep) IN
         /\ ~ Refused(own[c][m], ext) /\ ~ Twice(ext)
         /\ Remains(own[c][m], ext) = own[c][m] \ ToTrim(m, F, keep)
<1> DEFINE T == ToTrim(m, F, keep)
<1>1. T \subseteq Pages(m)
  OBVIOUS
<1>2. TrimExtents(m, F, keep) = Extents(T)
  BY DEF TrimExtents
<1> HIDE DEF T
<1>3. T \in SUBSET Nat /\ IsFiniteSet(T)
  BY <1>1, PagesFinite
<1>4. /\ ~ Refused(own[c][m], Extents(T)) /\ ~ Twice(Extents(T))
      /\ Remains(own[c][m], Extents(T)) = own[c][m] \ T
  BY <1>3, FreesJust DEF T
<1> QED BY <1>2, <1>4 DEF T

LEMMA TrimGives ==
  ASSUME NEW c \in Ctx, NEW m \in Region, NEW P, NEW F, NEW keep,
         own[c][m] \subseteq Pages(m), ToTrim(m, F, keep) \subseteq own[c][m],
         Trim(c, m, P, F, keep)
  PROVE  LET T == ToTrim(m, F, keep) IN
         /\ \/ own' = [own EXCEPT ![c][m] = own[c][m] \ T] /\ SetPool(c, m, Kept(P, T), Kept(F, T))
            \/ SetPool(c, m, P, F) /\ UNCHANGED own
         /\ UNCHANGED careless
<1> DEFINE T == ToTrim(m, F, keep)
           ext == TrimExtents(m, F, keep)
<1>1. /\ ~ Refused(own[c][m], ext) /\ ~ Twice(ext) /\ Remains(own[c][m], ext) = own[c][m] \ T
  BY TrimNames
<1>2. /\ careless' = IF Refused(own[c][m], ext) \/ Twice(ext) THEN careless \cup {c} ELSE careless
      /\ \/ /\ own' = [own EXCEPT ![c][m] = Remains(own[c][m], ext)]
            /\ SetPool(c, m, Kept(P, T), Kept(F, T))
         \/ SetPool(c, m, P, F) /\ UNCHANGED own
  BY DEF Trim
<1> HIDE DEF T, ext
<1> QED BY <1>1, <1>2 DEF T

(* Nothing was asked of the driver.                                         *)
LEMMA PoolStays ==
  ASSUME PInv, NEW c \in Ctx, NEW m \in Region, pc[c] \in Busy, UNCHANGED own
  PROVE  /\ Grown(c, m, pool[c][m], nfree[c][m])
         /\ own'[c][m] \ DOMAIN pool[c][m] = stuck[c][m]
<1>1. /\ own[c][m] \subseteq Pages(m) /\ PoolOK(m, pool[c][m], nfree[c][m])
      /\ DOMAIN pool[c][m] \subseteq own[c][m] /\ own[c][m] \ DOMAIN pool[c][m] = stuck[c][m]
  BY ReadyRegion
<1>2. Square(own)
  BY DEF PInv, Shape
<1>3. Extends(m, pool[c][m], nfree[c][m], pool[c][m], nfree[c][m])
  BY <1>1 DEF Extends
<1> QED BY <1>1, <1>2, <1>3 DEF Grown

(* An allocation that got its granules and its address range.               *)
LEMMA RecordKeeps ==
  ASSUME PInv, NEW c \in Ctx, NEW m \in Region, pc[c] = "ready", NEW n \in Nat, n > 0,
         NEW zero \in BOOLEAN, NEW v \in VRange, NEW P, NEW F,
         Grown(c, m, P, F), own'[c][m] \ DOMAIN P = stuck[c][m], n <= Len(FreeOrder(m, P, F)),
         Record(c, m, P, F, n, zero, v)
  PROVE  PInv'
<1> DEFINE g == SubSeq(FreeOrder(m, pool[c][m], nfree[c][m])
                         \o Sweep(m, P, DOMAIN P \ DOMAIN pool[c][m]), 1, n)
           C == FreeIn(m, P, DOMAIN P)
           G == ToSet(g)
           P1 == Taken(m, P, G)
           F1 == TakenFree(m, P, F, G)
           A == allocs[c]
           B == [x \in DOMAIN A \cup {v} |-> IF x = v THEN [mem |-> m, grans |-> g] ELSE A[x]]
<1>1. /\ v \notin mapped[c] /\ SetPool(c, m, P1, F1)
      /\ mapped' = [mapped EXCEPT ![c] = mapped[c] \cup {v}]
      /\ allocs' = [allocs EXCEPT ![c] = B]
      /\ UNCHANGED stuck
      /\ \/ /\ pc' = [pc EXCEPT ![c] = "zeroing"] /\ cur' = [cur EXCEPT ![c] = [v |-> v, done |-> 0]]
         \/ UNCHANGED <<pc, cur>>
  BY DEF Record
<1>2. /\ \E E : expect' = [expect EXCEPT ![c] = E]
  BY DEF Record
<1>3. g \in Seq(C) /\ IsInjective(g) /\ Len(g) = n
  <2>1. Extends(m, pool[c][m], nfree[c][m], P, F)
    BY DEF Grown
  <2>2. g = SubSeq(FreeOrder(m, pool[c][m], nfree[c][m])
                     \o Sweep(m, P, DOMAIN P \ DOMAIN pool[c][m]), 1, n)
    OBVIOUS
  <2> DEFINE p0 == pool[c][m]
             f0 == nfree[c][m]
  <2>3. Picks(m, p0, f0, P, F, n, g)
    BY <2>1, <2>2 DEF Picks
  <2> HIDE DEF g, p0, f0
  <2> HIDE DEF C
  <2>4. g \in Seq(FreeIn(m, P, DOMAIN P)) /\ IsInjective(g) /\ Len(g) = n
    BY <2>3, Chosen
  <2> QED BY <2>4 DEF C
<1> HIDE DEF g
<1>4. PoolOK(m, P, F) /\ Marked(P) = Used(A, m)
  BY ReadyRegion DEF Grown, Extends, Busy
<1>5. G \subseteq C /\ g \in Seq(Nat) /\ G \cap Used(A, m) = {}
  <2>1. C \in SUBSET Nat /\ C \cap Marked(P) = {}
    BY <1>4, FreeFinite, FreeUnmarked
  <2>2. G \subseteq C
    BY <1>3, Listed
  <2>3. g \in Seq(Nat)
    BY <1>3, <2>1
  <2> QED BY <1>4, <2>1, <2>2, <2>3
<1>6. PoolOK(m, P1, F1) /\ DOMAIN P1 = DOMAIN P /\ Marked(P1) = Used(A, m) \cup G
  BY <1>4, <1>5, Taking
<1>7. DOMAIN B = DOMAIN A \cup {v} /\ Table(B) /\ B[v] = [mem |-> m, grans |-> g]
      /\ \A x \in DOMAIN A : B[x] = A[x]
  <2>1. v \notin DOMAIN A
    BY <1>1 DEF PInv, RowOK, RecordsOK
  <2> QED BY <2>1 DEF Table
<1> HIDE DEF G, P1, F1, A, B
<1>8. /\ RecordsOK(B, mapped[c] \cup {v}) /\ Used(B, m) = Used(A, m) \cup G
      /\ \A k \in Region : k # m => Used(B, k) = Used(A, k)
  <2>1. RecordsOK(A, mapped[c])
    BY DEF PInv, RowOK, A
  <2>2. Len(g) > 0 /\ ToSet(g) \cap Used(A, m) = {}
    BY <1>3, <1>5 DEF G
  <2>3. v \notin mapped[c] /\ g \in Seq(Nat) /\ IsInjective(g)
    BY <1>1, <1>3, <1>5
  <2>4. /\ RecordsOK(B, mapped[c] \cup {v}) /\ Used(B, m) = Used(A, m) \cup ToSet(g)
        /\ \A k \in Region : k # m => Used(B, k) = Used(A, k)
    <3>1. Fits(A, m, g) /\ Added(A, B, v, m, g) /\ v \notin mapped[c]
      BY <1>7, <2>2, <2>3 DEF Fits, Added
    <3>2. RecordsOK(B, mapped[c] \cup {v})
      BY <2>1, <3>1, AddRecord
    <3>3. v \notin DOMAIN A
      BY <2>1, <2>3 DEF RecordsOK
    <3>4. Used(B, m) = Used(A, m) \cup ToSet(g) /\ \A k \in Region : k # m => Used(B, k) = Used(A, k)
      BY <3>1, <3>3, AddUsed
    <3> QED BY <3>2, <3>4
  <2> QED BY <2>4 DEF G
<1>9. /\ Line(allocs)' /\ allocs'[c] = B /\ \A d \in Ctx : d # c => allocs'[d] = allocs[d]
  <2>1. Line(allocs)
    BY DEF PInv, Shape
  <2> QED BY <1>1, <2>1 DEF Line
<1>10. /\ Line(mapped)' /\ mapped'[c] = mapped[c] \cup {v}
       /\ \A d \in Ctx : d # c => mapped'[d] = mapped[d]
  <2>1. Line(mapped)
    BY DEF PInv, Shape
  <2> QED BY <1>1, <2>1 DEF Line
<1>11. Line(expect)' /\ \A d \in Ctx : d # c => expect'[d] = expect[d]
  <2>1. Line(expect)
    BY DEF PInv, Shape
  <2> QED BY <1>2, <2>1 DEF Line
<1>12. /\ Line(pc)' /\ Line(cur)' /\ \A d \in Ctx : d # c => pc'[d] = pc[d] /\ cur'[d] = cur[d]
       /\ \/ pc'[c] = "zeroing" /\ cur'[c] = [v |-> v, done |-> 0]
          \/ pc'[c] = "ready" /\ cur'[c] = cur[c]
  <2>1. Line(pc) /\ Line(cur)
    BY DEF PInv, Shape
  <2> QED BY <1>1, <2>1 DEF Line
<1>13. /\ Square(pool)' /\ Square(nfree)' /\ pool'[c][m] = P1 /\ nfree'[c][m] = F1
       /\ \A k \in Region : k # m => pool'[c][k] = pool[c][k] /\ nfree'[c][k] = nfree[c][k]
       /\ \A d \in Ctx : d # c => pool'[d] = pool[d] /\ nfree'[d] = nfree[d]
  BY <1>1, PoolSet DEF PInv
<1>14. /\ Square(own)' /\ own'[c][m] \subseteq Pages(m) /\ DOMAIN P \subseteq own'[c][m]
       /\ own'[c][m] \subseteq own[c][m] \cup DriverFree(m)
       /\ \A k \in Region : k # m => own'[c][k] = own[c][k]
       /\ \A d \in Ctx : d # c => own'[d] = own[d]
  BY DEF Grown
<1>15. Square(stuck)' /\ stuck' = stuck
  BY <1>1 DEF PInv, Shape
<1>16. Shape'
  BY <1>9, <1>10, <1>11, <1>12, <1>13, <1>14, <1>15 DEF Shape
<1>17. RegionsOK(c)'
  <2>1. RegionOK(m, own'[c][m], stuck'[c][m], pool'[c][m], nfree'[c][m], Used(allocs'[c], m), "ready")
    BY <1>6, <1>8, <1>9, <1>13, <1>14, <1>15 DEF RegionOK
  <2>2. \A k \in Region : k # m =>
           /\ own'[c][k] = own[c][k] /\ stuck'[c][k] = stuck[c][k] /\ pool'[c][k] = pool[c][k]
           /\ nfree'[c][k] = nfree[c][k] /\ Used(allocs'[c], k) = Used(allocs[c], k)
    BY <1>8, <1>9, <1>13, <1>14, <1>15 DEF A
  <2>3. pc[c] \in Busy /\ pc'[c] \in Busy
    BY <1>12 DEF Busy
  <2> QED BY <2>1, <2>2, <2>3, OneRegion
<1>18. ThreadOK(allocs[c], pc[c], cur[c])'
  <2>1. cur[c] \in [v : VRange \cup {0}, done : Nat]
    BY DEF PInv, RowOK, ThreadOK
  <2>2. v \in DOMAIN B /\ B[v].grans = g /\ Len(g) > 0
    BY <1>3, <1>7
  <2>3. CASE pc'[c] = "zeroing" /\ cur'[c] = [v |-> v, done |-> 0]
    BY <1>9, <2>2, <2>3 DEF ThreadOK
  <2>4. CASE pc'[c] = "ready" /\ cur'[c] = cur[c]
    BY <2>1, <2>4 DEF ThreadOK
  <2> QED BY <1>12, <2>3, <2>4
<1>19. RowOK(c)'
  BY <1>8, <1>9, <1>10, <1>17, <1>18 DEF RowOK
<1>20. Asks(c) /\ \A d \in Ctx : d # c => Aside(d)
  <2>1. Asks(c)
    BY <1>14 DEF Asks
  <2> QED BY <2>1, <1>9, <1>10, <1>11, <1>12, <1>13, <1>14, <1>15 DEF Aside
<1> QED BY <1>16, <1>19, <1>20, OneRow

(* A pool that grew, whatever became of the allocation.                     *)
LEMMA PoolKeeps ==
  ASSUME PInv, NEW c \in Ctx, NEW m \in Region, pc[c] \in Busy, NEW P, NEW F,
         Grown(c, m, P, F), own'[c][m] \ DOMAIN P = stuck'[c][m], SetPool(c, m, P, F),
         Square(stuck)', \A n \in Region : n # m => stuck'[c][n] = stuck[c][n],
         \A d \in Ctx : d # c => stuck'[d] = stuck[d],
         UNCHANGED <<allocs, mapped, pc, cur, expect>>
  PROVE  PInv'
<1>1. /\ Square(pool)' /\ Square(nfree)' /\ pool'[c][m] = P /\ nfree'[c][m] = F
      /\ \A k \in Region : k # m => pool'[c][k] = pool[c][k] /\ nfree'[c][k] = nfree[c][k]
      /\ \A d \in Ctx : d # c => pool'[d] = pool[d] /\ nfree'[d] = nfree[d]
  BY PoolSet DEF PInv
<1>2. /\ Square(own)' /\ own'[c][m] \subseteq Pages(m) /\ DOMAIN P \subseteq own'[c][m]
      /\ own'[c][m] \subseteq own[c][m] \cup DriverFree(m)
      /\ \A k \in Region : k # m => own'[c][k] = own[c][k]
      /\ \A d \in Ctx : d # c => own'[d] = own[d]
  BY DEF Grown
<1>3. PoolOK(m, P, F) /\ Marked(P) = Used(allocs[c], m)
  BY ReadyRegion DEF Grown, Extends
<1>4. RegionsOK(c)'
  <2>1. RegionOK(m, own'[c][m], stuck'[c][m], pool'[c][m], nfree'[c][m], Used(allocs'[c], m), "ready")
    BY <1>1, <1>2, <1>3 DEF RegionOK
  <2>2. \A k \in Region : k # m =>
           /\ own'[c][k] = own[c][k] /\ stuck'[c][k] = stuck[c][k] /\ pool'[c][k] = pool[c][k]
           /\ nfree'[c][k] = nfree[c][k] /\ Used(allocs'[c], k) = Used(allocs[c], k)
    BY <1>1, <1>2
  <2>3. pc'[c] \in Busy
    OBVIOUS
  <2> QED BY <2>1, <2>2, <2>3, OneRegion
<1>5. RowOK(c)'
  <2>1. RecordsOK(allocs[c], mapped[c]) /\ ThreadOK(allocs[c], pc[c], cur[c])
    BY DEF PInv, RowOK
  <2> QED BY <1>4, <2>1 DEF RowOK
<1>6. Shape'
  <2>1. Line(allocs) /\ Line(mapped) /\ Line(pc) /\ Line(cur) /\ Line(expect)
    BY DEF PInv, Shape
  <2> QED BY <1>1, <1>2, <2>1 DEF Shape
<1>7. Asks(c) /\ \A d \in Ctx : d # c => Aside(d)
  <2>1. Asks(c)
    BY <1>2 DEF Asks
  <2> QED BY <2>1, <1>1, <1>2 DEF Aside
<1> QED BY <1>5, <1>6, <1>7, OneRow

(* A step that moves no hugepage and no record: only the thread goes on.    *)
LEMMA ThreadKeeps ==
  ASSUME PInv, NEW c \in Ctx, pc[c] \in Busy, pc'[c] \in Busy,
         UNCHANGED <<own, stuck, pool, nfree, allocs>>,
         Line(mapped)', Line(pc)', Line(cur)', Line(expect)',
         \A d \in Ctx : d # c => /\ mapped'[d] = mapped[d] /\ pc'[d] = pc[d] /\ cur'[d] = cur[d]
                                 /\ expect'[d] = expect[d],
         DOMAIN allocs[c] \subseteq mapped'[c], ThreadOK(allocs[c], pc'[c], cur'[c])
  PROVE  PInv'
<1>1. RegionsOK(c)'
  BY NoRegion
<1>2. RecordsOK(allocs[c], mapped'[c])
  <2>1. RecordsOK(allocs[c], mapped[c])
    BY DEF PInv, RowOK
  <2> QED BY <2>1 DEF RecordsOK
<1>3. RowOK(c)'
  BY <1>1, <1>2 DEF RowOK
<1>4. Shape'
  <2>1. Square(own) /\ Square(stuck) /\ Square(pool) /\ Square(nfree) /\ Line(allocs)
    BY DEF PInv, Shape
  <2> QED BY <2>1 DEF Shape
<1>5. Asks(c) /\ \A d \in Ctx : d # c => Aside(d)
  BY DEF Asks, Aside
<1> QED BY <1>3, <1>4, <1>5, OneRow

(* A run moved: the transfer ends or has its next run before it.            *)
LEMMA TransferKeeps ==
  ASSUME PInv, NEW c \in Ctx, pc[c] \in {"zeroing", "writing"}, NEW src, Transfer(c, src),
         NEW E, expect' = [expect EXCEPT ![c] = E],
         UNCHANGED <<own, stuck, pool, nfree, allocs, mapped>>
  PROVE  PInv'
<1> DEFINE v == cur[c].v
           g == allocs[c][v].grans
           i == cur[c].done
           k == RunLength(g, i)
<1>1. /\ v \in DOMAIN allocs[c] /\ i < Len(g) /\ i \in Nat /\ g \in Seq(Nat)
      /\ cur[c] \in [v : VRange \cup {0}, done : Nat]
  BY DEF PInv, RowOK, ThreadOK, RecordsOK
<1>2. k \in 1 .. Len(g) - i
  <2> HIDE DEF g, i
  <2> QED BY <1>1, RunOf
<1>3. \/ pc' = [pc EXCEPT ![c] = "ready"] /\ cur' = [cur EXCEPT ![c] = Idle]
      \/ /\ i + k # Len(g) /\ UNCHANGED pc
         /\ cur' = [cur EXCEPT ![c] = [cur[c] EXCEPT !.done = i + k]]
  BY DEF Transfer
<1>4. i + k # Len(g) => i + k \in Nat /\ i + k < Len(g)
  <2> HIDE DEF g, i, k
  <2> QED BY <1>1, <1>2
<1> HIDE DEF k, g
<1>5. Line(pc) /\ Line(cur) /\ Line(expect) /\ Line(mapped)
  BY DEF PInv, Shape
<1>6. Line(pc)' /\ Line(cur)' /\ Line(expect)'
      /\ \A d \in Ctx : d # c => pc'[d] = pc[d] /\ cur'[d] = cur[d] /\ expect'[d] = expect[d]
  BY <1>3, <1>5 DEF Line
<1>7. \/ pc'[c] = "ready" /\ cur'[c] = Idle
      \/ /\ i + k # Len(g) /\ pc'[c] = pc[c]
         /\ cur'[c] = [cur[c] EXCEPT !.done = i + k]
  BY <1>3, <1>5 DEF Line
<1>8. ThreadOK(allocs[c], pc'[c], cur'[c])
  <2>1. CASE pc'[c] = "ready" /\ cur'[c] = Idle
    BY <2>1 DEF ThreadOK, Idle
  <2>2. CASE i + k # Len(g) /\ pc'[c] = pc[c] /\ cur'[c] = [cur[c] EXCEPT !.done = i + k]
    <3>1. cur'[c] \in [v : VRange \cup {0}, done : Nat] /\ cur'[c].v = v /\ cur'[c].done = i + k
      BY <1>1, <1>4, <2>2
    <3> QED BY <1>1, <1>4, <2>2, <3>1 DEF ThreadOK, g
  <2> QED BY <1>7, <2>1, <2>2
<1>9. pc[c] \in Busy /\ pc'[c] \in Busy
  BY <1>7 DEF Busy
<1>10. DOMAIN allocs[c] \subseteq mapped'[c] /\ \A d \in Ctx : d # c => mapped'[d] = mapped[d]
  BY DEF PInv, RowOK, RecordsOK
<1> QED BY <1>5, <1>6, <1>8, <1>9, <1>10, ThreadKeeps

(* An allocation is undone or freed.                                        *)
LEMMA DiscardKeeps ==
  ASSUME PInv, NEW c \in Ctx, pc[c] \in Busy, NEW v \in DOMAIN allocs[c], Discard(c, v)
  PROVE  PInv'
<1> DEFINE m == allocs[c][v].mem
           G == ToSet(allocs[c][v].grans)
           P0 == pool[c][m]
           F0 == nfree[c][m]
           P == Given(m, P0, G)
           F == GivenFree(m, P0, F0, G)
           D == ToTrim(m, F, KeepFree)
           A == allocs[c]
           B == Without(A, {v})
           o == own[c][m]
<1>1. /\ allocs' = [allocs EXCEPT ![c] = B]
      /\ \E E : expect' = [expect EXCEPT ![c] = E]
      /\ Trim(c, m, P, F, KeepFree)
      /\ pc' = [pc EXCEPT ![c] = "unmap"]
      /\ cur' = [cur EXCEPT ![c] = [v |-> v, done |-> 0]]
      /\ UNCHANGED <<stuck, mapped>>
  BY DEF Discard, Unrecord
<1>2. Shape /\ RecordsOK(A, mapped[c]) /\ ThreadOK(A, pc[c], cur[c])
  BY DEF PInv, RowOK
<1>3. /\ RecordsOK(B, mapped[c]) /\ DOMAIN B = DOMAIN A \ {v} /\ m \in Region /\ G \subseteq Used(A, m)
      /\ Used(B, m) = Used(A, m) \ G /\ \A n \in Region : n # m => Used(B, n) = Used(A, n)
  <2>1. Dropped(A, mapped[c], v)
    BY <1>2, DropRecord
  <2> QED BY <2>1 DEF Dropped
<1>4. v \in VRange
  BY <1>2 DEF RecordsOK
<1> HIDE DEF m
<1>5. /\ o \subseteq Pages(m) /\ PoolOK(m, P0, F0) /\ DOMAIN P0 \subseteq o
      /\ Marked(P0) = Used(A, m) /\ o \ DOMAIN P0 = stuck[c][m]
  BY <1>3, ReadyRegion
<1> HIDE DEF G, P0, F0
<1>6. PoolOK(m, P, F) /\ DOMAIN P = DOMAIN P0 /\ Marked(P) = Used(B, m)
  <2>1. G \subseteq Marked(P0)
    BY <1>3, <1>5
  <2>2. PoolOK(m, P, F) /\ DOMAIN P = DOMAIN P0 /\ Marked(P) = Marked(P0) \ G
    BY <1>3, <1>5, <2>1, Giving
  <2> QED BY <1>3, <1>5, <2>2
<1> HIDE DEF P, F
<1>7. /\ D \subseteq DOMAIN P /\ PoolOK(m, Kept(P, D), Kept(F, D))
      /\ DOMAIN Kept(P, D) = DOMAIN P \ D /\ Marked(Kept(P, D)) = Marked(P)
  BY <1>3, <1>6, Trimming
<1>0. \/ own' = [own EXCEPT ![c][m] = o \ D] /\ SetPool(c, m, Kept(P, D), Kept(F, D))
      \/ SetPool(c, m, P, F) /\ UNCHANGED own
  <2>1. D \subseteq o
    BY <1>5, <1>6, <1>7
  <2> QED BY <1>1, <1>3, <1>5, <2>1, TrimGives
<1> HIDE DEF D, A, B, o
<1>8. PICK P1, F1, o1 :
        /\ SetPool(c, m, P1, F1) /\ PoolOK(m, P1, F1) /\ Marked(P1) = Used(B, m)
        /\ own' = [own EXCEPT ![c][m] = o1] /\ o1 \subseteq o /\ DOMAIN P1 \subseteq o1
        /\ o1 \ DOMAIN P1 = stuck[c][m]
  <2>1. CASE own' = [own EXCEPT ![c][m] = o \ D] /\ SetPool(c, m, Kept(P, D), Kept(F, D))
    <3>1. /\ o \ D \subseteq o /\ DOMAIN Kept(P, D) \subseteq o \ D
          /\ (o \ D) \ DOMAIN Kept(P, D) = stuck[c][m]
      BY <1>5, <1>6, <1>7
    <3>2. Marked(Kept(P, D)) = Used(B, m)
      BY <1>6, <1>7
    <3> QED BY <1>7, <2>1, <3>1, <3>2
  <2>2. CASE SetPool(c, m, P, F) /\ UNCHANGED own
    <3>1. own' = [own EXCEPT ![c][m] = o]
      BY <1>2, <1>3, <2>2 DEF Shape, Square, o
    <3> QED BY <1>5, <1>6, <2>2, <3>1
  <2> QED BY <1>0, <2>1, <2>2
<1>9. /\ Square(own)' /\ own'[c][m] = o1 /\ \A n \in Region : n # m => own'[c][n] = own[c][n]
      /\ \A d \in Ctx : d # c => own'[d] = own[d]
  BY <1>2, <1>3, <1>8 DEF Shape, Square
<1>10. /\ Square(pool)' /\ Square(nfree)' /\ pool'[c][m] = P1 /\ nfree'[c][m] = F1
       /\ \A k \in Region : k # m => pool'[c][k] = pool[c][k] /\ nfree'[c][k] = nfree[c][k]
       /\ \A d \in Ctx : d # c => pool'[d] = pool[d] /\ nfree'[d] = nfree[d]
  BY <1>2, <1>3, <1>8, PoolSet
<1>11. /\ Line(allocs)' /\ Line(pc)' /\ Line(cur)' /\ Line(expect)'
       /\ allocs'[c] = B /\ pc'[c] = "unmap" /\ cur'[c] = [v |-> v, done |-> 0]
       /\ \A d \in Ctx : d # c => /\ allocs'[d] = allocs[d] /\ pc'[d] = pc[d] /\ cur'[d] = cur[d]
                                  /\ expect'[d] = expect[d]
  BY <1>1, <1>2 DEF Shape, Line
<1>12. Shape'
  <2>1. Square(stuck)' /\ Line(mapped)'
    BY <1>1, <1>2 DEF Shape
  <2> QED BY <1>9, <1>10, <1>11, <2>1 DEF Shape
<1>13. RegionsOK(c)'
  <2>1. stuck'[c] = stuck[c] /\ o \subseteq Pages(m)
    BY <1>1, <1>5
  <2>2. RegionOK(m, own'[c][m], stuck'[c][m], pool'[c][m], nfree'[c][m], Used(allocs'[c], m), "ready")
    BY <1>8, <1>9, <1>10, <1>11, <2>1 DEF RegionOK
  <2>3. \A k \in Region : k # m =>
           /\ own'[c][k] = own[c][k] /\ stuck'[c][k] = stuck[c][k] /\ pool'[c][k] = pool[c][k]
           /\ nfree'[c][k] = nfree[c][k] /\ Used(allocs'[c], k) = Used(allocs[c], k)
    BY <1>3, <1>9, <1>10, <1>11, <2>1 DEF A
  <2>4. pc'[c] \in Busy
    BY <1>11 DEF Busy
  <2> QED BY <1>3, <2>2, <2>3, <2>4, OneRegion
<1>14. RowOK(c)'
  <2>1. RecordsOK(allocs'[c], mapped'[c])
    BY <1>1, <1>3, <1>11
  <2>2. ThreadOK(allocs'[c], pc'[c], cur'[c])
    BY <1>3, <1>4, <1>11 DEF ThreadOK
  <2> QED BY <1>13, <2>1, <2>2 DEF RowOK
<1>15. Asks(c) /\ \A d \in Ctx : d # c => Aside(d)
  <2>1. Asks(c)
    BY <1>8, <1>9 DEF Asks, o
  <2> QED BY <2>1, <1>1, <1>9, <1>10, <1>11 DEF Aside
<1> QED BY <1>2, <1>12, <1>14, <1>15, OneRow

(* What can be asked of the driver is free there.                           *)
LEMMA GrantsAreFree ==
  ASSUME NEW c, NEW m, NEW n, NEW S \in Grants(c, m, n)
  PROVE  S \subseteq DriverFree(m)
BY DEF Grants, kSubset

LEMMA AllocFromPoolKeeps ==
  ASSUME PInv, NEW c \in Ctx, NEW m \in Region, NEW n \in Nat \ {0}, NEW zero \in BOOLEAN,
         AllocFromPool(c, m, n, zero)
  PROVE  PInv'
<1>1. pc[c] = "ready" /\ pc[c] \in Busy /\ n <= Have(c, m) /\ UNCHANGED own
  BY DEF AllocFromPool, Busy
<1>2. Grown(c, m, pool[c][m], nfree[c][m]) /\ own'[c][m] \ DOMAIN pool[c][m] = stuck[c][m]
  BY <1>1, PoolStays
<1>3. n <= Len(FreeOrder(m, pool[c][m], nfree[c][m])) /\ n \in Nat /\ n > 0
  BY <1>1 DEF Have
<1>4. ASSUME NEW v \in VRange, Record(c, m, pool[c][m], nfree[c][m], n, zero, v)
      PROVE  PInv'
  BY <1>1, <1>2, <1>3, <1>4, RecordKeeps
<1>5. ASSUME NoRange(c, m, pool[c][m], nfree[c][m])
      PROVE  PInv'
  <2>1. SetPool(c, m, pool[c][m], nfree[c][m]) /\ UNCHANGED <<stuck, allocs, mapped, pc, cur, expect>>
    BY <1>5 DEF NoRange
  <2>2. Square(stuck)'
    BY <2>1 DEF PInv, Shape
  <2> QED BY <1>1, <1>2, <2>1, <2>2, PoolKeeps
<1> QED BY <1>4, <1>5 DEF AllocFromPool

LEMMA AllocGrowKeeps ==
  ASSUME PInv, NEW c \in Ctx, NEW m \in Region, NEW n \in Nat \ {0}, NEW zero \in BOOLEAN,
         AllocGrow(c, m, n, zero)
  PROVE  PInv'
<1>1. pc[c] = "ready" /\ pc[c] \in Busy /\ n \in Nat /\ n > 0
  BY DEF AllocGrow, Busy
<1>2. PICK S \in Grants(c, m, n) :
        LET P == InsertAll(pool[c][m], S)
            F == InsertFree(m, nfree[c][m], S)
        IN  /\ own' = [own EXCEPT ![c][m] = own[c][m] \cup S]
            /\ \/ Enough(c, m, n, S) /\ \E v \in VRange : Record(c, m, P, F, n, zero, v)
               \/ Enough(c, m, n, S) /\ NoRange(c, m, P, F)
               \/ /\ ~Enough(c, m, n, S)
                  /\ SetPool(c, m, P, F)
                  /\ UNCHANGED <<stuck, allocs, mapped, pc, cur, card, expect>>
  BY DEF AllocGrow
<1> DEFINE P == InsertAll(pool[c][m], S)
           F == InsertFree(m, nfree[c][m], S)
<1>3. Grown(c, m, P, F) /\ own'[c][m] \ DOMAIN P = stuck[c][m]
  <2>1. S \subseteq DriverFree(m) /\ own' = [own EXCEPT ![c][m] = own[c][m] \cup S]
    BY <1>2, GrantsAreFree
  <2>2. own[c][m] \cup S = own[c][m] \cup S \cup {}
    OBVIOUS
  <2>3. Granted(c, m, S, {})
    BY <2>1, <2>2 DEF Granted
  <2>4. Grown(c, m, P, F) /\ own'[c][m] \ DOMAIN P = stuck[c][m] \cup {}
    BY <1>1, <2>3, PoolGrows
  <2> QED BY <2>4
<1>4. Square(stuck)
  BY DEF PInv, Shape
<1>5. CASE Enough(c, m, n, S) /\ \E v \in VRange : Record(c, m, P, F, n, zero, v)
  <2>1. PICK v \in VRange : Record(c, m, P, F, n, zero, v)
    BY <1>5
  <2>2. n <= Len(FreeOrder(m, P, F))
    BY <1>5 DEF Enough
  <2> HIDE DEF P, F
  <2> QED BY <1>1, <1>3, <2>1, <2>2, RecordKeeps
<1>6. CASE SetPool(c, m, P, F) /\ UNCHANGED <<stuck, allocs, mapped, pc, cur, card, expect>>
  <2>1. Square(stuck)'
    BY <1>4, <1>6
  <2> HIDE DEF P, F
  <2> QED BY <1>1, <1>3, <1>6, <2>1, PoolKeeps
<1> QED BY <1>2, <1>5, <1>6 DEF NoRange

LEMMA AllocUnrecordedKeeps ==
  ASSUME PInv, NEW c \in Ctx, NEW m \in Region, NEW n, AllocUnrecorded(c, m, n)
  PROVE  PInv'
<1>1. pc[c] \in Busy
  BY DEF AllocUnrecorded, Busy
<1>2. PICK S \in Grants(c, m, n) : \E i \in DOMAIN Reply(S) : \E j \in 0 .. Reply(S)[i].nr - 1 :
        LET X == Recorded(Reply(S), i, j)
        IN  /\ HandBack(c, m, S, HandedBack(Reply(S), i, j))
            /\ SetPool(c, m, InsertAll(pool[c][m], X), InsertFree(m, nfree[c][m], X))
            /\ UNCHANGED <<allocs, mapped, pc, cur, expect>>
  BY DEF AllocUnrecorded
<1>3. PICK E, i, j : /\ E = Reply(S) /\ i \in DOMAIN E /\ j \in 0 .. E[i].nr - 1
                     /\ LET X == Recorded(E, i, j)
                        IN  /\ HandBack(c, m, S, HandedBack(E, i, j))
                            /\ SetPool(c, m, InsertAll(pool[c][m], X), InsertFree(m, nfree[c][m], X))
                            /\ UNCHANGED <<allocs, mapped, pc, cur, expect>>
  BY <1>2
<1> DEFINE X == Recorded(E, i, j)
           P == InsertAll(pool[c][m], X)
           F == InsertFree(m, nfree[c][m], X)
<1>4. SetPool(c, m, P, F) /\ UNCHANGED <<allocs, mapped, pc, cur, expect>>
  BY <1>3
<1>5. PICK K : Granted(c, m, X, K) /\ stuck' = [stuck EXCEPT ![c][m] = stuck[c][m] \cup K]
  <2>1. S \subseteq DriverFree(m)
    BY GrantsAreFree
  <2> QED BY <1>3, <2>1, HandsBack
<1> HIDE DEF X
<1>7. Grown(c, m, P, F) /\ own'[c][m] \ DOMAIN P = stuck[c][m] \cup K
  BY <1>1, <1>5, PoolGrows
<1>8. /\ Square(stuck)' /\ stuck'[c][m] = stuck[c][m] \cup K
      /\ \A k \in Region : k # m => stuck'[c][k] = stuck[c][k]
      /\ \A d \in Ctx : d # c => stuck'[d] = stuck[d]
  <2>1. Square(stuck)
    BY DEF PInv, Shape
  <2> QED BY <1>5, <2>1 DEF Square
<1> HIDE DEF P, F
<1> QED BY <1>1, <1>4, <1>7, <1>8, PoolKeeps

(* Working contexts that touch neither hugepages nor records.               *)
LEMMA WorkKeeps ==
  ASSUME PInv, NEW c \in Ctx,
         Zero(c) \/ Write(c) \/ WriteFailed(c) \/ Unmap(c) \/ \E v \in VRange : StartWrite(c, v)
  PROVE  PInv'
<1>1. Line(pc) /\ Line(cur) /\ Line(expect) /\ Line(mapped) /\ RecordsOK(allocs[c], mapped[c])
      /\ ThreadOK(allocs[c], pc[c], cur[c])
  BY DEF PInv, Shape, RowOK
<1>2. CASE Zero(c)
  <2>1. pc[c] \in {"zeroing", "writing"} /\ UNCHANGED <<own, stuck, pool, nfree, allocs, mapped>>
        /\ \E src : Transfer(c, src)
    BY <1>2 DEF Zero
  <2>2. \E E : expect' = [expect EXCEPT ![c] = E]
    BY <1>2 DEF Zero
  <2> QED BY <2>1, <2>2, TransferKeeps
<1>3. CASE Write(c)
  <2>1. pc[c] \in {"zeroing", "writing"} /\ UNCHANGED <<own, stuck, pool, nfree, allocs, mapped>>
        /\ \E src : Transfer(c, src)
    BY <1>3 DEF Write
  <2>2. \E E : expect' = [expect EXCEPT ![c] = E]
    BY <1>3 DEF Write
  <2> QED BY <2>1, <2>2, TransferKeeps
<1>4. CASE WriteFailed(c)
  <2>1. pc[c] \in Busy /\ UNCHANGED <<own, stuck, pool, nfree, allocs, mapped, expect>>
        /\ pc' = [pc EXCEPT ![c] = "ready"] /\ cur' = [cur EXCEPT ![c] = Idle]
    BY <1>4 DEF WriteFailed, Busy
  <2>2. Line(pc)' /\ Line(cur)' /\ pc'[c] = "ready" /\ cur'[c] = Idle
        /\ \A d \in Ctx : d # c => pc'[d] = pc[d] /\ cur'[d] = cur[d]
    BY <1>1, <2>1 DEF Line
  <2>3. ThreadOK(allocs[c], pc'[c], cur'[c]) /\ pc'[c] \in Busy
    BY <2>2 DEF ThreadOK, Idle, Busy
  <2>4. DOMAIN allocs[c] \subseteq mapped'[c] /\ Line(mapped)' /\ Line(expect)'
    BY <1>1, <2>1 DEF RecordsOK
  <2> QED BY <2>1, <2>2, <2>3, <2>4, ThreadKeeps
<1>5. CASE Unmap(c)
  <2>1. pc[c] = "unmap" /\ pc[c] \in Busy /\ UNCHANGED <<own, stuck, pool, nfree, allocs, expect>>
        /\ pc' = [pc EXCEPT ![c] = "ready"] /\ cur' = [cur EXCEPT ![c] = Idle]
        /\ mapped' = [mapped EXCEPT ![c] = mapped[c] \ {cur[c].v}]
    BY <1>5 DEF Unmap, Busy
  <2>2. Line(pc)' /\ Line(cur)' /\ Line(mapped)' /\ pc'[c] = "ready" /\ cur'[c] = Idle
        /\ mapped'[c] = mapped[c] \ {cur[c].v}
        /\ \A d \in Ctx : d # c => pc'[d] = pc[d] /\ cur'[d] = cur[d] /\ mapped'[d] = mapped[d]
    BY <1>1, <2>1 DEF Line
  <2>3. ThreadOK(allocs[c], pc'[c], cur'[c]) /\ pc'[c] \in Busy
    BY <2>2 DEF ThreadOK, Idle, Busy
  <2>4. DOMAIN allocs[c] \subseteq mapped'[c] /\ Line(expect)'
    BY <1>1, <2>1, <2>2 DEF RecordsOK, ThreadOK
  <2> QED BY <2>1, <2>2, <2>3, <2>4, ThreadKeeps
<1>6. ASSUME NEW v \in VRange, StartWrite(c, v)
      PROVE  PInv'
  <2>1. pc[c] \in Busy /\ UNCHANGED <<own, stuck, pool, nfree, allocs, mapped>> /\ v \in DOMAIN allocs[c]
        /\ pc' = [pc EXCEPT ![c] = "writing"] /\ cur' = [cur EXCEPT ![c] = [v |-> v, done |-> 0]]
        /\ expect' = [expect EXCEPT ![c] = [expect[c] EXCEPT ![v] = "anything"]]
    BY <1>6 DEF StartWrite, Busy
  <2>2. Line(pc)' /\ Line(cur)' /\ Line(expect)' /\ pc'[c] = "writing" /\ cur'[c] = [v |-> v, done |-> 0]
        /\ \A d \in Ctx : d # c => pc'[d] = pc[d] /\ cur'[d] = cur[d] /\ expect'[d] = expect[d]
    BY <1>1, <2>1 DEF Line
  <2>3. ThreadOK(allocs[c], pc'[c], cur'[c]) /\ pc'[c] \in Busy
    <3>1. Len(allocs[c][v].grans) > 0
      BY <1>1, <2>1 DEF RecordsOK
    <3> QED BY <2>1, <2>2, <3>1 DEF ThreadOK, Busy
  <2>4. DOMAIN allocs[c] \subseteq mapped'[c] /\ Line(mapped)'
    BY <1>1, <2>1 DEF RecordsOK
  <2> QED BY <2>1, <2>2, <2>3, <2>4, ThreadKeeps
<1> QED BY <1>2, <1>3, <1>4, <1>5, <1>6

(* Opening, and the last step of closing.                                   *)
LEMMA EndsKeep ==
  ASSUME PInv, NEW c \in Ctx, Open(c) \/ Closed(c)
  PROVE  PInv'
<1>1. PICK label \in {"ready", "closed"} :
        /\ pc' = [pc EXCEPT ![c] = label]
        /\ UNCHANGED <<own, stuck, pool, nfree, allocs, mapped, cur, expect>>
        /\ \/ label = "ready" /\ pc[c] = "closed"
           \/ label = "closed" /\ pc[c] = "exiting" /\ \A m \in Region : own[c][m] = {}
  BY DEF Open, Closed
<1>2. /\ Shape /\ ThreadOK(allocs[c], pc[c], cur[c]) /\ RecordsOK(allocs[c], mapped[c])
  BY DEF PInv, RowOK
<1>3. Line(pc)' /\ pc'[c] = label /\ \A d \in Ctx : d # c => pc'[d] = pc[d]
  BY <1>1, <1>2 DEF Shape, Line
<1>4. Shape'
  BY <1>1, <1>2, <1>3 DEF Shape
<1>5. ASSUME NEW m \in Region
      PROVE  RegionOK(m, own[c][m], stuck[c][m], pool[c][m], nfree[c][m], Used(allocs[c], m), label)
  <2>1. RegionOK(m, own[c][m], stuck[c][m], pool[c][m], nfree[c][m], Used(allocs[c], m), pc[c])
    BY DEF PInv, RowOK, RegionsOK
  <2>2. CASE label = "ready" /\ pc[c] = "closed"
    BY <2>1, <2>2 DEF RegionOK
  <2>3. CASE label = "closed" /\ pc[c] = "exiting" /\ \A k \in Region : own[c][k] = {}
    BY <2>1, <2>3 DEF RegionOK
  <2> QED BY <1>1, <2>2, <2>3
<1>6. RegionsOK(c)'
  <2>1. UNCHANGED <<own, stuck, pool, nfree, allocs>>
    BY <1>1
  <2> QED BY <1>3, <1>5, <2>1 DEF RegionsOK
<1>7. ThreadOK(allocs[c], label, cur[c])
  <2>1. DOMAIN allocs[c] = {}
    BY <1>1, <1>2 DEF ThreadOK
  <2> QED BY <1>2, <2>1 DEF ThreadOK
<1>8. RowOK(c)'
  BY <1>1, <1>2, <1>3, <1>6, <1>7 DEF RowOK
<1>9. Asks(c) /\ \A d \in Ctx : d # c => Aside(d)
  BY <1>1, <1>3 DEF Asks, Aside
<1> QED BY <1>4, <1>8, <1>9, OneRow

(* pim_close forgets the records and the ranges ...                         *)
LEMMA FiniKeeps ==
  ASSUME PInv, NEW c \in Ctx, Fini(c)
  PROVE  PInv'
<1>1. /\ pc[c] = "ready" /\ UNCHANGED <<own, stuck, pool, nfree, cur>>
      /\ allocs' = [allocs EXCEPT ![c] = Empty] /\ pc' = [pc EXCEPT ![c] = "fini"]
      /\ \E E : expect' = [expect EXCEPT ![c] = E]
      /\ \E M : mapped' = [mapped EXCEPT ![c] = M]
  BY DEF Fini
<1>2. /\ Shape /\ ThreadOK(allocs[c], pc[c], cur[c])
  BY DEF PInv, RowOK
<1>3. /\ Line(allocs)' /\ Line(pc)' /\ Line(expect)' /\ Line(mapped)'
      /\ allocs'[c] = Empty /\ pc'[c] = "fini"
      /\ \A d \in Ctx : d # c => /\ allocs'[d] = allocs[d] /\ pc'[d] = pc[d] /\ expect'[d] = expect[d]
                                 /\ mapped'[d] = mapped[d]
  BY <1>1, <1>2 DEF Shape, Line
<1>4. Shape'
  BY <1>1, <1>2, <1>3 DEF Shape
<1>5. ASSUME NEW m \in Region
      PROVE  RegionOK(m, own[c][m], stuck[c][m], pool[c][m], nfree[c][m], Used(allocs'[c], m), "fini")
  <2>1. RegionOK(m, own[c][m], stuck[c][m], pool[c][m], nfree[c][m], Used(allocs[c], m), pc[c])
    BY DEF PInv, RowOK, RegionsOK
  <2> QED BY <2>1 DEF RegionOK
<1>6. RegionsOK(c)'
  <2>1. UNCHANGED <<own, stuck, pool, nfree>>
    BY <1>1
  <2> QED BY <1>3, <1>5, <2>1 DEF RegionsOK
<1>7. RecordsOK(allocs'[c], mapped'[c]) /\ ThreadOK(allocs'[c], pc'[c], cur'[c])
  <2>1. RecordsOK(Empty, mapped'[c]) /\ DOMAIN Empty = {}
    BY NoRecords
  <2> QED BY <1>1, <1>2, <1>3, <2>1 DEF ThreadOK
<1>8. RowOK(c)'
  BY <1>6, <1>7 DEF RowOK
<1>9. Asks(c) /\ \A d \in Ctx : d # c => Aside(d)
  BY <1>1, <1>3 DEF Asks, Aside
<1> QED BY <1>4, <1>8, <1>9, OneRow

(* ... and gives up the pools one by one.                                   *)
LEMMA FiniPoolKeeps ==
  ASSUME PInv, NEW c \in Ctx, NEW m \in Region, FiniPool(c, m)
  PROVE  PInv'
<1>1. /\ pc[c] = "fini" /\ SetPool(c, m, Empty, Empty)
      /\ UNCHANGED <<stuck, allocs, mapped, pc, cur, expect>>
      /\ \/ own' = [own EXCEPT ![c][m] = Remains(own[c][m], TrimExtents(m, nfree[c][m], 0))]
         \/ UNCHANGED own
  BY DEF FiniPool
<1>2. /\ Shape /\ ThreadOK(allocs[c], pc[c], cur[c]) /\ RecordsOK(allocs[c], mapped[c])
  BY DEF PInv, RowOK
<1>3. /\ Square(pool)' /\ Square(nfree)' /\ pool'[c][m] = Empty /\ nfree'[c][m] = Empty
      /\ \A k \in Region : k # m => pool'[c][k] = pool[c][k] /\ nfree'[c][k] = nfree[c][k]
      /\ \A d \in Ctx : d # c => pool'[d] = pool[d] /\ nfree'[d] = nfree[d]
  BY <1>1, <1>2, PoolSet
<1>4. /\ Square(own)' /\ own'[c][m] \subseteq own[c][m]
      /\ \A k \in Region : k # m => own'[c][k] = own[c][k]
      /\ \A d \in Ctx : d # c => own'[d] = own[d]
  <2>1. CASE UNCHANGED own
    BY <1>2, <2>1 DEF Shape
  <2>2. CASE own' = [own EXCEPT ![c][m] = Remains(own[c][m], TrimExtents(m, nfree[c][m], 0))]
    <3>1. PICK X : X \subseteq own[c][m] /\ own' = [own EXCEPT ![c][m] = X]
      BY <2>2 DEF Remains
    <3> QED BY ZenonT(60), <1>2, <3>1 DEF Shape, Square
  <2> QED BY <1>1, <2>1, <2>2
<1>5. Shape'
  BY <1>1, <1>2, <1>3, <1>4 DEF Shape
<1>6. ASSUME NEW k \in Region
      PROVE  RegionOK(k, own'[c][k], stuck'[c][k], pool'[c][k], nfree'[c][k], Used(allocs'[c], k), pc'[c])
  <2>1. RegionOK(k, own[c][k], stuck[c][k], pool[c][k], nfree[c][k], Used(allocs[c], k), "fini")
    BY <1>1 DEF PInv, RowOK, RegionsOK
  <2>2. pc'[c] = "fini" /\ stuck'[c][k] = stuck[c][k] /\ allocs'[c] = allocs[c]
    BY <1>1
  <2>3. CASE k = m
    <3>1. PoolOK(m, Empty, Empty) /\ DOMAIN Empty = {}
      BY EmptyPool
    <3> QED BY <1>3, <1>4, <2>1, <2>2, <2>3, <3>1 DEF RegionOK
  <2>4. CASE k # m
    BY <1>3, <1>4, <2>1, <2>2, <2>4
  <2> QED BY <2>3, <2>4
<1>7. RowOK(c)'
  BY <1>1, <1>2, <1>6 DEF RowOK, RegionsOK
<1>8. Asks(c) /\ \A d \in Ctx : d # c => Aside(d)
  <2>1. Asks(c)
    BY <1>4 DEF Asks
  <2> QED BY <2>1, <1>1, <1>3, <1>4 DEF Aside
<1> QED BY <1>2, <1>5, <1>7, <1>8, OneRow

(* The process is gone: nothing is left but what the driver charges to it.  *)
LEMMA ExitKeeps ==
  ASSUME PInv, NEW c \in Ctx, Exit(c)
  PROVE  PInv'
<1> DEFINE none == [m \in Region |-> Empty]
           nil == [m \in Region |-> {}]
<1>1. /\ pool' = [pool EXCEPT ![c] = none] /\ nfree' = [nfree EXCEPT ![c] = none]
      /\ stuck' = [stuck EXCEPT ![c] = nil] /\ UNCHANGED own
      /\ allocs' = [allocs EXCEPT ![c] = Empty] /\ mapped' = [mapped EXCEPT ![c] = {}]
      /\ expect' = [expect EXCEPT ![c] = Empty] /\ pc' = [pc EXCEPT ![c] = "exiting"]
      /\ cur' = [cur EXCEPT ![c] = Idle]
  BY DEF Exit
<1>2. Shape
  BY DEF PInv
<1>3. /\ Square(pool)' /\ Square(nfree)' /\ Square(stuck)' /\ Square(own)'
      /\ pool'[c] = none /\ nfree'[c] = none /\ stuck'[c] = nil
      /\ \A d \in Ctx : d # c => pool'[d] = pool[d] /\ nfree'[d] = nfree[d] /\ stuck'[d] = stuck[d]
  BY <1>1, <1>2 DEF Shape, Square
<1>4. /\ Line(allocs)' /\ Line(mapped)' /\ Line(expect)' /\ Line(pc)' /\ Line(cur)'
      /\ allocs'[c] = Empty /\ mapped'[c] = {} /\ pc'[c] = "exiting" /\ cur'[c] = Idle
      /\ \A d \in Ctx : d # c => /\ allocs'[d] = allocs[d] /\ mapped'[d] = mapped[d]
                                 /\ expect'[d] = expect[d] /\ pc'[d] = pc[d] /\ cur'[d] = cur[d]
  BY <1>1, <1>2 DEF Shape, Line
<1>5. ASSUME NEW m \in Region
      PROVE  RegionOK(m, own[c][m], {}, Empty, Empty, Used(Empty, m), "exiting")
  <2>1. RegionOK(m, own[c][m], stuck[c][m], pool[c][m], nfree[c][m], Used(allocs[c], m), pc[c])
    BY DEF PInv, RowOK, RegionsOK
  <2>2. PoolOK(m, Empty, Empty) /\ DOMAIN Empty = {} /\ Marked(Empty) = {} /\ Used(Empty, m) = {}
    BY EmptyPool, NoRecords
  <2> QED BY <2>1, <2>2 DEF RegionOK
<1>6. RegionsOK(c)'
  <2>1. \A m \in Region : pool'[c][m] = Empty /\ nfree'[c][m] = Empty /\ stuck'[c][m] = {}
                          /\ own'[c][m] = own[c][m]
    BY <1>1, <1>3
  <2> QED BY <1>4, <1>5, <2>1 DEF RegionsOK
<1>7. RecordsOK(allocs'[c], mapped'[c]) /\ ThreadOK(allocs'[c], pc'[c], cur'[c])
  <2>1. RecordsOK(Empty, {}) /\ DOMAIN Empty = {}
    BY NoRecords
  <2> QED BY <1>4, <2>1 DEF ThreadOK, Idle
<1>8. RowOK(c)'
  BY <1>6, <1>7 DEF RowOK
<1>9. Asks(c) /\ (\A d \in Ctx : d # c => Aside(d)) /\ Shape'
  <2>1. Asks(c)
    BY <1>1 DEF Asks
  <2> QED BY <2>1, <1>1, <1>3, <1>4 DEF Aside, Shape
<1> QED BY <1>8, <1>9, OneRow

(* The driver takes a region back.                                          *)
LEMMA ReclaimKeeps ==
  ASSUME PInv, NEW c \in Ctx, NEW m \in Region, Reclaim(c, m)
  PROVE  PInv'
<1>1. /\ pc[c] = "exiting" /\ own' = [own EXCEPT ![c][m] = {}]
      /\ UNCHANGED <<stuck, pool, nfree, allocs, mapped, pc, cur, expect>>
  BY DEF Reclaim
<1>2. /\ Shape /\ ThreadOK(allocs[c], pc[c], cur[c]) /\ RecordsOK(allocs[c], mapped[c])
  BY DEF PInv, RowOK
<1>3. /\ Square(own)' /\ own'[c][m] = {} /\ \A k \in Region : k # m => own'[c][k] = own[c][k]
      /\ \A d \in Ctx : d # c => own'[d] = own[d]
  <2>1. PICK X : X = {} /\ own' = [own EXCEPT ![c][m] = X]
    BY <1>1
  <2>2. /\ Square(own)' /\ own'[c][m] = X /\ \A k \in Region : k # m => own'[c][k] = own[c][k]
        /\ \A d \in Ctx : d # c => own'[d] = own[d]
    BY ZenonT(60), <1>2, <2>1 DEF Shape, Square
  <2> QED BY <2>1, <2>2
<1>4. ASSUME NEW k \in Region
      PROVE  RegionOK(k, own'[c][k], stuck[c][k], pool[c][k], nfree[c][k], Used(allocs[c], k), pc[c])
  <2>1. RegionOK(k, own[c][k], stuck[c][k], pool[c][k], nfree[c][k], Used(allocs[c], k), pc[c])
    BY DEF PInv, RowOK, RegionsOK
  <2>2. own'[c][k] = own[c][k] \/ own'[c][k] = {}
    BY <1>3
  <2> QED BY <1>1, <2>1, <2>2 DEF RegionOK
<1>5. RowOK(c)'
  BY <1>1, <1>2, <1>4 DEF RowOK, RegionsOK
<1>6. Asks(c) /\ (\A d \in Ctx : d # c => Aside(d)) /\ Shape'
  <2>1. Asks(c)
    BY <1>3 DEF Asks
  <2> QED BY <2>1, <1>1, <1>2, <1>3 DEF Aside, Shape
<1> QED BY <1>5, <1>6, OneRow

(* The inductive step.                                                      *)
LEMMA PoolsInductive == PInv /\ [Next]_vars => PInv'
<1> SUFFICES ASSUME PInv, [Next]_vars  PROVE PInv'
  OBVIOUS
<1>1. CASE UNCHANGED vars
  BY <1>1 DEF vars, PInv, Shape, RowOK, RegionsOK, Apart
<1>2. ASSUME NEW c \in Ctx, NEW m \in Region, NEW n \in Sizes, Alloc(c, m, n)
      PROVE  PInv'
  <2>1. n \in Nat \ {0}
    BY PoolAssumption
  <2>2. AllocFull(c, m, n) => UNCHANGED vars
    BY DEF AllocFull
  <2> QED BY <1>1, <1>2, <2>1, <2>2, AllocFromPoolKeeps, AllocGrowKeeps, AllocUnrecordedKeeps DEF Alloc
<1>3. ASSUME NEW c \in Ctx, ZeroFailed(c)
      PROVE  PInv'
  <2>1. pc[c] \in Busy /\ cur[c].v \in DOMAIN allocs[c] /\ Discard(c, cur[c].v)
    BY <1>3 DEF ZeroFailed, Busy, PInv, RowOK, ThreadOK
  <2> QED BY <2>1, DiscardKeeps
<1>4. ASSUME NEW c \in Ctx, NEW v \in VRange, Free(c, v)
      PROVE  PInv'
  <2>1. pc[c] \in Busy /\ v \in DOMAIN allocs[c] /\ Discard(c, v)
    BY <1>4 DEF Free, Busy
  <2> QED BY <2>1, DiscardKeeps
<1>5. CASE Next
  <2> SUFFICES ASSUME NEW c \in Ctx,
                      \/ Open(c) \/ Zero(c) \/ ZeroFailed(c) \/ Write(c) \/ WriteFailed(c)
                      \/ Unmap(c) \/ Fini(c) \/ Exit(c) \/ Closed(c)
                      \/ \E m \in Region : FiniPool(c, m) \/ Reclaim(c, m) \/ \E n \in Sizes : Alloc(c, m, n)
                      \/ \E v \in VRange : StartWrite(c, v) \/ Free(c, v)
               PROVE  PInv'
    BY <1>5 DEF Next
  <2> QED BY <1>2, <1>3, <1>4, EndsKeep, WorkKeeps, FiniKeeps, FiniPoolKeeps, ExitKeeps, ReclaimKeeps
<1> QED BY <1>1, <1>5

LEMMA PoolsInvariant == Spec => []PInv
BY PoolsStart, PoolsInductive, PTL DEF Spec

------------------------------------------------------------------------------
(* The properties.                                                          *)

(* What a context's records say of its granules.                            *)
LEMMA RecordFacts ==
  ASSUME PInv, NEW c \in Ctx, NEW v \in DOMAIN allocs[c]
  PROVE  /\ allocs[c][v].mem \in Region /\ allocs[c][v].grans \in Seq(Nat)
         /\ IsInjective(allocs[c][v].grans) /\ v \in mapped[c]
         /\ \A x \in ToSet(allocs[c][v].grans) :
              \E p \in own[c][allocs[c][v].mem] :
                p \in Pages(allocs[c][v].mem) /\ x \in Grans(allocs[c][v].mem, p)
<1> DEFINE m == allocs[c][v].mem
           g == allocs[c][v].grans
<1>1. m \in Region /\ g \in Seq(Nat) /\ IsInjective(g) /\ v \in mapped[c]
  BY DEF PInv, RowOK, RecordsOK
<1>2. ASSUME NEW x \in ToSet(g)
      PROVE  \E p \in own[c][m] : p \in Pages(m) /\ x \in Grans(m, p)
  <2>1. RegionOK(m, own[c][m], stuck[c][m], pool[c][m], nfree[c][m], Used(allocs[c], m), pc[c])
        /\ ThreadOK(allocs[c], pc[c], cur[c])
    BY <1>1 DEF PInv, RowOK, RegionsOK
  <2>2. pc[c] # "fini"
    BY <2>1 DEF ThreadOK
  <2>3. x \in Used(allocs[c], m)
    BY UsedIs
  <2> HIDE DEF m
  <2>4. x \in Marked(pool[c][m]) /\ PoolOK(m, pool[c][m], nfree[c][m])
        /\ DOMAIN pool[c][m] \subseteq own[c][m]
    BY <2>1, <2>2, <2>3 DEF RegionOK
  <2>5. PICK p \in DOMAIN pool[c][m] : x \in pool[c][m][p]
    BY <2>4, MarkedIn
  <2>6. p \in Pages(m) /\ pool[c][m][p] \subseteq Grans(m, p)
    BY <2>4, <2>5 DEF PoolOK
  <2> QED BY <2>4, <2>5, <2>6
<1> QED BY <1>1, <1>2

(* Granules of two allocations are two granules, whoever has them.          *)
LEMMA NoneShared ==
  ASSUME PInv, NEW c \in Ctx, NEW d \in Ctx, NEW v \in DOMAIN allocs[c], NEW w \in DOMAIN allocs[d],
         c # d \/ v # w, allocs[c][v].mem = allocs[d][w].mem
  PROVE  ToSet(allocs[c][v].grans) \cap ToSet(allocs[d][w].grans) = {}
<1> DEFINE m == allocs[c][v].mem
<1>1. CASE c = d
  BY <1>1 DEF PInv, RowOK, RecordsOK, Clear
<1>2. ASSUME c # d, NEW x, x \in ToSet(allocs[c][v].grans), x \in ToSet(allocs[d][w].grans)
      PROVE  FALSE
  <2>1. PICK p \in own[c][m] : p \in Pages(m) /\ x \in Grans(m, p)
    BY <1>2, RecordFacts
  <2>2. PICK q \in own[d][m] : q \in Pages(m) /\ x \in Grans(m, q)
    BY <1>2, RecordFacts
  <2>3. m \in Region
    BY RecordFacts
  <2>4. p # q
    BY <1>2, <2>3 DEF PInv, Apart
  <2> HIDE DEF m
  <2> QED BY <2>1, <2>2, <2>3, <2>4, GransApart
<1> QED BY <1>1, <1>2

(* At any time, whatever was allocated, freed or left behind by dying       *)
(* processes, two live allocations share no place of the card, and each     *)
(* lies in hugepages its context owns.                                      *)
THEOREM NobodyAliases == Spec => []NoAlias
<1>1. ASSUME PInv  PROVE NoAlias
  <2> SUFFICES ASSUME NEW x \in Live
               PROVE  /\ IsInjective(Rec(x).grans)
                      /\ \A y \in Live : x # y /\ Rec(x).mem = Rec(y).mem =>
                           ToSet(Rec(x).grans) \cap ToSet(Rec(y).grans) = {}
                      /\ x[2] \in mapped[x[1]]
                      /\ ToSet(Rec(x).grans) \subseteq UNION {Grans(Rec(x).mem, p) : p \in own[x[1]][Rec(x).mem]}
    BY DEF NoAlias
  <2>1. x[1] \in Ctx /\ x[2] \in DOMAIN allocs[x[1]] /\ x = <<x[1], x[2]>>
    BY DEF Live
  <2>2. /\ IsInjective(Rec(x).grans) /\ x[2] \in mapped[x[1]]
        /\ \A z \in ToSet(Rec(x).grans) : \E p \in own[x[1]][Rec(x).mem] : z \in Grans(Rec(x).mem, p)
    BY <1>1, <2>1, RecordFacts DEF Rec
  <2>3. ASSUME NEW y \in Live, x # y, Rec(x).mem = Rec(y).mem
        PROVE  ToSet(Rec(x).grans) \cap ToSet(Rec(y).grans) = {}
    <3>1. y[1] \in Ctx /\ y[2] \in DOMAIN allocs[y[1]] /\ y = <<y[1], y[2]>>
      BY DEF Live
    <3>2. x[1] # y[1] \/ x[2] # y[2]
      BY <2>1, <2>3, <3>1
    <3> QED BY <1>1, <2>1, <2>3, <3>1, <3>2, NoneShared DEF Rec
  <2> QED BY <2>2, <2>3
<1> QED BY <1>1, PoolsInvariant, PTL

(* The bitmaps, the counters and the driver's ledger agree in every state a *)
(* context can be called in, or be killed in.                               *)
THEOREM PoolsAreExact == Spec => []PoolExact
<1>1. ASSUME PInv  PROVE PoolExact
  <2> SUFFICES ASSUME NEW c \in Ctx, NEW m \in Region, pc[c] # "fini"
               PROVE  /\ UNION {pool[c][m][p] : p \in DOMAIN pool[c][m]} = InUse(c, m)
                      /\ \A p \in DOMAIN pool[c][m] : nfree[c][m][p] = Gpb[m] - Cardinality(pool[c][m][p])
                      /\ DOMAIN pool[c][m] \subseteq own[c][m]
                      /\ pc[c] # "exiting" => own[c][m] \ DOMAIN pool[c][m] = stuck[c][m]
    BY DEF PoolExact
  <2>1. RegionOK(m, own[c][m], stuck[c][m], pool[c][m], nfree[c][m], Used(allocs[c], m), pc[c])
    BY <1>1 DEF PInv, RowOK, RegionsOK
  <2>2. Used(allocs[c], m) = InUse(c, m)
    BY DEF Used, InUse
  <2>3. Marked(pool[c][m]) = UNION {pool[c][m][p] : p \in DOMAIN pool[c][m]}
    BY DEF Marked
  <2> HIDE DEF InUse, Marked
  <2> QED BY <2>1, <2>2, <2>3 DEF RegionOK, PoolOK
<1> QED BY <1>1, PoolsInvariant, PTL

------------------------------------------------------------------------------
(* What the memory holds.                                                   *)

(* The allocation context c is filling, if v is one.                        *)
Filling(c, v) == pc[c] \in {"zeroing", "writing"} /\ cur[c].v = v

(* What its first granules hold, and how many of them: those the transfer   *)
(* has reached, or all of it as the owner expects.                          *)
Kind(c, v) == IF Filling(c, v) THEN (IF pc[c] = "zeroing" THEN "zeroes" ELSE "data") ELSE expect[c][v]
Reached(c, v) == IF Filling(c, v) THEN cur[c].done ELSE Len(allocs[c][v].grans)

HoldsAs(c, v, kind, i) ==
  /\ kind = "zeroes" => Holds(c, v, i) = Zeroes
  /\ kind = "data" => Holds(c, v, i) = Data(c, v, i)

ContentOK(c, v) ==
  /\ v \in DOMAIN expect[c]
  /\ \A i \in 1 .. Reached(c, v) : HoldsAs(c, v, Kind(c, v), i)
  /\ Filling(c, v) => expect[c][v] = "anything"

CardShape == card = [m \in Region |-> [x \in AllGrans(m) |-> card[m][x]]]
ContentsOK(c) == DOMAIN expect[c] = DOMAIN allocs[c] /\ \A v \in DOMAIN allocs[c] : ContentOK(c, v)
CInv == CardShape /\ \A c \in Ctx : ContentsOK(c)

(* The granules of an allocation are on the card.                           *)
LEMMA OnCard ==
  ASSUME PInv, NEW c \in Ctx, NEW v \in DOMAIN allocs[c]
  PROVE  /\ allocs[c][v].mem \in Region /\ allocs[c][v].grans \in Seq(Nat)
         /\ ToSet(allocs[c][v].grans) \subseteq AllGrans(allocs[c][v].mem)
<1> DEFINE m == allocs[c][v].mem
<1>1. m \in Region /\ allocs[c][v].grans \in Seq(Nat)
  BY RecordFacts
<1>2. ASSUME NEW x \in ToSet(allocs[c][v].grans)
      PROVE  x \in AllGrans(m)
  <2>1. PICK p \in own[c][m] : p \in Pages(m) /\ x \in Grans(m, p)
    BY RecordFacts
  <2> HIDE DEF m
  <2> QED BY <1>1, <2>1, GransOf
<1> QED BY <1>1, <1>2

(* The granules of allocation v of context c are left alone.                *)
Spared(c, v) ==
  \A x \in ToSet(allocs[c][v].grans) : card'[allocs[c][v].mem][x] = card[allocs[c][v].mem][x]

(* An allocation nobody writes to, and whose owner does not begin to.       *)
LEMMA ContentStays ==
  ASSUME PInv, CInv, NEW c \in Ctx, NEW v \in DOMAIN allocs[c], Spared(c, v),
         allocs'[c][v] = allocs[c][v], expect'[c][v] = expect[c][v], v \in DOMAIN expect'[c],
         \/ pc'[c] = pc[c] /\ cur'[c] = cur[c]
         \/ ~ Filling(c, v) /\ ~ Filling(c, v)'
  PROVE  ContentOK(c, v)'
<1> DEFINE g == allocs[c][v].grans
<1>1. ContentOK(c, v)
  BY DEF CInv, ContentsOK
<1>2. Kind(c, v)' = Kind(c, v) /\ Reached(c, v)' = Reached(c, v)
      /\ (Filling(c, v)' => Filling(c, v))
  BY DEF Kind, Reached, Filling
<1>3. Reached(c, v) \in Nat /\ Reached(c, v) <= Len(g)
  <2>1. g \in Seq(Nat) /\ ThreadOK(allocs[c], pc[c], cur[c])
    BY RecordFacts DEF PInv, RowOK
  <2>2. Len(g) \in Nat
    BY <2>1
  <2>3. CASE Filling(c, v)
    <3>1. Reached(c, v) = cur[c].done /\ cur[c].done \in Nat /\ cur[c].done < Len(g)
      BY <2>1, <2>3 DEF Reached, Filling, ThreadOK
    <3> QED BY <2>2, <3>1
  <2>4. CASE ~ Filling(c, v)
    BY <2>2, <2>4 DEF Reached
  <2> QED BY <2>3, <2>4
<1>4. ASSUME NEW i \in 1 .. Reached(c, v)
      PROVE  HoldsAs(c, v, Kind(c, v), i)'
  <2>1. g \in Seq(Nat) /\ i \in 1 .. Len(g)
    BY <1>3, RecordFacts
  <2>2. g[i] \in ToSet(g)
    <3> HIDE DEF g
    <3> QED BY <2>1, Listed
  <2>3. Holds(c, v, i)' = Holds(c, v, i)
    BY <2>2 DEF Spared, Holds
  <2>4. HoldsAs(c, v, Kind(c, v), i)
    BY <1>1 DEF ContentOK
  <2> QED BY <1>2, <2>3, <2>4 DEF HoldsAs
<1>5. 1 .. Reached(c, v)' = 1 .. Reached(c, v)
  BY <1>2
<1> QED BY <1>1, <1>2, <1>4, <1>5 DEF ContentOK

(* A step of one context has to leave the allocations of the others alone.  *)
LEMMA OneContent ==
  ASSUME PInv, CInv, NEW c \in Ctx, CardShape', ContentsOK(c)',
         \A d \in Ctx : d # c => /\ allocs'[d] = allocs[d] /\ pc'[d] = pc[d] /\ cur'[d] = cur[d]
                                 /\ expect'[d] = expect[d]
                                 /\ \A w \in DOMAIN allocs[d] : Spared(d, w)
  PROVE  CInv'
<1>1. ASSUME NEW d \in Ctx, d # c
      PROVE  ContentsOK(d)'
  <2>1. DOMAIN expect[d] = DOMAIN allocs[d]
    BY DEF CInv, ContentsOK
  <2>2. ASSUME NEW w \in DOMAIN allocs[d]
        PROVE  ContentOK(d, w)'
    BY <1>1, <2>1, <2>2, ContentStays
  <2> QED BY <1>1, <2>1, <2>2 DEF ContentsOK
<1> QED BY <1>1 DEF CInv

(* Nothing is written, and no transfer begins or ends.                      *)
LEMMA QuietContents ==
  ASSUME PInv, CInv, NEW c \in Ctx, UNCHANGED <<card, allocs, expect>>,
         \A d \in Ctx : d # c => pc'[d] = pc[d] /\ cur'[d] = cur[d],
         \/ pc'[c] = pc[c] /\ cur'[c] = cur[c]
         \/ pc[c] \notin {"zeroing", "writing"} /\ pc'[c] \notin {"zeroing", "writing"}
  PROVE  CInv'
<1>1. \A d \in Ctx : \A w \in DOMAIN allocs[d] : Spared(d, w)
  BY DEF Spared
<1>2. DOMAIN expect[c] = DOMAIN allocs[c]
  BY DEF CInv, ContentsOK
<1>3. ASSUME NEW w \in DOMAIN allocs[c]
      PROVE  ContentOK(c, w)'
  <2>1. \/ pc'[c] = pc[c] /\ cur'[c] = cur[c]
        \/ ~ Filling(c, w) /\ ~ Filling(c, w)'
    BY DEF Filling
  <2> QED BY <1>1, <1>2, <2>1, ContentStays
<1>4. ContentsOK(c)'
  BY <1>2, <1>3 DEF ContentsOK
<1>5. CardShape'
  BY DEF CInv, CardShape
<1> QED BY <1>1, <1>4, <1>5, OneContent

(* What is forgotten is only what is given up.                              *)
LEMMA Forgotten ==
  ASSUME CardShape, NEW m \in Region, NEW G, Forget(m, G)
  PROVE  /\ CardShape'
         /\ \A n \in Region : \A x \in AllGrans(n) : n # m \/ x \notin G => card'[n][x] = card[n][x]
BY DEF CardShape, Forget

LEMMA ForgottenAll ==
  ASSUME CardShape, NEW c, ForgetAll(c)
  PROVE  /\ CardShape'
         /\ \A n \in Region : \A x \in AllGrans(n) : x \notin InUse(c, n) => card'[n][x] = card[n][x]
BY DEF CardShape, ForgetAll

(* A new allocation, of which nothing is promised.                          *)
LEMMA RecordContents ==
  ASSUME PInv, CInv, NEW c \in Ctx, pc[c] = "ready", NEW m, NEW P, NEW F, NEW n, NEW zero \in BOOLEAN,
         NEW v, Record(c, m, P, F, n, zero, v)
  PROVE  CInv'
<1>1. Line(allocs) /\ Line(expect) /\ Line(pc) /\ Line(cur) /\ UNCHANGED card
  BY DEF PInv, Shape, Record
<1>2. PICK r : allocs' = [allocs EXCEPT ![c] = [x \in DOMAIN allocs[c] \cup {v} |-> IF x = v THEN r ELSE allocs[c][x]]]
  BY DEF Record
<1>3. expect' = [expect EXCEPT ![c] = [x \in DOMAIN expect[c] \cup {v} |-> IF x = v THEN "anything" ELSE expect[c][x]]]
  BY DEF Record
<1>4. \/ pc' = [pc EXCEPT ![c] = "zeroing"] /\ cur' = [cur EXCEPT ![c] = [v |-> v, done |-> 0]]
      \/ UNCHANGED <<pc, cur>>
  BY DEF Record
<1>5. \A d \in Ctx : d # c => /\ allocs'[d] = allocs[d] /\ pc'[d] = pc[d] /\ cur'[d] = cur[d]
                              /\ expect'[d] = expect[d]
  BY <1>1, <1>2, <1>3, <1>4 DEF Line
<1>6. \A d \in Ctx : \A w \in DOMAIN allocs[d] : Spared(d, w)
  BY <1>1 DEF Spared
<1>7. DOMAIN allocs'[c] = DOMAIN allocs[c] \cup {v} /\ \A w \in DOMAIN allocs[c] : w # v => allocs'[c][w] = allocs[c][w]
  BY <1>1, <1>2 DEF Line
<1>8. /\ DOMAIN expect'[c] = DOMAIN expect[c] \cup {v} /\ expect'[c][v] = "anything"
      /\ \A w \in DOMAIN expect[c] : w # v => expect'[c][w] = expect[c][w]
  BY <1>1, <1>3 DEF Line
<1>9. DOMAIN expect[c] = DOMAIN allocs[c]
  BY DEF CInv, ContentsOK
<1>10. \/ pc'[c] = "zeroing" /\ cur'[c] = [v |-> v, done |-> 0]
       \/ pc'[c] = "ready"
  BY <1>1, <1>4 DEF Line
<1>11. ContentOK(c, v)'
  <2>1. CASE Filling(c, v)'
    <3>1. Reached(c, v)' = 0
      BY <1>10, <2>1 DEF Reached, Filling
    <3> QED BY <1>8, <2>1, <3>1 DEF ContentOK
  <2>2. CASE ~ Filling(c, v)'
    <3>1. Kind(c, v)' = "anything"
      BY <1>8, <2>2 DEF Kind
    <3> QED BY <1>8, <2>2, <3>1 DEF ContentOK, HoldsAs
  <2> QED BY <2>1, <2>2
<1>12. ASSUME NEW w \in DOMAIN allocs[c], w # v
       PROVE  ContentOK(c, w)'
  <2>1. ~ Filling(c, w) /\ ~ Filling(c, w)'
    BY <1>10, <1>12 DEF Filling
  <2> QED BY <1>6, <1>7, <1>8, <1>9, <1>12, <2>1, ContentStays
<1>13. ContentsOK(c)'
  BY <1>7, <1>8, <1>9, <1>11, <1>12 DEF ContentsOK
<1>14. CardShape'
  BY <1>1 DEF CInv, CardShape
<1> QED BY <1>5, <1>6, <1>13, <1>14, OneContent

(* Every other way an allocation can end.                                   *)
LEMMA AllocContents ==
  ASSUME PInv, CInv, NEW c \in Ctx, NEW m \in Region, NEW n \in Sizes, Alloc(c, m, n)
  PROVE  CInv'
<1>1. CASE UNCHANGED <<allocs, expect, pc, cur, card>>
  BY <1>1, QuietContents
<1>2. CASE \E P, F, v : \E zero \in BOOLEAN : pc[c] = "ready" /\ Record(c, m, P, F, n, zero, v)
  BY <1>2, RecordContents
<1>3. CASE AllocFull(c, m, n)
  BY <1>1, <1>3 DEF AllocFull, vars
<1>4. CASE AllocUnrecorded(c, m, n)
  BY <1>1, <1>4 DEF AllocUnrecorded
<1>5. ASSUME NEW zero \in BOOLEAN, AllocFromPool(c, m, n, zero)
      PROVE  CInv'
  <2>1. CASE NoRange(c, m, pool[c][m], nfree[c][m])
    BY <1>1, <2>1 DEF NoRange
  <2> QED BY <1>2, <1>5, <2>1 DEF AllocFromPool
<1>6. ASSUME NEW zero \in BOOLEAN, AllocGrow(c, m, n, zero)
      PROVE  CInv'
  <2>1. PICK S \in Grants(c, m, n) :
          \/ \E v \in VRange : Record(c, m, InsertAll(pool[c][m], S), InsertFree(m, nfree[c][m], S), n, zero, v)
          \/ UNCHANGED <<allocs, expect, pc, cur, card>>
    BY <1>6 DEF AllocGrow, NoRange
  <2> QED BY <1>1, <1>2, <1>6, <2>1 DEF AllocGrow
<1> QED BY <1>3, <1>4, <1>5, <1>6 DEF Alloc

(* A write begins, or breaks off.                                           *)
LEMMA WriteContents ==
  ASSUME PInv, CInv, NEW c \in Ctx, WriteFailed(c) \/ \E v \in VRange : StartWrite(c, v)
  PROVE  CInv'
<1>1. PICK v \in DOMAIN allocs[c] :
        \/ /\ WriteFailed(c) /\ pc[c] = "writing" /\ cur[c].v = v
        \/ StartWrite(c, v)
  BY DEF PInv, RowOK, ThreadOK, WriteFailed, StartWrite
<1>2. Line(allocs) /\ Line(expect) /\ Line(pc) /\ Line(cur) /\ UNCHANGED <<card, allocs>>
  BY <1>1 DEF PInv, Shape, WriteFailed, StartWrite
<1>3. \A d \in Ctx : d # c => pc'[d] = pc[d] /\ cur'[d] = cur[d] /\ expect'[d] = expect[d]
  BY <1>1, <1>2 DEF Line, WriteFailed, StartWrite
<1>4. v \in DOMAIN expect[c] /\ DOMAIN expect[c] = DOMAIN allocs[c] /\ ContentOK(c, v)
  BY DEF CInv, ContentsOK
<1>5. /\ DOMAIN expect'[c] = DOMAIN expect[c] /\ expect'[c][v] = "anything"
      /\ \A w \in DOMAIN expect[c] : w # v => expect'[c][w] = expect[c][w]
  <2>1. CASE WriteFailed(c) /\ pc[c] = "writing" /\ cur[c].v = v
    BY <1>4, <2>1 DEF WriteFailed, ContentOK, Filling
  <2>2. CASE StartWrite(c, v)
    <3>1. expect' = [expect EXCEPT ![c][v] = "anything"]
      BY <2>2 DEF StartWrite
    <3> QED BY <1>2, <1>4, <3>1 DEF Line
  <2> QED BY <1>1, <2>1, <2>2
<1>6. \/ pc[c] = "writing" /\ cur[c].v = v /\ pc'[c] = "ready"
      \/ pc[c] = "ready" /\ pc'[c] = "writing" /\ cur'[c] = [v |-> v, done |-> 0]
  BY <1>1, <1>2 DEF Line, WriteFailed, StartWrite
<1>7. \A d \in Ctx : \A w \in DOMAIN allocs[d] : Spared(d, w)
  BY <1>2 DEF Spared
<1>8. ContentOK(c, v)'
  <2>1. CASE Filling(c, v)'
    <3>1. Reached(c, v)' = 0
      BY <1>6, <2>1 DEF Reached, Filling
    <3> QED BY <1>4, <1>5, <2>1, <3>1 DEF ContentOK
  <2>2. CASE ~ Filling(c, v)'
    <3>1. Kind(c, v)' = "anything"
      BY <1>5, <2>2 DEF Kind
    <3> QED BY <1>4, <1>5, <2>2, <3>1 DEF ContentOK, HoldsAs
  <2> QED BY <2>1, <2>2
<1>9. ASSUME NEW w \in DOMAIN allocs[c], w # v
      PROVE  ContentOK(c, w)'
  <2>1. ~ Filling(c, w) /\ ~ Filling(c, w)'
    BY <1>6, <1>9 DEF Filling
  <2> QED BY <1>2, <1>4, <1>5, <1>7, <1>9, <2>1, ContentStays
<1>10. ContentsOK(c)'
  BY <1>2, <1>4, <1>5, <1>8, <1>9 DEF ContentsOK
<1>11. CardShape'
  BY <1>2 DEF CInv, CardShape
<1> QED BY <1>2, <1>3, <1>7, <1>10, <1>11, OneContent

(* An allocation is discarded: what is forgotten is its own granules.       *)
LEMMA DiscardContents ==
  ASSUME PInv, CInv, NEW c \in Ctx, NEW v \in DOMAIN allocs[c], Discard(c, v),
         pc[c] = "ready" \/ cur[c].v = v
  PROVE  CInv'
<1> DEFINE m == allocs[c][v].mem
           G == ToSet(allocs[c][v].grans)
<1>1. Line(allocs) /\ Line(expect) /\ Line(pc) /\ Line(cur) /\ m \in Region
  BY RecordFacts DEF PInv, Shape
<1>2. /\ allocs' = [allocs EXCEPT ![c] = Without(allocs[c], {v})]
      /\ expect' = [expect EXCEPT ![c] = Without(expect[c], {v})]
      /\ pc' = [pc EXCEPT ![c] = "unmap"] /\ cur' = [cur EXCEPT ![c] = [v |-> v, done |-> 0]]
  BY DEF Discard, Unrecord
<1>3. /\ CardShape'
      /\ \A n \in Region : \A x \in AllGrans(n) : n # m \/ x \notin G => card'[n][x] = card[n][x]
  <2>1. Forget(m, G) /\ CardShape
    BY DEF Discard, CInv
  <2> HIDE DEF m, G
  <2> QED BY <1>1, <2>1, Forgotten
<1>4. ASSUME NEW d \in Ctx, NEW w \in DOMAIN allocs[d], d # c \/ w # v
      PROVE  Spared(d, w)
  <2>1. allocs[d][w].mem \in Region /\ ToSet(allocs[d][w].grans) \subseteq AllGrans(allocs[d][w].mem)
    BY OnCard
  <2>2. allocs[d][w].mem = m => ToSet(allocs[d][w].grans) \cap G = {}
    BY <1>4, NoneShared
  <2> HIDE DEF m, G
  <2> QED BY <1>3, <2>1, <2>2 DEF Spared
<1> HIDE DEF m, G
<1>5. \A d \in Ctx : d # c => /\ allocs'[d] = allocs[d] /\ pc'[d] = pc[d] /\ cur'[d] = cur[d]
                              /\ expect'[d] = expect[d]
  BY <1>1, <1>2 DEF Line
<1>6. /\ allocs'[c] = Without(allocs[c], {v}) /\ expect'[c] = Without(expect[c], {v}) /\ pc'[c] = "unmap"
  BY <1>1, <1>2 DEF Line
<1>7. DOMAIN expect[c] = DOMAIN allocs[c]
  BY DEF CInv, ContentsOK
<1>8. ASSUME NEW w \in DOMAIN allocs'[c]
      PROVE  ContentOK(c, w)'
  <2>1. w \in DOMAIN allocs[c] /\ w # v /\ allocs'[c][w] = allocs[c][w]
        /\ w \in DOMAIN expect'[c] /\ expect'[c][w] = expect[c][w]
    BY <1>6, <1>7, <1>8 DEF Without
  <2>2. ~ Filling(c, w) /\ ~ Filling(c, w)'
    BY <1>6, <2>1 DEF Filling
  <2> QED BY <1>4, <2>1, <2>2, ContentStays
<1>9. ContentsOK(c)'
  BY <1>6, <1>7, <1>8 DEF ContentsOK, Without
<1> QED BY <1>3, <1>4, <1>5, <1>9, OneContent

(* All of a context's allocations are.                                      *)
LEMMA EndContents ==
  ASSUME PInv, CInv, NEW c \in Ctx, ForgetAll(c),
         allocs' = [allocs EXCEPT ![c] = Empty], expect' = [expect EXCEPT ![c] = Empty],
         \A d \in Ctx : d # c => pc'[d] = pc[d] /\ cur'[d] = cur[d]
  PROVE  CInv'
<1>1. Line(allocs) /\ Line(expect) /\ CardShape
  BY DEF PInv, Shape, CInv
<1>2. /\ \A d \in Ctx : d # c => allocs'[d] = allocs[d] /\ expect'[d] = expect[d]
      /\ allocs'[c] = Empty /\ expect'[c] = Empty
  BY <1>1 DEF Line
<1>3. ContentsOK(c)'
  BY <1>2 DEF ContentsOK, Empty
<1>4. ASSUME NEW d \in Ctx, d # c, NEW w \in DOMAIN allocs[d]
      PROVE  Spared(d, w)
  <2> DEFINE m == allocs[d][w].mem
  <2>1. m \in Region /\ ToSet(allocs[d][w].grans) \subseteq AllGrans(m)
    BY OnCard
  <2>2. ASSUME NEW x \in ToSet(allocs[d][w].grans)
        PROVE  x \notin InUse(c, m)
    <3>1. ASSUME NEW v \in DOMAIN allocs[c], allocs[c][v].mem = m, x \in ToSet(allocs[c][v].grans)
          PROVE  FALSE
      BY <1>4, <3>1, NoneShared
    <3>2. x \in Used(allocs[c], m) => FALSE
      BY <3>1, UsedIs
    <3> QED BY <3>2 DEF Used, InUse
  <2> HIDE DEF m
  <2>3. \A x \in AllGrans(m) : x \notin InUse(c, m) => card'[m][x] = card[m][x]
    BY <1>1, <2>1, ForgottenAll
  <2> QED BY <2>1, <2>2, <2>3 DEF Spared, m
<1>5. CardShape'
  BY <1>1, ForgottenAll
<1> QED BY <1>2, <1>3, <1>4, <1>5, OneContent

(* After the i-th, the granules g have k that are neighbours on the card.   *)
Stretch(g, i, k) ==
  /\ g \in Seq(Nat) /\ i \in Nat /\ k \in Nat /\ k > 0 /\ i + k <= Len(g)
  /\ \A j \in 0 .. k - 1 : g[i + 1 + j] = g[i + 1] + j

(* Their places, by number and by distance from the first.                  *)
LEMMA RunPlaces ==
  ASSUME NEW g, NEW i, NEW k, Stretch(g, i, k)
  PROVE  /\ \A j \in i + 1 .. i + k : j \in 1 .. Len(g) /\ j > i
         /\ \A j \in i + 1 .. i + k : g[j] - g[i + 1] \in 0 .. k - 1 /\ i + 1 + (g[j] - g[i + 1]) = j
         /\ \A x \in Nat : x - g[i + 1] \in 0 .. k - 1 => \E j \in i + 1 .. i + k : x = g[j]
<1> USE DEF Stretch
<1> DEFINE a == g[i + 1]
<1>1. a \in Nat /\ Len(g) \in Nat
  <2>1. i + 1 \in 1 .. Len(g) /\ Len(g) \in Nat
    OBVIOUS
  <2> QED BY <2>1
<1> HIDE DEF a
<1>2. ASSUME NEW j \in i + 1 .. i + k
      PROVE  /\ j \in 1 .. Len(g) /\ j > i
             /\ g[j] - a \in 0 .. k - 1 /\ i + 1 + (g[j] - a) = j
  <2>1. j \in 1 .. Len(g) /\ j > i /\ j - (i + 1) \in 0 .. k - 1 /\ i + 1 + (j - (i + 1)) = j
    BY <1>1
  <2>2. g[j] = a + (j - (i + 1))
    BY <2>1 DEF a
  <2>3. g[j] - a = j - (i + 1)
    BY <1>1, <2>1, <2>2
  <2> QED BY <2>1, <2>3
<1>3. ASSUME NEW x \in Nat, x - a \in 0 .. k - 1
      PROVE  \E j \in i + 1 .. i + k : x = g[j]
  <2>1. g[i + 1 + (x - a)] = a + (x - a)
    BY <1>3 DEF a
  <2>2. a + (x - a) = x /\ i + 1 + (x - a) \in i + 1 .. i + k
    BY <1>1, <1>3
  <2> QED BY <2>1, <2>2
<1> QED BY <1>2, <1>3 DEF a

(* The run that context c's transfer moves next: k granules from the i-th   *)
(* of those (g, in region m) of the allocation v.                           *)
Moving(c, v, m, g, i, k) ==
  /\ v = cur[c].v /\ m = allocs[c][v].mem /\ g = allocs[c][v].grans
  /\ i = cur[c].done /\ k = RunLength(g, i)

(* One run is written: the granules of the run hold what the host side      *)
(* holds for them, and no other granule of any allocation changes.          *)
LEMMA RunWritten ==
  ASSUME PInv, CInv, NEW c \in Ctx, pc[c] \in {"zeroing", "writing"}, NEW src, Transfer(c, src),
         NEW v, NEW m, NEW g, NEW i, NEW k, Moving(c, v, m, g, i, k)
  PROVE  /\ CardShape' /\ i \in Nat /\ k \in Nat \ {0} /\ i + k <= Len(g)
         /\ \A j \in 1 .. i : card'[m][g[j]] = card[m][g[j]]
         /\ \A j \in i + 1 .. i + k : card'[m][g[j]] = src[j]
         /\ \A d \in Ctx : \A w \in DOMAIN allocs[d] : d # c \/ w # v => Spared(d, w)
<1>1. v \in DOMAIN allocs[c] /\ i < Len(g) /\ i \in Nat
  BY DEF PInv, RowOK, ThreadOK, Moving
<1>2. m \in Region /\ g \in Seq(Nat) /\ ToSet(g) \subseteq AllGrans(m) /\ IsInjective(g)
  BY <1>1, OnCard, RecordFacts DEF Moving
<1>3. k \in 1 .. Len(g) - i
      /\ \A j \in 0 .. k - 1 : i + 1 + j \in 1 .. Len(g) /\ g[i + 1 + j] = g[i + 1] + j
  BY ZenonT(60), <1>1, <1>2, RunOf DEF Moving
<1> DEFINE In(x) == x - g[i + 1] \in 0 .. k - 1
<1>4. card' = [card EXCEPT ![m] = [x \in DOMAIN card[m] |->
                 IF In(x) THEN src[i + 1 + (x - g[i + 1])] ELSE card[m][x]]]
  BY DEF Transfer, Moving
<1>5. CardShape
  BY DEF CInv
<1> HIDE DEF In
<1>6. /\ CardShape'
      /\ \A x \in AllGrans(m) : card'[m][x] = IF In(x) THEN src[i + 1 + (x - g[i + 1])] ELSE card[m][x]
      /\ \A n \in Region : n # m => card'[n] = card[n]
  BY <1>2, <1>4, <1>5 DEF CardShape
<1>7. \A j \in 1 .. Len(g) : g[j] \in Nat /\ g[j] \in ToSet(g)
  BY <1>2, Listed
<1> DEFINE N == Len(g)
<1>8. /\ N \in Nat /\ k \in Nat /\ k > 0 /\ i + k <= N
      /\ i + 1 \in 1 .. N /\ g[i + 1] \in Nat
  <2>1. N \in Nat
    BY <1>2
  <2>2. k \in 1 .. N - i /\ i \in Nat /\ i < N
    BY <1>1, <1>3
  <2> HIDE DEF N
  <2>3. k \in Nat /\ k > 0 /\ i + k <= N /\ i + 1 \in 1 .. N
    BY <2>1, <2>2
  <2> QED BY <1>7, <2>1, <2>3 DEF N
<1> HIDE DEF N
<1>9. /\ \A j \in i + 1 .. i + k : j \in 1 .. Len(g) /\ j > i
      /\ \A j \in i + 1 .. i + k : In(g[j]) /\ i + 1 + (g[j] - g[i + 1]) = j
      /\ \A x \in Nat : In(x) => \E j \in i + 1 .. i + k : x = g[j]
  <2>1. Stretch(g, i, k)
    BY <1>1, <1>2, <1>3, <1>8 DEF N, Stretch
  <2> QED BY SMTT(60), <2>1, RunPlaces DEF In
<1>10. ASSUME NEW j \in i + 1 .. i + k
       PROVE  card'[m][g[j]] = src[j]
  <2>1. g[j] \in AllGrans(m) /\ In(g[j]) /\ i + 1 + (g[j] - g[i + 1]) = j
    BY <1>2, <1>7, <1>9
  <2> QED BY <1>6, <2>1, Zenon
<1>11. ASSUME NEW j \in 1 .. i
       PROVE  card'[m][g[j]] = card[m][g[j]]
  <2>1. j \in 1 .. Len(g)
    BY <1>1, <1>8 DEF N
  <2>2. ~ In(g[j])
    <3> SUFFICES ASSUME In(g[j])  PROVE FALSE
      OBVIOUS
    <3>1. PICK l \in i + 1 .. i + k : g[j] = g[l]
      BY <1>7, <1>9, <2>1
    <3>2. l \in 1 .. Len(g) /\ l # j
      BY <1>1, <1>9, <3>1
    <3>3. DOMAIN g = 1 .. Len(g)
      BY <1>2
    <3> QED BY <1>2, <2>1, <3>1, <3>2, <3>3 DEF IsInjective
  <2> QED BY <1>2, <1>6, <1>7, <2>1, <2>2
<1>12. ASSUME NEW d \in Ctx, NEW w \in DOMAIN allocs[d], d # c \/ w # v
       PROVE  Spared(d, w)
  <2> DEFINE n == allocs[d][w].mem
             h == allocs[d][w].grans
  <2>1. n \in Region /\ h \in Seq(Nat) /\ ToSet(h) \subseteq AllGrans(n)
    BY OnCard
  <2>2. n = m => ToSet(h) \cap ToSet(g) = {}
    BY <1>1, <1>12, NoneShared DEF Moving
  <2> HIDE DEF n, h
  <2>3. ASSUME NEW x \in ToSet(h), n = m
        PROVE  ~ In(x)
    <3>1. x \in Nat
      BY <2>1, Listed
    <3>2. \A j \in i + 1 .. i + k : g[j] \in ToSet(g)
      BY <1>7, <1>9
    <3> QED BY <1>9, <2>2, <2>3, <3>1, <3>2
  <2>4. ASSUME NEW x \in ToSet(h)
        PROVE  card'[n][x] = card[n][x]
    BY <1>6, <2>1, <2>3
  <2> QED BY <2>4 DEF Spared, n, h
<1>13. k \in Nat \ {0} /\ i + k <= Len(g)
  BY <1>8 DEF N
<1> QED BY <1>1, <1>6, <1>10, <1>11, <1>12, <1>13

(* The host side of a transfer.                                             *)
Supplies(c, src, kind) ==
  \A j \in 1 .. Len(allocs[c][cur[c].v].grans) :
    (kind = "zeroes" => src[j] = Zeroes) /\ (kind = "data" => src[j] = Data(c, cur[c].v, j))

(* After each run, as much of the allocation as the transfer has reached    *)
(* holds what is being written, and all of it when the owner is told so.    *)
LEMMA TransferContents ==
  ASSUME PInv, CInv, NEW c \in Ctx, NEW src, Transfer(c, src), UNCHANGED allocs,
         NEW kind, (pc[c] = "zeroing" /\ kind = "zeroes") \/ (pc[c] = "writing" /\ kind = "data"),
         Supplies(c, src, kind),
         expect' = [expect EXCEPT ![c][cur[c].v] = IF pc'[c] = "ready" THEN kind ELSE expect[c][cur[c].v]]
  PROVE  CInv'
<1>1. PICK v, m, g, i, k : Moving(c, v, m, g, i, k)
  BY DEF Moving
<1>2. v = cur[c].v /\ m = allocs[c][v].mem /\ g = allocs[c][v].grans /\ i = cur[c].done
      /\ k = RunLength(g, i)
  BY <1>1 DEF Moving
<1>3. v \in DOMAIN allocs[c] /\ g \in Seq(Nat) /\ Filling(c, v)
      /\ cur[c] \in [v : VRange \cup {0}, done : Nat]
  BY <1>2, RecordFacts DEF PInv, RowOK, ThreadOK, Filling
<1>4. /\ CardShape' /\ i \in Nat /\ k \in Nat \ {0} /\ i + k <= Len(g)
      /\ \A j \in 1 .. i : card'[m][g[j]] = card[m][g[j]]
      /\ \A j \in i + 1 .. i + k : card'[m][g[j]] = src[j]
      /\ \A d \in Ctx : \A w \in DOMAIN allocs[d] : d # c \/ w # v => Spared(d, w)
  BY <1>1, RunWritten
<1>5. Line(pc) /\ Line(cur) /\ Line(expect) /\ Line(allocs)
  BY DEF PInv, Shape
<1>6. \/ /\ i + k = Len(g)
         /\ pc' = [pc EXCEPT ![c] = "ready"] /\ cur' = [cur EXCEPT ![c] = Idle]
      \/ /\ i + k # Len(g) /\ UNCHANGED pc
         /\ cur' = [cur EXCEPT ![c] = [cur[c] EXCEPT !.done = i + k]]
  BY <1>2 DEF Transfer
<1>7. \/ i + k = Len(g) /\ pc'[c] = "ready"
      \/ pc'[c] = pc[c] /\ cur'[c] = [cur[c] EXCEPT !.done = i + k]
  BY <1>5, <1>6 DEF Line
<1>8. DOMAIN expect[c] = DOMAIN allocs[c] /\ ContentOK(c, v)
  BY <1>3 DEF CInv, ContentsOK
<1>9. \A d \in Ctx : d # c => /\ allocs'[d] = allocs[d] /\ pc'[d] = pc[d] /\ cur'[d] = cur[d]
                              /\ expect'[d] = expect[d]
  BY <1>5, <1>6 DEF Line
<1>10. PICK e : /\ expect' = [expect EXCEPT ![c][v] = e]
                /\ e = IF pc'[c] = "ready" THEN kind ELSE expect[c][v]
  BY <1>2
<1>11. /\ DOMAIN expect'[c] = DOMAIN expect[c] /\ expect'[c][v] = e
       /\ \A w \in DOMAIN expect[c] : w # v => expect'[c][w] = expect[c][w]
  BY <1>3, <1>5, <1>8, <1>10 DEF Line
<1>12. /\ Kind(c, v) = kind /\ Reached(c, v) = i /\ expect[c][v] = "anything"
  BY <1>2, <1>3, <1>8 DEF Kind, Reached, Filling, ContentOK
<1>13. Kind(c, v)' = kind /\ Reached(c, v)' = i + k /\ (Filling(c, v)' => expect'[c][v] = "anything")
  <2>1. CASE i + k = Len(g) /\ pc'[c] = "ready"
    <3>1. ~ Filling(c, v)' /\ e = kind
      BY <1>10, <2>1 DEF Filling
    <3> QED BY <1>2, <1>11, <2>1, <3>1 DEF Kind, Reached
  <2>2. CASE pc'[c] = pc[c] /\ cur'[c] = [cur[c] EXCEPT !.done = i + k]
    <3>1. cur'[c].v = v /\ cur'[c].done = i + k /\ pc'[c] # "ready"
      BY <1>2, <1>3, <2>2
    <3>2. Filling(c, v)' /\ e = "anything"
      BY <1>3, <1>10, <1>12, <2>2, <3>1 DEF Filling
    <3> QED BY <1>11, <2>2, <3>1, <3>2 DEF Kind, Reached
  <2> QED BY <1>7, <2>1, <2>2
<1>14. ASSUME NEW j \in 1 .. i + k
       PROVE  HoldsAs(c, v, kind, j)'
  <2>1. Holds(c, v, j)' = card'[m][g[j]] /\ Holds(c, v, j) = card[m][g[j]]
    BY <1>2 DEF Holds
  <2>2. CASE j <= i
    <3>1. j \in 1 .. i
      BY <1>4, <2>2
    <3>2. HoldsAs(c, v, kind, j)
      BY <1>8, <1>12, <3>1 DEF ContentOK
    <3> QED BY <1>4, <2>1, <3>1, <3>2 DEF HoldsAs
  <2>3. CASE j > i
    <3>1. Len(g) \in Nat
      BY <1>3
    <3>2. j \in i + 1 .. i + k /\ j \in 1 .. Len(g)
      BY <1>4, <2>3, <3>1
    <3>3. (kind = "zeroes" => src[j] = Zeroes) /\ (kind = "data" => src[j] = Data(c, v, j))
      BY <1>2, <3>2 DEF Supplies
    <3> QED BY <1>4, <2>1, <3>2, <3>3 DEF HoldsAs
  <2> QED BY <1>4, <2>2, <2>3
<1>15. ContentOK(c, v)'
  BY <1>3, <1>8, <1>11, <1>13, <1>14 DEF ContentOK
<1>16. ASSUME NEW w \in DOMAIN allocs[c], w # v
       PROVE  ContentOK(c, w)'
  <2>1. ~ Filling(c, w)
    BY <1>2, <1>16 DEF Filling
  <2>2. ~ Filling(c, w)'
    <3>1. CASE pc'[c] = "ready"
      BY <3>1 DEF Filling
    <3>2. CASE cur'[c] = [cur[c] EXCEPT !.done = i + k]
      BY <1>2, <1>3, <1>16, <3>2 DEF Filling
    <3> QED BY <1>7, <3>1, <3>2
  <2> QED BY <1>4, <1>8, <1>11, <1>16, <2>1, <2>2, ContentStays
<1>17. ContentsOK(c)'
  BY <1>3, <1>8, <1>11, <1>15, <1>16 DEF ContentsOK
<1> QED BY <1>4, <1>9, <1>17, OneContent

LEMMA ContentsStart == Init => CInv
<1> SUFFICES ASSUME Init  PROVE CInv
  OBVIOUS
<1>1. CardShape
  BY DEF Init, CardShape
<1>2. \A c \in Ctx : expect[c] = Empty /\ allocs[c] = Empty
  BY DEF Init
<1>3. DOMAIN Empty = {}
  BY DEF Empty
<1> QED BY <1>1, <1>2, <1>3 DEF CInv, ContentsOK

LEMMA ContentsInductive == PInv /\ CInv /\ [Next]_vars => CInv'
<1> SUFFICES ASSUME PInv, CInv, [Next]_vars  PROVE CInv'
  OBVIOUS
<1>1. CASE UNCHANGED vars
  <2>1. CardShape'
    BY <1>1 DEF vars, CInv, CardShape
  <2>2. \A c \in Ctx : ContentsOK(c)'
    BY <1>1 DEF vars, CInv, ContentsOK, ContentOK, HoldsAs, Holds, Kind, Reached, Filling
  <2> QED BY <2>1, <2>2 DEF CInv
<1>2. ASSUME NEW c \in Ctx, Open(c) \/ Closed(c) \/ Unmap(c) \/ \E m \in Region : FiniPool(c, m) \/ Reclaim(c, m)
      PROVE  CInv'
  <2>1. /\ UNCHANGED <<card, allocs, expect>>
        /\ \E label \in {"ready", "closed"} : pc' = [pc EXCEPT ![c] = label] \/ UNCHANGED pc
        /\ \E k : cur' = [cur EXCEPT ![c] = k] \/ UNCHANGED cur
        /\ pc[c] \notin {"zeroing", "writing"}
    BY <1>2 DEF Open, Closed, Unmap, FiniPool, Reclaim
  <2>2. Line(pc) /\ Line(cur)
    BY DEF PInv, Shape
  <2>3. /\ \A d \in Ctx : d # c => pc'[d] = pc[d] /\ cur'[d] = cur[d]
        /\ pc'[c] \notin {"zeroing", "writing"}
    BY <2>1, <2>2 DEF Line
  <2> QED BY <2>1, <2>3, QuietContents
<1>3. ASSUME NEW c \in Ctx, Zero(c)
      PROVE  CInv'
  <2> DEFINE src == [i \in DOMAIN allocs[c][cur[c].v].grans |-> Zeroes]
  <2>1. /\ pc[c] = "zeroing" /\ UNCHANGED allocs /\ Transfer(c, src)
        /\ expect' = [expect EXCEPT ![c][cur[c].v] = IF pc'[c] = "ready" THEN "zeroes" ELSE expect[c][cur[c].v]]
    BY <1>3 DEF Zero
  <2>2. cur[c].v \in DOMAIN allocs[c]
    BY <2>1 DEF PInv, RowOK, ThreadOK
  <2>3. DOMAIN allocs[c][cur[c].v].grans = 1 .. Len(allocs[c][cur[c].v].grans)
    BY <2>2, RecordFacts
  <2>4. \A j \in 1 .. Len(allocs[c][cur[c].v].grans) : src[j] = Zeroes
    BY <2>3
  <2> HIDE DEF src
  <2>5. PICK kind : kind = "zeroes"
    OBVIOUS
  <2>6. Supplies(c, src, kind)
    BY <2>4, <2>5 DEF Supplies
  <2>7. expect' = [expect EXCEPT ![c][cur[c].v] = IF pc'[c] = "ready" THEN kind ELSE expect[c][cur[c].v]]
    BY <2>1, <2>5
  <2>8. (pc[c] = "zeroing" /\ kind = "zeroes") \/ (pc[c] = "writing" /\ kind = "data")
    BY <2>1, <2>5
  <2> QED BY <2>1, <2>6, <2>7, <2>8, TransferContents
<1>4. ASSUME NEW c \in Ctx, Write(c)
      PROVE  CInv'
  <2> DEFINE src == [i \in DOMAIN allocs[c][cur[c].v].grans |-> Data(c, cur[c].v, i)]
  <2>1. /\ pc[c] = "writing" /\ UNCHANGED allocs /\ Transfer(c, src)
        /\ expect' = [expect EXCEPT ![c][cur[c].v] = IF pc'[c] = "ready" THEN "data" ELSE expect[c][cur[c].v]]
    BY <1>4 DEF Write
  <2>2. cur[c].v \in DOMAIN allocs[c]
    BY <2>1 DEF PInv, RowOK, ThreadOK
  <2>3. DOMAIN allocs[c][cur[c].v].grans = 1 .. Len(allocs[c][cur[c].v].grans)
    BY <2>2, RecordFacts
  <2>4. \A j \in 1 .. Len(allocs[c][cur[c].v].grans) : src[j] = Data(c, cur[c].v, j)
    BY <2>3
  <2> HIDE DEF src
  <2>5. PICK kind : kind = "data"
    OBVIOUS
  <2>6. Supplies(c, src, kind)
    BY <2>4, <2>5 DEF Supplies
  <2>7. expect' = [expect EXCEPT ![c][cur[c].v] = IF pc'[c] = "ready" THEN kind ELSE expect[c][cur[c].v]]
    BY <2>1, <2>5
  <2>8. (pc[c] = "zeroing" /\ kind = "zeroes") \/ (pc[c] = "writing" /\ kind = "data")
    BY <2>1, <2>5
  <2> QED BY <2>1, <2>6, <2>7, <2>8, TransferContents
<1>5. ASSUME NEW c \in Ctx, ZeroFailed(c)
      PROVE  CInv'
  <2>1. cur[c].v \in DOMAIN allocs[c] /\ Discard(c, cur[c].v)
    BY <1>5 DEF ZeroFailed, PInv, RowOK, ThreadOK
  <2> QED BY <2>1, DiscardContents
<1>6. ASSUME NEW c \in Ctx, NEW v \in VRange, Free(c, v)
      PROVE  CInv'
  <2>1. pc[c] = "ready" /\ v \in DOMAIN allocs[c] /\ Discard(c, v)
    BY <1>6 DEF Free
  <2> QED BY <2>1, DiscardContents
<1>7. ASSUME NEW c \in Ctx, Fini(c) \/ Exit(c)
      PROVE  CInv'
  <2>1. /\ ForgetAll(c) /\ allocs' = [allocs EXCEPT ![c] = Empty] /\ expect' = [expect EXCEPT ![c] = Empty]
        /\ \E label : pc' = [pc EXCEPT ![c] = label]
        /\ cur' = [cur EXCEPT ![c] = Idle] \/ UNCHANGED cur
    BY <1>7 DEF Fini, Exit
  <2>2. Line(pc) /\ Line(cur)
    BY DEF PInv, Shape
  <2>3. \A d \in Ctx : d # c => pc'[d] = pc[d] /\ cur'[d] = cur[d]
    BY <2>1, <2>2 DEF Line
  <2> QED BY <2>1, <2>3, EndContents
<1>8. CASE Next
  <2> SUFFICES ASSUME NEW c \in Ctx,
                      \/ Open(c) \/ Zero(c) \/ ZeroFailed(c) \/ Write(c) \/ WriteFailed(c)
                      \/ Unmap(c) \/ Fini(c) \/ Exit(c) \/ Closed(c)
                      \/ \E m \in Region : FiniPool(c, m) \/ Reclaim(c, m) \/ \E n \in Sizes : Alloc(c, m, n)
                      \/ \E v \in VRange : StartWrite(c, v) \/ Free(c, v)
               PROVE  CInv'
    BY <1>8 DEF Next
  <2> QED BY <1>2, <1>3, <1>4, <1>5, <1>6, <1>7, AllocContents, WriteContents
<1> QED BY <1>1, <1>8

(* What a context wrote, or asked to be zeroed, stays until it writes again *)
(* or frees it: whatever the other contexts allocate, zero, write and leave *)
(* behind, and however the granules are scattered over the runs of the      *)
(* transfer (pim_memcpy.c:121, over pim_resolve's runs, pim_alloc.c:704).   *)
THEOREM MemoryIsIntact == Spec => []Intact
<1>1. ASSUME CInv  PROVE Intact
  <2> SUFFICES ASSUME NEW c \in Ctx, NEW v \in DOMAIN allocs[c], NEW i \in 1 .. Len(allocs[c][v].grans)
               PROVE  /\ expect[c][v] = "zeroes" => Holds(c, v, i) = Zeroes
                      /\ expect[c][v] = "data" => Holds(c, v, i) = Data(c, v, i)
    BY DEF Intact
  <2>1. ContentOK(c, v)
    BY <1>1 DEF CInv, ContentsOK
  <2>2. CASE Filling(c, v)
    <3>1. expect[c][v] = "anything"
      BY <2>1, <2>2 DEF ContentOK
    <3> QED BY <3>1
  <2>3. CASE ~ Filling(c, v)
    <3>1. Kind(c, v) = expect[c][v] /\ Reached(c, v) = Len(allocs[c][v].grans)
      BY <2>3 DEF Kind, Reached
    <3> QED BY <2>1, <3>1 DEF ContentOK, HoldsAs
  <2> QED BY <2>2, <2>3
<1>2. CInv /\ PInv /\ [Next]_vars => CInv'
  BY ContentsInductive
<1>3. Spec => []CInv
  BY <1>2, ContentsStart, PoolsInvariant, PTL DEF Spec
<1> QED BY <1>1, <1>3, PTL

------------------------------------------------------------------------------
(* libpim as the driver's caller.                                           *)

LEMMA DiscardCareful ==
  ASSUME PInv, NEW c \in Ctx, pc[c] \in Busy, NEW v \in DOMAIN allocs[c], Discard(c, v)
  PROVE  UNCHANGED careless
<1> DEFINE m == allocs[c][v].mem
           G == ToSet(allocs[c][v].grans)
           P == Given(m, pool[c][m], G)
           F == GivenFree(m, pool[c][m], nfree[c][m], G)
<1>1. m \in Region
  BY RecordFacts
<1>2. Trim(c, m, P, F, KeepFree)
  BY DEF Discard
<1>3. /\ own[c][m] \subseteq Pages(m) /\ PoolOK(m, pool[c][m], nfree[c][m])
      /\ DOMAIN pool[c][m] \subseteq own[c][m]
  BY <1>1, ReadyRegion
<1>4. ToTrim(m, F, KeepFree) \subseteq own[c][m]
  BY <1>3 DEF ToTrim, EmptyPages, GivenFree, PoolOK
<1> HIDE DEF m, P, F
<1> QED BY <1>1, <1>2, <1>3, <1>4, TrimGives

LEMMA FiniPoolCareful ==
  ASSUME PInv, NEW c \in Ctx, NEW m \in Region, FiniPool(c, m)
  PROVE  UNCHANGED careless
<1>1. RegionOK(m, own[c][m], stuck[c][m], pool[c][m], nfree[c][m], Used(allocs[c], m), pc[c])
  BY DEF PInv, RowOK, RegionsOK
<1>2. own[c][m] \subseteq Pages(m) /\ ToTrim(m, nfree[c][m], 0) \subseteq own[c][m]
  BY <1>1 DEF RegionOK, PoolOK, ToTrim, EmptyPages
<1>3. /\ ~ Refused(own[c][m], TrimExtents(m, nfree[c][m], 0))
      /\ ~ Twice(TrimExtents(m, nfree[c][m], 0))
  BY <1>2, TrimNames
<1> QED BY <1>3 DEF FiniPool

LEMMA AllocCareful ==
  ASSUME PInv, NEW c \in Ctx, NEW m \in Region, NEW n \in Sizes, Alloc(c, m, n)
  PROVE  UNCHANGED careless
<1>1. CASE AllocFull(c, m, n)
  BY <1>1 DEF AllocFull, vars
<1>2. ASSUME NEW zero \in BOOLEAN, AllocFromPool(c, m, n, zero)
      PROVE  UNCHANGED careless
  BY <1>2 DEF AllocFromPool, Record, NoRange
<1>3. ASSUME NEW zero \in BOOLEAN, AllocGrow(c, m, n, zero)
      PROVE  UNCHANGED careless
  BY <1>3 DEF AllocGrow, Record, NoRange
<1>4. CASE AllocUnrecorded(c, m, n)
  <2>1. PICK S \in Grants(c, m, n) : \E i \in DOMAIN Reply(S) : \E j \in 0 .. Reply(S)[i].nr - 1 :
          HandBack(c, m, S, HandedBack(Reply(S), i, j))
    BY <1>4 DEF AllocUnrecorded
  <2>2. PICK E, i, j, X : /\ E = Reply(S) /\ i \in DOMAIN E /\ j \in 0 .. E[i].nr - 1
                          /\ X = Recorded(E, i, j) /\ HandBack(c, m, S, HandedBack(E, i, j))
    BY <2>1
  <2>3. S \subseteq DriverFree(m)
    BY GrantsAreFree
  <2> QED BY <2>2, <2>3, HandsBack
<1> QED BY <1>1, <1>2, <1>3, <1>4 DEF Alloc

LEMMA StepCareful == PInv /\ [Next]_vars => UNCHANGED careless
<1> SUFFICES ASSUME PInv, [Next]_vars  PROVE UNCHANGED careless
  OBVIOUS
<1>1. CASE UNCHANGED vars
  BY <1>1 DEF vars
<1>2. ASSUME NEW c \in Ctx, ZeroFailed(c)
      PROVE  UNCHANGED careless
  <2>1. pc[c] \in Busy /\ cur[c].v \in DOMAIN allocs[c] /\ Discard(c, cur[c].v)
    BY <1>2 DEF ZeroFailed, Busy, PInv, RowOK, ThreadOK
  <2> QED BY <2>1, DiscardCareful
<1>3. ASSUME NEW c \in Ctx, NEW v \in VRange, Free(c, v)
      PROVE  UNCHANGED careless
  <2>1. pc[c] \in Busy /\ v \in DOMAIN allocs[c] /\ Discard(c, v)
    BY <1>3 DEF Free, Busy
  <2> QED BY <2>1, DiscardCareful
<1>4. ASSUME NEW c \in Ctx, \/ Open(c) \/ Zero(c) \/ Write(c) \/ WriteFailed(c) \/ Unmap(c)
                            \/ Fini(c) \/ Exit(c) \/ Closed(c)
                            \/ \E v \in VRange : StartWrite(c, v)
                            \/ \E m \in Region : Reclaim(c, m)
      PROVE  UNCHANGED careless
  BY <1>4 DEF Open, Zero, Write, WriteFailed, Unmap, Fini, Exit, Closed, StartWrite, Reclaim
<1>5. CASE Next
  BY <1>2, <1>3, <1>4, <1>5, AllocCareful, FiniPoolCareful DEF Next
<1> QED BY <1>1, <1>5

(* libpim keeps its side of the driver's bargain: of what it trims, hands   *)
(* back because it could not record it (pim_alloc.c:243-257), or gives up   *)
(* at the end, no FREE names a hugepage that is not the fd's, or one twice, *)
(* however the grants of several contexts are scattered over the card and   *)
(* whichever FREE fails: the extents cover what is named once.  The driver  *)
(* refuses the first and miscounts at the second (pim_chunk.c:205-222).     *)
THEOREM LibpimIsCareful == Spec => []CarefulCaller
<1>1. Init => CarefulCaller
  BY DEF Init, CarefulCaller
<1>2. PInv /\ CarefulCaller /\ [Next]_vars => CarefulCaller'
  BY StepCareful DEF CarefulCaller
<1> QED BY <1>1, <1>2, PoolsInvariant, PTL DEF Spec
==============================================================================
