-------------------------- MODULE PimProgramsProofs ---------------------------
(***************************************************************************)
(* For every geometry, every tensor and every order of calls: the two      *)
(* front ends build the same program; what they build is what the engine   *)
(* accepts and PimEngineProofs relies on; run, it leaves in the result     *)
(* words what its drains were meant to return and nothing in the latches;  *)
(* and it may be cut between its atoms and nowhere else.  A program is     *)
(* followed from the rows of ISRs it is made of (Flat) through lowering    *)
(* (Low), its ISRs are counted by sort (Tally), what the verifier asks of  *)
(* the whole is shown of each piece and kept as pieces are put together,   *)
(* and the machine is followed through it by what each latch has collected *)
(* since its last drain (Since), down to the elements it multiplied.       *)
(***************************************************************************)
EXTENDS PimPrograms, FiniteSetTheorems, SequenceTheorems, WellFoundedInduction, TLAPS

--------------------
(* Induction up to a bound.                                                 *)
LEMMA Counting ==
  ASSUME NEW N \in Nat, NEW G, 0 \in G, \A n \in 0 .. N - 1 : n \in G => n + 1 \in G
  PROVE  \A n \in 0 .. N : n \in G
<1> SUFFICES ASSUME NEW b \in 0 .. N, b \notin G PROVE FALSE
  OBVIOUS
<1> DEFINE Bad == {n \in 0 .. N : n \notin G}
<1>1. Bad \subseteq Nat /\ Bad # {}
  OBVIOUS
<1> HIDE DEF Bad
<1>2. PICK n \in Bad : \A m \in Bad : <<m, n>> \notin OpToRel(<, Nat)
  BY <1>1, NatLessThanWellFounded, WFMin, Zenon
<1>3. \A m \in Bad : ~(m < n)
  BY <1>1, <1>2, Zenon DEF OpToRel
<1>4. n \in 0 .. N /\ n \notin G
  BY <1>2 DEF Bad
<1>5. n - 1 \in 0 .. N - 1 /\ n - 1 \in 0 .. N /\ n - 1 < n /\ (n - 1) + 1 = n
  BY <1>4
<1>6. n - 1 \in G
  BY <1>3, <1>5 DEF Bad
<1>7. (n - 1) + 1 \in G
  BY <1>5, <1>6
<1> QED BY <1>4, <1>5, <1>7

--------------------
(* Sequences one behind the other.                                          *)
Flat(r) == Seqs!FlattenSeq(r)
Joins(r, f) == f = [k \in 0 .. Len(r) |-> IF k = 0 THEN <<>> ELSE f[k - 1] \o r[k]]
Joined(r) == CHOOSE f : Joins(r, f)

(* A recursion on the numbers up to a bound has a solution: here the first  *)
(* k sequences, ...                                                         *)
LEMMA JoinedIs ==
  ASSUME NEW S, NEW r \in Seq(Seq(S))
  PROVE  /\ Joined(r)[0] = <<>>
         /\ \A k \in 1 .. Len(r) : Joined(r)[k] = Joined(r)[k - 1] \o r[k]
         /\ \A k \in 0 .. Len(r) : Joined(r)[k] \in Seq(S)
<1> DEFINE N == Len(r)
           F(n, f) == f = [k \in 0 .. n |-> IF k = 0 THEN <<>> ELSE f[k - 1] \o r[k]]
           G == {n \in 0 .. N : \E f : F(n, f)}
<1>1. N \in Nat /\ \A k \in 1 .. N : r[k] \in Seq(S)
  OBVIOUS
<1>2. 0 \in G
  <2> DEFINE f == [k \in 0 .. 0 |-> <<>>]
  <2>1. F(0, f)
    OBVIOUS
  <2>2. 0 \in 0 .. N
    BY <1>1
  <2> HIDE DEF F
  <2> QED BY <2>1, <2>2
<1>3. ASSUME NEW n \in 0 .. N - 1, n \in G PROVE n + 1 \in G
  <2>1. PICK f : F(n, f)
    BY <1>3
  <2> DEFINE g == [k \in 0 .. n + 1 |-> IF k = 0 THEN <<>> ELSE f[k - 1] \o r[k]]
  <2>2. ASSUME NEW k \in 0 .. n PROVE g[k] = f[k]
    <3>1. f[k] = IF k = 0 THEN <<>> ELSE f[k - 1] \o r[k]
      BY <2>1
    <3> QED BY <3>1
  <2>3. ASSUME NEW k \in 0 .. n + 1 PROVE g[k] = IF k = 0 THEN <<>> ELSE g[k - 1] \o r[k]
    <3>1. k # 0 => k - 1 \in 0 .. n
      OBVIOUS
    <3>2. k # 0 => g[k - 1] = f[k - 1]
      BY <2>2, <3>1
    <3>3. g[k] = IF k = 0 THEN <<>> ELSE f[k - 1] \o r[k]
      OBVIOUS
    <3> HIDE DEF g
    <3> QED BY <3>2, <3>3
  <2>4. F(n + 1, g)
    <3> DEFINE h == [k \in 0 .. n + 1 |-> IF k = 0 THEN <<>> ELSE g[k - 1] \o r[k]]
    <3>1. g = [k \in 0 .. n + 1 |-> g[k]] /\ h = [k \in 0 .. n + 1 |-> h[k]]
      OBVIOUS
    <3>2. \A k \in 0 .. n + 1 : g[k] = h[k]
      BY <2>3
    <3> HIDE DEF g, h
    <3>3. g = h
      BY <3>1, <3>2, Zenon
    <3> QED BY <3>3 DEF h
  <2>5. n + 1 \in 0 .. N
    BY <1>1
  <2> HIDE DEF F
  <2> QED BY <2>4, <2>5
<1>4. N \in G
  <2>1. N \in 0 .. N
    BY <1>1
  <2> HIDE DEF G
  <2>2. \A n \in 0 .. N : n \in G
    BY <1>1, <1>2, <1>3, Counting
  <2> QED BY <2>1, <2>2
<1>5. Joins(r, Joined(r))
  BY <1>4 DEF Joins, Joined
<1> DEFINE j == Joined(r)
<1>6. j = [k \in 0 .. N |-> IF k = 0 THEN <<>> ELSE j[k - 1] \o r[k]]
  BY <1>5 DEF Joins
<1> HIDE DEF j
<1>7. \A k \in 0 .. N : j[k] = IF k = 0 THEN <<>> ELSE j[k - 1] \o r[k]
  BY <1>6
<1> DEFINE H == {k \in 0 .. N : j[k] \in Seq(S)}
<1>8. 0 \in H
  <2>1. 0 \in 0 .. N
    BY <1>1
  <2>2. j[0] = <<>>
    BY <1>7, <2>1
  <2>3. <<>> \in Seq(S)
    BY EmptySeq
  <2> QED BY <2>1, <2>2, <2>3
<1>9. ASSUME NEW k \in 0 .. N - 1, k \in H PROVE k + 1 \in H
  <2>1. k + 1 \in 1 .. N /\ k + 1 \in 0 .. N /\ (k + 1) - 1 = k /\ k + 1 # 0
    BY <1>1
  <2>2. j[k + 1] = j[k] \o r[k + 1]
    BY <1>7, <2>1
  <2>3. r[k + 1] \in Seq(S) /\ j[k] \in Seq(S)
    BY <1>1, <1>9, <2>1
  <2>4. j[k] \o r[k + 1] \in Seq(S)
    BY <2>3, ConcatProperties
  <2> QED BY <2>1, <2>2, <2>4
<1>10. \A k \in 0 .. N : k \in H
  <2> HIDE DEF H
  <2> QED BY <1>1, <1>8, <1>9, Counting
<1>11. \A k \in 1 .. N : k \in 0 .. N /\ k # 0
  BY <1>1
<1>12. 0 \in 0 .. N
  BY <1>1
<1> QED BY <1>7, <1>10, <1>11, <1>12 DEF j

(* ... and two that agree up to a bound agree.                              *)
LEMMA JoinedSame ==
  ASSUME NEW S, NEW r \in Seq(Seq(S)), NEW z \in Seq(Seq(S)), NEW n \in 0 .. Len(r), n <= Len(z),
         \A k \in 1 .. n : z[k] = r[k]
  PROVE  Joined(z)[n] = Joined(r)[n]
<1> DEFINE G == {k \in 0 .. n : Joined(z)[k] = Joined(r)[k]}
<1>1. n \in Nat /\ Len(r) \in Nat /\ Len(z) \in Nat
  OBVIOUS
<1>2. 0 \in G
  <2>1. Joined(z)[0] = <<>>
    BY JoinedIs
  <2>2. Joined(r)[0] = <<>>
    BY JoinedIs
  <2> QED BY <1>1, <2>1, <2>2
<1>3. ASSUME NEW k \in 0 .. n - 1, k \in G PROVE k + 1 \in G
  <2>1. /\ k + 1 \in 1 .. n /\ k + 1 \in 0 .. n /\ (k + 1) - 1 = k
        /\ k + 1 \in 1 .. Len(r) /\ k + 1 \in 1 .. Len(z)
    BY <1>1
  <2>2. Joined(z)[k + 1] = Joined(z)[k] \o z[k + 1]
    BY <2>1, JoinedIs
  <2>3. Joined(r)[k + 1] = Joined(r)[k] \o r[k + 1]
    BY <2>1, JoinedIs
  <2>4. z[k + 1] = r[k + 1] /\ Joined(z)[k] = Joined(r)[k]
    BY <1>3, <2>1
  <2>5. Joined(z)[k + 1] = Joined(r)[k + 1]
    BY <2>2, <2>3, <2>4
  <2> QED BY <2>1, <2>5
<1>4. \A k \in 0 .. n : k \in G
  <2> HIDE DEF G
  <2> QED BY <1>1, <1>2, <1>3, Counting
<1> QED BY <1>1, <1>4

(* That is what FlattenSeq of the community modules is.                     *)
LEMMA FlatIsJoined ==
  ASSUME NEW S, NEW r \in Seq(Seq(S))
  PROVE  Flat(r) = Joined(r)[Len(r)] /\ Flat(r) \in Seq(S)
<1> DEFINE N == Len(r)
           F(f) == f = [i \in 1 .. N |-> IF i = 1 THEN r[i] ELSE f[i - 1] \o r[i]]
<1>0. N \in Nat /\ \A k \in 1 .. N : r[k] \in Seq(S)
  OBVIOUS
<1>1. CASE N = 0
  <2>1. r = <<>>
    BY <1>1, EmptySeq
  <2>2. Flat(r) = r
    BY <1>1 DEF Flat, Seqs!FlattenSeq
  <2>3. Joined(r)[0] = <<>>
    BY JoinedIs
  <2> QED BY <1>1, <2>1, <2>2, <2>3, EmptySeq
<1>2. CASE N # 0
  <2> DEFINE j == Joined(r)
             g == [i \in 1 .. N |-> j[i]]
  <2>1. /\ j[0] = <<>> /\ \A k \in 1 .. N : j[k] = j[k - 1] \o r[k]
        /\ \A k \in 0 .. N : j[k] \in Seq(S)
    BY JoinedIs
  <2> HIDE DEF j
  <2>2. ASSUME NEW i \in 1 .. N PROVE j[i] = IF i = 1 THEN r[i] ELSE g[i - 1] \o r[i]
    <3>1. CASE i = 1
      <4>0. 1 \in 1 .. N /\ 1 - 1 = 0
        BY <1>0, <3>1
      <4>1. j[1] = <<>> \o r[1] /\ r[1] \in Seq(S)
        BY <1>0, <2>1, <4>0
      <4>2. <<>> \o r[1] = r[1]
        BY <4>1, ConcatEmptySeq
      <4> QED BY <3>1, <4>1, <4>2
    <3>2. CASE i # 1
      <4>1. i - 1 \in 1 .. N
        BY <1>0, <3>2
      <4>2. g[i - 1] = j[i - 1]
        BY <4>1
      <4> QED BY <2>1, <3>2, <4>2
    <3> QED BY <3>1, <3>2
  <2>3. g = [i \in 1 .. N |-> IF i = 1 THEN r[i] ELSE g[i - 1] \o r[i]]
    <3> DEFINE h == [i \in 1 .. N |-> IF i = 1 THEN r[i] ELSE g[i - 1] \o r[i]]
    <3>1. \A i \in 1 .. N : g[i] = h[i]
      BY <2>2
    <3>2. g = [i \in 1 .. N |-> g[i]] /\ h = [i \in 1 .. N |-> h[i]]
      OBVIOUS
    <3> HIDE DEF g, h
    <3>3. g = h
      BY <3>1, <3>2, Zenon
    <3> QED BY <3>3 DEF h
  <2> DEFINE f == CHOOSE f : F(f)
  <2>4. F(g)
    BY <2>3
  <2> HIDE DEF F, g
  <2>5. F(f)
    BY <2>4
  <2> HIDE DEF f
  <2>6. \A i \in 1 .. N : f[i] = IF i = 1 THEN r[i] ELSE f[i - 1] \o r[i]
    BY <2>5 DEF F
  <2> DEFINE G == {k \in 0 .. N : k # 0 => f[k] = j[k]}
  <2>7. 0 \in G
    BY <1>0
  <2>8. ASSUME NEW k \in 0 .. N - 1, k \in G PROVE k + 1 \in G
    <3>1. k + 1 \in 1 .. N /\ k + 1 \in 0 .. N /\ (k + 1) - 1 = k
      BY <1>0
    <3>2. f[k + 1] = IF k + 1 = 1 THEN r[k + 1] ELSE f[k] \o r[k + 1]
      BY <2>6, <3>1
    <3>3. j[k + 1] = j[k] \o r[k + 1] /\ r[k + 1] \in Seq(S)
      BY <1>0, <2>1, <3>1
    <3>4. CASE k = 0
      <4>1. j[k + 1] = r[k + 1]
        BY <2>1, <3>3, <3>4, ConcatEmptySeq
      <4> QED BY <3>1, <3>2, <3>4, <4>1
    <3>5. CASE k # 0
      <4>1. f[k] = j[k] /\ k + 1 # 1
        BY <2>8, <3>5
      <4> QED BY <3>1, <3>2, <3>3, <4>1
    <3> QED BY <3>4, <3>5
  <2>9. \A k \in 0 .. N : k \in G
    <3> HIDE DEF G
    <3> QED BY <1>0, <2>7, <2>8, Counting
  <2>10. f[N] = j[N] /\ N \in 0 .. N
    BY <1>0, <1>2, <2>9
  <2>11. Flat(r) = f[N]
    BY <1>2 DEF Flat, Seqs!FlattenSeq, f, F
  <2> QED BY <2>1, <2>10, <2>11 DEF j
<1> QED BY <1>1, <1>2

(* Sequences of sequences put together, ...                                 *)
LEMMA FlatNone == Flat(<<>>) = <<>>
BY DEF Flat, Seqs!FlattenSeq

(* One sequence is itself, ...                                              *)
LEMMA FlatOne ==
  ASSUME NEW S, NEW e \in Seq(S)
  PROVE  Flat(<<e>>) = e
<1>1. <<e>> \in Seq(Seq(S)) /\ Len(<<e>>) = 1 /\ <<e>>[1] = e /\ 1 \in 1 .. Len(<<e>>) /\ 1 - 1 = 0
  OBVIOUS
<1> DEFINE r == <<e>>
<1> HIDE DEF r
<1>2. Joined(r)[0] = <<>> /\ \A k \in 1 .. Len(r) : Joined(r)[k] = Joined(r)[k - 1] \o r[k]
  BY <1>1, JoinedIs DEF r
<1>3. Joined(r)[1] = <<>> \o e
  BY <1>1, <1>2 DEF r
<1>4. <<>> \o e = e
  BY ConcatEmptySeq
<1>5. Flat(r) = Joined(r)[1]
  BY <1>1, FlatIsJoined DEF r
<1> QED BY <1>3, <1>4, <1>5 DEF r

(* ... and two rows of sequences are flattened one behind the other.        *)
LEMMA FlatConcat ==
  ASSUME NEW S, NEW a \in Seq(Seq(S)), NEW b \in Seq(Seq(S))
  PROVE  Flat(a \o b) = Flat(a) \o Flat(b)
<1> DEFINE c == a \o b
           G == {k \in 0 .. Len(b) : Joined(c)[Len(a) + k] = Flat(a) \o Joined(b)[k]}
<1>1. /\ c \in Seq(Seq(S)) /\ Len(c) = Len(a) + Len(b)
      /\ \A i \in 1 .. Len(a) + Len(b) : c[i] = IF i <= Len(a) THEN a[i] ELSE b[i - Len(a)]
  BY ConcatProperties
<1>2. Len(a) \in Nat /\ Len(b) \in Nat
  OBVIOUS
<1> HIDE DEF c
<1>3. \A i \in 1 .. Len(a) : c[i] = a[i]
  BY <1>1, <1>2
<1>4. ASSUME NEW k \in 1 .. Len(b) PROVE c[Len(a) + k] = b[k]
  <2> DEFINE n == Len(a) + k
  <2>1. n \in 1 .. Len(a) + Len(b) /\ ~(n <= Len(a)) /\ n - Len(a) = k
    BY <1>2
  <2> HIDE DEF n
  <2>2. c[n] = b[n - Len(a)]
    BY <1>1, <2>1
  <2> QED BY <2>1, <2>2 DEF n
<1>5. 0 \in G
  <2>1. Joined(c)[Len(a)] = Joined(a)[Len(a)]
    <3>1. Len(a) \in 0 .. Len(a) /\ Len(a) <= Len(c)
      BY <1>1, <1>2
    <3> QED BY <1>1, <1>3, <3>1, JoinedSame
  <2>2. Flat(a) = Joined(a)[Len(a)] /\ Flat(a) \in Seq(S)
    BY FlatIsJoined
  <2>3. Joined(b)[0] = <<>>
    BY JoinedIs
  <2>4. Flat(a) \o <<>> = Flat(a)
    BY <2>2, ConcatEmptySeq
  <2>5. 0 \in 0 .. Len(b) /\ Len(a) + 0 = Len(a)
    BY <1>2
  <2> QED BY <2>1, <2>2, <2>3, <2>4, <2>5
<1>6. ASSUME NEW k \in 0 .. Len(b) - 1, k \in G PROVE k + 1 \in G
  <2>1. /\ k + 1 \in 1 .. Len(b) /\ k + 1 \in 0 .. Len(b) /\ (k + 1) - 1 = k /\ k \in 0 .. Len(b)
        /\ Len(a) + (k + 1) \in 1 .. Len(c) /\ (Len(a) + (k + 1)) - 1 = Len(a) + k
    <3> DEFINE m == Len(a)
               n == Len(b)
    <3>1. m \in Nat /\ n \in Nat /\ Len(c) = m + n
      BY <1>1, <1>2
    <3>2. k \in 0 .. n - 1
      OBVIOUS
    <3> HIDE DEF m, n
    <3>3. /\ k + 1 \in 1 .. n /\ k + 1 \in 0 .. n /\ (k + 1) - 1 = k /\ k \in 0 .. n
          /\ m + (k + 1) \in 1 .. m + n /\ (m + (k + 1)) - 1 = m + k
      BY <3>1, <3>2
    <3> QED BY <3>1, <3>3 DEF m, n
  <2>2. Joined(c)[Len(a) + (k + 1)] = Joined(c)[Len(a) + k] \o c[Len(a) + (k + 1)]
    <3> DEFINE n == Len(a) + (k + 1)
    <3>1. n \in 1 .. Len(c) /\ n - 1 = Len(a) + k
      BY <2>1
    <3> HIDE DEF n
    <3>2. Joined(c)[n] = Joined(c)[n - 1] \o c[n]
      BY <1>1, <3>1, JoinedIs
    <3> QED BY <3>1, <3>2 DEF n
  <2>3. Joined(b)[k + 1] = Joined(b)[k] \o b[k + 1]
    BY <2>1, JoinedIs
  <2>4. Flat(a) \in Seq(S)
    BY FlatIsJoined
  <2>5. Joined(b)[k] \in Seq(S)
    BY <2>1, JoinedIs
  <2>6. b[k + 1] \in Seq(S)
    BY <2>1
  <2>7. c[Len(a) + (k + 1)] = b[k + 1]
    BY <1>4, <2>1
  <2> DEFINE u == Flat(a)
             v == Joined(b)[k]
             w == b[k + 1]
  <2>8. u \in Seq(S) /\ v \in Seq(S) /\ w \in Seq(S)
    BY <2>4, <2>5, <2>6
  <2> HIDE DEF u, v, w
  <2>9. (u \o v) \o w = u \o (v \o w)
    BY <2>8, ConcatAssociative, SMTT(30)
  <2>10. Joined(c)[Len(a) + k] = u \o v
    BY <1>6 DEF u, v
  <2>11. Joined(c)[Len(a) + (k + 1)] = u \o (v \o w)
    BY <2>2, <2>7, <2>9, <2>10 DEF w
  <2>12. Joined(b)[k + 1] = v \o w
    BY <2>3 DEF v, w
  <2> QED BY <2>1, <2>11, <2>12 DEF u
<1>7. \A k \in 0 .. Len(b) : k \in G
  <2> HIDE DEF G
  <2> QED BY <1>2, <1>5, <1>6, Counting
<1>8. Joined(c)[Len(a) + Len(b)] = Flat(a) \o Joined(b)[Len(b)]
  BY <1>2, <1>7
<1>9. Flat(c) = Joined(c)[Len(c)] /\ Flat(b) = Joined(b)[Len(b)]
  BY <1>1, FlatIsJoined
<1> QED BY <1>1, <1>8, <1>9 DEF c

(* ... and what one more of them adds.                                      *)
LEMMA JoinedNext ==
  ASSUME NEW S, NEW r \in Seq(Seq(S)), NEW k \in 0 .. Len(r) - 1
  PROVE  /\ Joined(r)[k] \in Seq(S) /\ r[k + 1] \in Seq(S)
         /\ Joined(r)[k + 1] = Joined(r)[k] \o r[k + 1]
<1>1. k + 1 \in 1 .. Len(r) /\ (k + 1) - 1 = k /\ k \in 0 .. Len(r)
  OBVIOUS
<1> DEFINE n == k + 1
<1> HIDE DEF n
<1>2. n \in 1 .. Len(r) /\ n - 1 = k
  BY <1>1 DEF n
<1>3. Joined(r)[n] = Joined(r)[n - 1] \o r[n]
  BY <1>2, JoinedIs
<1>4. Joined(r)[k] \in Seq(S)
  BY <1>1, JoinedIs
<1>5. r[n] \in Seq(S)
  BY <1>2
<1> QED BY <1>2, <1>3, <1>4, <1>5 DEF n

(* Sequences of one element each are a sequence of the elements.            *)
LEMMA FlatSingles ==
  ASSUME NEW S, NEW r \in Seq(S)
  PROVE  Flat([i \in 1 .. Len(r) |-> <<r[i]>>]) = r
<1> DEFINE z == [i \in 1 .. Len(r) |-> <<r[i]>>]
           G == {k \in 0 .. Len(r) : Joined(z)[k] = SubSeq(r, 1, k)}
<1>1. Len(r) \in Nat /\ \A i \in 1 .. Len(r) : r[i] \in S
  OBVIOUS
<1>2. z \in Seq(Seq(S)) /\ Len(z) = Len(r)
  <2>1. \A i \in 1 .. Len(r) : <<r[i]>> \in Seq(S)
    BY <1>1
  <2> QED BY <1>1, <2>1
<1>3. \A i \in 1 .. Len(r) : z[i] = <<r[i]>>
  OBVIOUS
<1> HIDE DEF z
<1>4. 0 \in G
  <2>1. Joined(z)[0] = <<>>
    BY <1>2, JoinedIs
  <2>2. SubSeq(r, 1, 0) = <<>>
    OBVIOUS
  <2>3. 0 \in 0 .. Len(r)
    BY <1>1
  <2> QED BY <2>1, <2>2, <2>3
<1>5. ASSUME NEW k \in 0 .. Len(r) - 1, k \in G PROVE k + 1 \in G
  <2>1. Joined(z)[k + 1] = Joined(z)[k] \o z[k + 1]
    BY <1>2, <1>5, JoinedNext
  <2>2. k + 1 \in 1 .. Len(r) /\ k \in 0 .. Len(r) /\ k + 1 \in 0 .. Len(r)
    BY <1>1
  <2>3. SubSeq(r, 1, k + 1) = SubSeq(r, 1, k) \o <<r[k + 1]>>
    <3> DEFINE u == SubSeq(r, 1, k)
               w == SubSeq(r, 1, k + 1)
               x == <<r[k + 1]>>
    <3>1. u \in Seq(S) /\ Len(u) = k /\ \A i \in 1 .. k : u[i] = r[i]
      BY <1>1, <2>2
    <3>2. w \in Seq(S) /\ Len(w) = k + 1 /\ \A i \in 1 .. k + 1 : w[i] = r[i]
      BY <1>1, <2>2
    <3>3. x \in Seq(S) /\ Len(x) = 1 /\ x[1] = r[k + 1]
      BY <1>1, <2>2
    <3> HIDE DEF u, w, x
    <3>7. /\ u \o x \in Seq(S) /\ Len(u \o x) = Len(u) + Len(x)
          /\ \A i \in 1 .. Len(u) + Len(x) : (u \o x)[i] = IF i <= Len(u) THEN u[i] ELSE x[i - Len(u)]
      BY <3>1, <3>3, ConcatProperties
    <3>4. /\ u \o x \in Seq(S) /\ Len(u \o x) = k + 1
          /\ \A i \in 1 .. k + 1 : (u \o x)[i] = IF i <= k THEN u[i] ELSE x[i - k]
      BY <3>1, <3>3, <3>7
    <3>5. \A i \in 1 .. k + 1 : (u \o x)[i] = w[i]
      BY <2>2, <3>1, <3>2, <3>3, <3>4
    <3>6. w = u \o x
      BY <3>2, <3>4, <3>5, SeqEqual
    <3> QED BY <3>6 DEF u, w, x
  <2> QED BY <1>3, <1>5, <2>1, <2>2, <2>3
<1>6. \A k \in 0 .. Len(r) : k \in G
  <2> HIDE DEF G
  <2> QED BY <1>1, <1>4, <1>5, Counting
<1>7. Joined(z)[Len(r)] = SubSeq(r, 1, Len(r))
  BY <1>1, <1>6
<1>8. SubSeq(r, 1, Len(r)) = r
  OBVIOUS
<1>9. Flat(z) = Joined(z)[Len(r)]
  BY <1>2, FlatIsJoined
<1> QED BY <1>7, <1>8, <1>9 DEF z

--------------------
(* Lowering piece by piece.                                                 *)
Low(b) == Flat([i \in 1 .. Len(b) |-> Legalise(b[i])])
Lowers(B, T) == \A b \in B : Legalise(b) \in Seq(T)

(* What lowering makes of a program, ISR by ISR.                            *)
LEMMA LowIs ==
  ASSUME NEW B, NEW T, Lowers(B, T), NEW b \in Seq(B)
  PROVE  /\ [i \in 1 .. Len(b) |-> Legalise(b[i])] \in Seq(Seq(T))
         /\ Len([i \in 1 .. Len(b) |-> Legalise(b[i])]) = Len(b)
         /\ Low(b) \in Seq(T)
<1> DEFINE z == [i \in 1 .. Len(b) |-> Legalise(b[i])]
<1>1. Len(b) \in Nat /\ \A i \in 1 .. Len(b) : b[i] \in B
  OBVIOUS
<1>2. \A i \in 1 .. Len(b) : Legalise(b[i]) \in Seq(T)
  BY <1>1 DEF Lowers
<1>3. z \in Seq(Seq(T)) /\ Len(z) = Len(b)
  BY <1>1, <1>2
<1> HIDE DEF z
<1>4. Flat(z) \in Seq(T)
  BY <1>3, FlatIsJoined
<1> QED BY <1>3, <1>4 DEF z, Low

(* Lowering distributes over the concatenation of programs, ...             *)
LEMMA LowConcat ==
  ASSUME NEW B, NEW T, Lowers(B, T), NEW a \in Seq(B), NEW b \in Seq(B)
  PROVE  Low(a \o b) = Low(a) \o Low(b)
<1> DEFINE L(x) == [i \in 1 .. Len(x) |-> Legalise(x[i])]
           c == a \o b
<1>1. /\ c \in Seq(B) /\ Len(c) = Len(a) + Len(b)
      /\ \A i \in 1 .. Len(a) + Len(b) : c[i] = IF i <= Len(a) THEN a[i] ELSE b[i - Len(a)]
  BY ConcatProperties
<1>2. Len(a) \in Nat /\ Len(b) \in Nat
  OBVIOUS
<1> HIDE DEF c
<1>3. L(a) \in Seq(Seq(T)) /\ Len(L(a)) = Len(a)
  BY LowIs
<1>4. L(b) \in Seq(Seq(T)) /\ Len(L(b)) = Len(b)
  BY LowIs
<1>5. L(c) \in Seq(Seq(T)) /\ Len(L(c)) = Len(c)
  BY <1>1, LowIs
<1>6. /\ \A i \in 1 .. Len(a) : L(a)[i] = Legalise(a[i])
      /\ \A i \in 1 .. Len(b) : L(b)[i] = Legalise(b[i])
      /\ \A i \in 1 .. Len(c) : L(c)[i] = Legalise(c[i])
  OBVIOUS
<1> DEFINE x == L(a)
           y == L(b)
           z == L(c)
<1>7. /\ x \in Seq(Seq(T)) /\ Len(x) = Len(a) /\ y \in Seq(Seq(T)) /\ Len(y) = Len(b)
      /\ z \in Seq(Seq(T)) /\ Len(z) = Len(c)
      /\ \A i \in 1 .. Len(a) : x[i] = Legalise(a[i])
      /\ \A i \in 1 .. Len(b) : y[i] = Legalise(b[i])
      /\ \A i \in 1 .. Len(c) : z[i] = Legalise(c[i])
  BY <1>3, <1>4, <1>5, <1>6
<1>8. Low(a) = Flat(x) /\ Low(b) = Flat(y) /\ Low(c) = Flat(z)
  BY DEF Low
<1> HIDE DEF x, y, z, L
<1>13. /\ x \o y \in Seq(Seq(T)) /\ Len(x \o y) = Len(x) + Len(y)
       /\ \A i \in 1 .. Len(x) + Len(y) : (x \o y)[i] = IF i <= Len(x) THEN x[i] ELSE y[i - Len(x)]
  <2>1. x \in Seq(Seq(T)) /\ y \in Seq(Seq(T))
    BY <1>7
  <2> QED BY <2>1, ConcatProperties
<1>9. /\ x \o y \in Seq(Seq(T)) /\ Len(x \o y) = Len(a) + Len(b)
      /\ \A i \in 1 .. Len(x) + Len(y) : (x \o y)[i] = IF i <= Len(x) THEN x[i] ELSE y[i - Len(x)]
  BY <1>7, <1>13
<1>10. ASSUME NEW i \in 1 .. Len(a) + Len(b) PROVE z[i] = (x \o y)[i]
  <2>1. z[i] = Legalise(c[i])
    BY <1>1, <1>7
  <2>2. CASE i <= Len(a)
    <3>1. i \in 1 .. Len(a)
      BY <1>2, <2>2
    <3>2. c[i] = a[i] /\ (x \o y)[i] = x[i] /\ x[i] = Legalise(a[i])
      BY <1>1, <1>7, <1>9, <2>2, <3>1
    <3> QED BY <2>1, <3>2
  <2>3. CASE ~(i <= Len(a))
    <3>1. i - Len(a) \in 1 .. Len(b)
      BY <1>2, <2>3
    <3>2. c[i] = b[i - Len(a)] /\ (x \o y)[i] = y[i - Len(a)]
      BY <1>1, <1>7, <1>9, <2>3
    <3>3. y[i - Len(a)] = Legalise(b[i - Len(a)])
      BY <1>7, <3>1
    <3> QED BY <2>1, <3>2, <3>3
  <2> QED BY <2>2, <2>3
<1>11. z = x \o y
  <2>1. Len(z) = Len(x \o y) /\ \A i \in 1 .. Len(z) : z[i] = (x \o y)[i]
    BY <1>1, <1>7, <1>9, <1>10
  <2> QED BY <1>7, <1>9, <2>1, SeqEqual
<1>12. Flat(x \o y) = Flat(x) \o Flat(y)
  BY <1>7, FlatConcat
<1> QED BY <1>8, <1>11, <1>12 DEF c

(* ... and so over a row of them.                                           *)
LEMMA LowFlat ==
  ASSUME NEW B, NEW T, Lowers(B, T), NEW r \in Seq(Seq(B))
  PROVE  Low(Flat(r)) = Flat([k \in 1 .. Len(r) |-> Low(r[k])])
<1> DEFINE z == [k \in 1 .. Len(r) |-> Low(r[k])]
           G == {k \in 0 .. Len(r) : Low(Joined(r)[k]) = Joined(z)[k]}
<1>1. Len(r) \in Nat /\ \A k \in 1 .. Len(r) : r[k] \in Seq(B)
  OBVIOUS
<1>2. \A k \in 1 .. Len(r) : Low(r[k]) \in Seq(T)
  BY <1>1, LowIs
<1>3. z \in Seq(Seq(T)) /\ Len(z) = Len(r) /\ \A k \in 1 .. Len(r) : z[k] = Low(r[k])
  BY <1>1, <1>2
<1> HIDE DEF z
<1>4. 0 \in G
  <2>1. Joined(z)[0] = <<>>
    BY <1>3, JoinedIs
  <2>2. Joined(r)[0] = <<>>
    BY JoinedIs
  <2>3. Low(<<>>) = <<>>
    <3>1. [i \in 1 .. Len(<<>>) |-> Legalise(<<>>[i])] = <<>>
      OBVIOUS
    <3> QED BY <3>1, FlatNone DEF Low
  <2>4. 0 \in 0 .. Len(r)
    BY <1>1
  <2> QED BY <2>1, <2>2, <2>3, <2>4
<1>5. ASSUME NEW k \in 0 .. Len(r) - 1, k \in G PROVE k + 1 \in G
  <2>1. Joined(z)[k + 1] = Joined(z)[k] \o z[k + 1]
    BY <1>3, JoinedNext
  <2>2. /\ Joined(r)[k] \in Seq(B) /\ r[k + 1] \in Seq(B)
        /\ Joined(r)[k + 1] = Joined(r)[k] \o r[k + 1]
    BY JoinedNext
  <2>3. k + 1 \in 1 .. Len(r) /\ k + 1 \in 0 .. Len(r)
    BY <1>1
  <2>4. Low(Joined(r)[k] \o r[k + 1]) = Low(Joined(r)[k]) \o Low(r[k + 1])
    BY <2>2, LowConcat
  <2>5. Low(Joined(r)[k + 1]) = Low(Joined(r)[k]) \o z[k + 1]
    BY <1>3, <2>2, <2>3, <2>4
  <2>6. Low(Joined(r)[k]) = Joined(z)[k]
    BY <1>5
  <2> QED BY <2>1, <2>3, <2>5, <2>6
<1>6. \A k \in 0 .. Len(r) : k \in G
  <2> HIDE DEF G
  <2> QED BY <1>1, <1>4, <1>5, Counting
<1>7. Low(Joined(r)[Len(r)]) = Joined(z)[Len(r)]
  BY <1>1, <1>6
<1>8. Flat(r) = Joined(r)[Len(r)]
  BY FlatIsJoined
<1>9. Flat(z) = Joined(z)[Len(r)]
  BY <1>3, FlatIsJoined
<1> QED BY <1>7, <1>8, <1>9 DEF z

--------------------
(* What a logical ISR and an ISR are made of.                               *)
Blanks == [op : Ops, sz : Int, col : Int, t : Int, buf : {"mat", "vec", "res", "none"},
           base : Int, index : Int, room : Int, tag : Int]
Finals == {Final(b, c, chans) : b \in Blanks, c \in Int, chans \in SUBSET Int}

(* The ISRs before lowering, and what they become.                          *)
LEMMA BlanksLower == Lowers(Blanks, Finals)
<1> SUFFICES ASSUME NEW b \in Blanks PROVE Legalise(b) \in Seq(Finals)
  BY DEF Lowers
<1>1. Chan \subseteq Int /\ Nch \in Nat
  BY MatvecAssumption, TensorAssumption
<1>2. ASSUME NEW c \in 1 .. Nch PROVE Final(b, c - 1, {c - 1}) \in Finals
  <2>1. c - 1 \in Int /\ {c - 1} \in SUBSET Int
    BY <1>1
  <2> QED BY <2>1 DEF Finals
<1>3. Final(b, 0, Chan) \in Finals
  BY <1>1 DEF Finals
<1> DEFINE d == [c \in 1 .. Nch |-> Final(b, c - 1, {c - 1})]
<1>4. d \in Seq(Finals)
  BY <1>1, <1>2
<1>5. <<Final(b, 0, Chan)>> \in Seq(Finals)
  BY <1>3
<1> QED BY <1>4, <1>5 DEF Legalise

(* A program of one ISR, and of none.                                       *)
LEMMA LowOne ==
  ASSUME NEW b \in Blanks
  PROVE  Low(<<b>>) = Legalise(b)
<1> DEFINE z == [i \in 1 .. Len(<<b>>) |-> Legalise(<<b>>[i])]
<1>1. z = <<Legalise(b)>>
  OBVIOUS
<1>2. Legalise(b) \in Seq(Finals)
  BY BlanksLower DEF Lowers
<1>3. Flat(<<Legalise(b)>>) = Legalise(b)
  BY <1>2, FlatOne
<1> QED BY <1>1, <1>3 DEF Low

LEMMA LowNone == Low(<<>>) = <<>>
<1>1. [i \in 1 .. Len(<<>>) |-> Legalise(<<>>[i])] = <<>>
  OBVIOUS
<1> QED BY <1>1, FlatNone DEF Low

(* pim_lower_isr is that.                                                   *)
LEMMA LowerIsLow ==
  ASSUME NEW logical
  PROVE  Lower(logical) = Low(logical.isr)
<1> DEFINE n == Len(logical.isr)
           f == [i \in 1 .. n |-> Legalise(logical.isr[(i - 1) + 1])]
           g == [i \in 1 .. n |-> Legalise(logical.isr[i])]
<1>1. \A i \in 1 .. n : (i - 1) + 1 = i
  OBVIOUS
<1>2. f = g
  BY <1>1, Zenon
<1>3. Lower(logical) = Flat(f)
  BY DEF Lower, For, Flat
<1>4. Low(logical.isr) = Flat(g)
  BY DEF Low
<1> QED BY <1>2, <1>3, <1>4

--------------------
(* Division with remainder, as the code uses it.                            *)
LEMMA DivMod ==
  ASSUME NEW n \in Nat, NEW d \in Nat \ {0}
  PROVE  n \div d \in Nat /\ n % d \in 0 .. d - 1 /\ n = d * (n \div d) + (n % d)
BY SMT

(* A multiple grows with its factor ...                                    *)
LEMMA Monotone ==
  ASSUME NEW d \in Nat, NEW a \in Nat, NEW b \in Nat, a <= b
  PROVE  d * a <= d * b
<1>1. d * b = d * a + d * (b - a)
  BY SMT
<1>2. b - a \in Nat
  BY SMT
<1>3. \A k \in Nat : d * k >= 0
  BY SMT
<1> QED BY <1>1, <1>2, <1>3, SMT

(* ... and by at least the number it is a multiple of.                     *)
LEMMA NextMultiple ==
  ASSUME NEW d \in Nat, NEW a \in Nat, NEW b \in Nat, a + 1 <= b
  PROVE  d * a + d <= d * b
<1>1. d * b = d * a + d + d * (b - a - 1)
  BY SMT
<1>2. b - a - 1 \in Nat
  BY SMT
<1>3. \A k \in Nat : d * k >= 0
  BY SMT
<1> QED BY <1>1, <1>2, <1>3, SMT

(* Quotient and remainder are unique ...                                    *)
LEMMA DivUnique ==
  ASSUME NEW d \in Nat \ {0}, NEW q \in Nat, NEW r \in 0 .. d - 1,
         NEW p \in Nat, NEW u \in 0 .. d - 1, d * q + r = d * p + u
  PROVE  q = p /\ r = u
<1>1. ~ (q + 1 <= p)
  BY NextMultiple, SMT
<1>2. ~ (p + 1 <= q)
  BY NextMultiple, SMT
<1>3. q = p
  BY <1>1, <1>2, SMT
<1> QED BY <1>3, SMT

(* ... so a number built from them is taken apart into them again.          *)
LEMMA DivOfSum ==
  ASSUME NEW d \in Nat \ {0}, NEW q \in Nat, NEW r \in 0 .. d - 1
  PROVE  (d * q + r) \div d = q /\ (d * q + r) % d = r
<1> DEFINE n == d * q + r
<1>1. n \in Nat
  BY SMT
<1>2. n \div d \in Nat /\ n % d \in 0 .. d - 1 /\ n = d * (n \div d) + (n % d)
  BY <1>1, DivMod
<1> HIDE DEF n
<1>3. d * q + r = d * (n \div d) + (n % d)
  BY <1>2 DEF n
<1>4. n \div d = q /\ n % d = r
  BY <1>2, <1>3, DivUnique
<1> QED BY <1>4 DEF n

(* Sizes multiplied are sizes, ...                                         *)
LEMMA ProductNat ==
  ASSUME NEW a \in Nat, NEW b \in Nat
  PROVE  a * b \in Nat
BY SMT

(* ... and positive ones stay positive.                                    *)
LEMMA ProductPositive ==
  ASSUME NEW a \in Nat \ {0}, NEW b \in Nat \ {0}
  PROVE  a * b \in Nat \ {0}
BY SMT

(* A quotient is below what the dividend stays below a multiple of.         *)
LEMMA DivBelow ==
  ASSUME NEW n \in Nat, NEW d \in Nat \ {0}, NEW k \in Nat, n < d * k
  PROVE  n \div d \in 0 .. k - 1
<1>1. n \div d \in Nat /\ n % d \in 0 .. d - 1 /\ n = d * (n \div d) + (n % d)
  BY DivMod
<1>2. CASE k <= n \div d
  <2>1. CASE k = n \div d
    BY <1>1, <2>1, SMT
  <2>2. CASE k + 1 <= n \div d
    <3>1. d * k + d <= d * (n \div d)
      BY <1>1, <2>2, NextMultiple
    <3>2. d * k \in Nat /\ d * (n \div d) \in Nat
      BY <1>1, ProductNat
    <3> QED BY <1>1, <3>1, <3>2, SMT
  <2> QED BY <1>1, <1>2, <2>1, <2>2, SMT
<1> QED BY <1>1, <1>2, SMT

(* Dividing rounds down, so it keeps the order.                             *)
LEMMA DivMonotone ==
  ASSUME NEW d \in Nat \ {0}, NEW a \in Nat, NEW b \in Nat, a <= b
  PROVE  a \div d <= b \div d
<1>1. a \div d \in Nat /\ a % d \in 0 .. d - 1 /\ a = d * (a \div d) + (a % d)
  BY DivMod
<1>2. b \div d \in Nat /\ b % d \in 0 .. d - 1 /\ b = d * (b \div d) + (b % d)
  BY DivMod
<1>3. CASE b \div d + 1 <= a \div d
  <2>1. d * (b \div d) + d <= d * (a \div d)
    BY <1>1, <1>2, <1>3, NextMultiple
  <2>2. d * (b \div d) \in Nat /\ d * (a \div d) \in Nat
    BY <1>1, <1>2, ProductNat
  <2> QED BY <1>1, <1>2, <2>1, <2>2, SMT
<1> QED BY <1>1, <1>2, <1>3, SMT

(* Rounding up reaches the number and stays within d of it.                 *)
LEMMA Ceil ==
  ASSUME NEW n \in Nat, NEW d \in Nat \ {0}
  PROVE  /\ CeilDiv(n, d) \in Nat
         /\ d * CeilDiv(n, d) \in Nat
         /\ n <= d * CeilDiv(n, d)
         /\ d * CeilDiv(n, d) <= n + d - 1
         /\ RoundUp(n, d) = d * CeilDiv(n, d)
<1> DEFINE q == (n + d - 1) \div d
           r == (n + d - 1) % d
<1>1. n + d - 1 \in Nat
  BY SMT
<1>2. q \in Nat /\ r \in 0 .. d - 1 /\ n + d - 1 = d * q + r
  BY <1>1, DivMod
<1>3. CeilDiv(n, d) = q
  BY DEF CeilDiv
<1> HIDE DEF q, r
<1>4. d * q \in Nat /\ q * d = d * q
  BY <1>2, ProductNat, SMT
<1> QED BY <1>2, <1>3, <1>4, SMT DEF RoundUp

--------------------
(* A slice of the reduction, in beats.                                      *)
RowBeats == Epr \div Epb
Lo(off) == off \div Epb
Hi(off, len) == CeilDiv(off + len, Epb)
First(off, i) == Most((Lo(off) \div RowBeats + i) * RowBeats, Lo(off))
Past(off, len, i) == Least((Lo(off) \div RowBeats + i + 1) * RowBeats, Hi(off, len))

(* The sizes the divisions are by.                                          *)
LEMMA BeatSizes ==
  /\ Epb \in Nat \ {0} /\ Epr \in Nat \ {0} /\ RowBeats \in Nat \ {0} /\ Epr = Epb * RowBeats
  /\ Nch \in Nat \ {0} /\ Nbank \in Nat \ {0}
<1>1. Epr \div Epb \in Nat /\ Epr = Epb * (Epr \div Epb) + (Epr % Epb)
  BY TensorAssumption, DivMod
<1>2. Epr \div Epb # 0
  BY <1>1, TensorAssumption, SMT
<1> QED BY <1>1, <1>2, TensorAssumption, SMT DEF RowBeats

(* The row of beat n is where its first element lies, and its last.         *)
LEMMA RowOfBeat ==
  ASSUME NEW n \in Nat
  PROVE  (Epb * n) \div Epr = n \div RowBeats /\ (Epb * n + (Epb - 1)) \div Epr = n \div RowBeats
<1> DEFINE q == n \div RowBeats
           r == n % RowBeats
<1>1. q \in Nat /\ r \in 0 .. RowBeats - 1 /\ n = RowBeats * q + r
  BY BeatSizes, DivMod
<1> HIDE DEF q, r
<1>2. Epb * n = Epr * q + Epb * r
  <2>1. Epb * (RowBeats * q + r) = (Epb * RowBeats) * q + Epb * r
    BY <1>1, BeatSizes, SMT
  <2> QED BY <1>1, <2>1, BeatSizes
<1>3. Epb * r \in Nat /\ Epb * r + Epb <= Epr
  <2>1. Epb * r + Epb <= Epb * RowBeats
    BY <1>1, BeatSizes, NextMultiple, SMT
  <2>2. Epb * r \in Nat
    BY <1>1, BeatSizes, ProductNat
  <2> QED BY <2>1, <2>2, BeatSizes
<1>4. Epb * r \in 0 .. Epr - 1 /\ Epb * r + (Epb - 1) \in 0 .. Epr - 1
  BY <1>3, BeatSizes
<1>5. (Epr * q + Epb * r) \div Epr = q
  BY <1>1, <1>4, BeatSizes, DivOfSum
<1>6. (Epr * q + (Epb * r + (Epb - 1))) \div Epr = q
  BY <1>1, <1>4, BeatSizes, DivOfSum
<1>7. Epb * n + (Epb - 1) = Epr * q + (Epb * r + (Epb - 1))
  <2>1. Epr * q \in Nat
    BY <1>1, BeatSizes, ProductNat
  <2> QED BY <1>2, <1>3, <2>1, BeatSizes
<1> QED BY <1>2, <1>5, <1>6, <1>7 DEF q

(* A slice of the reduction, counted in beats: where it begins and ends, and*)
(* how many chunks it touches.                                              *)
LEMMA SliceIs ==
  ASSUME NEW off \in Nat, NEW len \in Nat \ {0}
  PROVE  /\ SliceLo(off) = Epb * Lo(off) /\ SliceHi(off, len) = Epb * Hi(off, len)
         /\ Lo(off) \in Nat /\ Hi(off, len) \in Nat /\ Lo(off) < Hi(off, len)
         /\ Beats(off, len) = Hi(off, len) - Lo(off)
         /\ SliceLo(off) \div Epr = Lo(off) \div RowBeats
         /\ SliceChunks(off, len) = (Hi(off, len) - 1) \div RowBeats - Lo(off) \div RowBeats + 1
         /\ SliceChunks(off, len) \in Nat \ {0}
<1> DEFINE l == Lo(off)
           h == Hi(off, len)
<1>1. l \in Nat /\ off % Epb \in 0 .. Epb - 1 /\ off = Epb * l + (off % Epb)
  BY BeatSizes, DivMod DEF Lo
<1>2. /\ h \in Nat /\ Epb * h \in Nat /\ off + len <= Epb * h
      /\ RoundUp(off + len, Epb) = Epb * h
  <2>1. off + len \in Nat /\ Epb \in Nat \ {0}
    BY BeatSizes
  <2> DEFINE n == off + len
  <2> HIDE DEF n
  <2>2. /\ CeilDiv(n, Epb) \in Nat /\ Epb * CeilDiv(n, Epb) \in Nat /\ n <= Epb * CeilDiv(n, Epb)
        /\ RoundUp(n, Epb) = Epb * CeilDiv(n, Epb)
    BY <2>1, Ceil DEF n
  <2> QED BY <2>2 DEF Hi, n
<1>3. SliceLo(off) = Epb * l /\ SliceHi(off, len) = Epb * h
  <2>1. l * Epb = Epb * l
    BY <1>1, BeatSizes
  <2>2. SliceLo(off) = l * Epb
    BY DEF SliceLo, Lo
  <2> QED BY <1>2, <2>1, <2>2 DEF SliceHi
<1> HIDE DEF l, h
<1>4. l < h
  <2> SUFFICES ASSUME h <= l PROVE FALSE
    BY <1>1, <1>2
  <2>1. Epb * h <= Epb * l
    BY <1>1, <1>2, BeatSizes, Monotone
  <2>2. Epb * l \in Nat
    BY <1>1, BeatSizes, ProductNat
  <2> QED BY <1>1, <1>2, <2>1, <2>2, BeatSizes
<1>5. Beats(off, len) = h - l
  <2>1. Epb * h - Epb * l = Epb * (h - l) + 0
    BY <1>1, <1>2, BeatSizes
  <2>2. h - l \in Nat /\ 0 \in 0 .. Epb - 1
    BY <1>1, <1>2, <1>4, BeatSizes
  <2>3. (Epb * (h - l) + 0) \div Epb = h - l
    BY <2>2, BeatSizes, DivOfSum
  <2> QED BY <1>3, <2>1, <2>3 DEF Beats
<1>6. SliceLo(off) \div Epr = l \div RowBeats
  BY <1>1, <1>3, RowOfBeat
<1>7. (SliceHi(off, len) - 1) \div Epr = (h - 1) \div RowBeats
  <2>1. h - 1 \in Nat /\ Epb * h - 1 = Epb * (h - 1) + (Epb - 1)
    BY <1>1, <1>2, <1>4, BeatSizes
  <2> QED BY <1>3, <2>1, RowOfBeat
<1>8. SliceChunks(off, len) = (h - 1) \div RowBeats - l \div RowBeats + 1
  BY <1>6, <1>7 DEF SliceChunks
<1>9. l \div RowBeats <= (h - 1) \div RowBeats /\ l \div RowBeats \in Nat /\ (h - 1) \div RowBeats \in Nat
  <2>1. h - 1 \in Nat /\ l <= h - 1
    BY <1>1, <1>2, <1>4
  <2>2. l \div RowBeats <= (h - 1) \div RowBeats
    BY <1>1, <2>1, BeatSizes, DivMonotone
  <2>3. l \div RowBeats \in Nat /\ (h - 1) \div RowBeats \in Nat
    BY <1>1, <2>1, BeatSizes, DivMod
  <2> QED BY <2>2, <2>3
<1>10. SliceChunks(off, len) \in Nat \ {0}
  BY <1>8, <1>9
<1> QED BY <1>1, <1>2, <1>3, <1>4, <1>5, <1>6, <1>8, <1>10 DEF l, h

(* The chunks of a slice lie behind each other, each within a row.          *)
LEMMA ChunkIs ==
  ASSUME NEW off \in Nat, NEW len \in Nat \ {0}, NEW i \in 0 .. SliceChunks(off, len) - 1
  PROVE  /\ First(off, i) \in Nat /\ Past(off, len, i) \in Nat
         /\ Lo(off) <= First(off, i) /\ First(off, i) < Past(off, len, i)
         /\ Past(off, len, i) <= Hi(off, len) /\ Past(off, len, i) - First(off, i) <= RowBeats
         /\ i = 0 => First(off, i) = Lo(off)
         /\ i # 0 => First(off, i) = RowBeats * (Lo(off) \div RowBeats + i)
         /\ i # SliceChunks(off, len) - 1 =>
              Past(off, len, i) = First(off, i + 1) /\ Past(off, len, i) = RowBeats * (Lo(off) \div RowBeats + i + 1)
         /\ i = SliceChunks(off, len) - 1 => Past(off, len, i) = Hi(off, len)
         /\ Lo(off) \div RowBeats + i <= (Hi(off, len) - 1) \div RowBeats
<1> DEFINE l == Lo(off)
           h == Hi(off, len)
           q == l \div RowBeats
           c == (h - 1) \div RowBeats
           n == SliceChunks(off, len)
<1>1. l \in Nat /\ h \in Nat /\ l < h /\ h - 1 \in Nat /\ n = c - q + 1
  <2>1. l \in Nat /\ h \in Nat /\ l < h /\ n = c - q + 1
    BY SliceIs
  <2> HIDE DEF l, h, n, c, q
  <2>2. h - 1 \in Nat
    BY <2>1
  <2> QED BY <2>1, <2>2
<1>2. First(off, i) = Most((q + i) * RowBeats, l) /\ First(off, i + 1) = Most((q + (i + 1)) * RowBeats, l)
  BY DEF First
<1>3. Past(off, len, i) = Least((q + i + 1) * RowBeats, h)
  BY DEF Past
<1> HIDE DEF l, h
<1>4. q \in Nat /\ l % RowBeats \in 0 .. RowBeats - 1 /\ l = RowBeats * q + (l % RowBeats)
  BY <1>1, BeatSizes, DivMod
<1>5. c \in Nat /\ (h - 1) % RowBeats \in 0 .. RowBeats - 1 /\ h - 1 = RowBeats * c + ((h - 1) % RowBeats)
  BY <1>1, BeatSizes, DivMod
<1> HIDE DEF q, c, n
<1>6. i \in 0 .. n - 1
  BY DEF n
<1>7. i \in Nat /\ q + i <= c /\ q + i \in Nat /\ q + i + 1 \in Nat
  BY <1>1, <1>4, <1>5, <1>6
<1> DEFINE R == RowBeats
           p == q + i
<1>8. R \in Nat \ {0} /\ p \in Nat /\ p <= c
  BY <1>7, BeatSizes
<1>9. /\ (q + i) * RowBeats = R * p /\ (q + i + 1) * RowBeats = R * p + R
      /\ (q + (i + 1)) * RowBeats = R * p + R /\ R * p \in Nat /\ R * (p + 1) = R * p + R
  BY <1>4, <1>7, <1>8
<1>10. R * q <= l /\ l < R * q + R /\ R * q \in Nat
  BY <1>4, <1>8
<1>11. R * c < h /\ h <= R * c + R /\ R * c \in Nat
  BY <1>1, <1>5, <1>8
<1>12. R * p <= R * c
  BY <1>5, <1>8, Monotone
<1>13. i # 0 => R * q + R <= R * p
  <2>1. i # 0 => q + 1 <= p
    BY <1>4, <1>7
  <2> QED BY <1>4, <1>8, <2>1, NextMultiple
<1>14. i = 0 => R * p = R * q
  BY <1>4, <1>7
<1>15. i # n - 1 => p + 1 <= c /\ R * p + R <= R * c
  <2>1. i # n - 1 => p + 1 <= c
    BY <1>1, <1>4, <1>5, <1>6
  <2> QED BY <1>5, <1>8, <2>1, NextMultiple
<1>16. i = n - 1 => R * p = R * c
  <2>1. i = n - 1 => p = c
    BY <1>1, <1>4, <1>5, <1>6
  <2> QED BY <2>1
<1> DEFINE x == First(off, i)
           y == Past(off, len, i)
           z == First(off, i + 1)
           rp == R * p
           rc == R * c
           rq == R * q
<1>17. /\ x = IF rp >= l THEN rp ELSE l
       /\ z = IF rp + R >= l THEN rp + R ELSE l
       /\ y = IF rp + R <= h THEN rp + R ELSE h
  BY <1>2, <1>3, <1>9 DEF Most, Least
<1>18. RowBeats * (q + i) = rp /\ RowBeats * (q + i + 1) = rp + R
  BY <1>4, <1>7, <1>9, BeatSizes
<1> HIDE DEF x, y, z, p
<1>19. /\ rp \in Nat /\ rc \in Nat /\ rq \in Nat /\ rq <= l /\ l < rq + R /\ rc < h /\ h <= rc + R /\ rp <= rc
       /\ i # 0 => rq + R <= rp
       /\ i = 0 => rp = rq
       /\ i # n - 1 => rp + R <= rc
       /\ i = n - 1 => rp = rc
  BY <1>9, <1>10, <1>11, <1>12, <1>13, <1>14, <1>15, <1>16
<1> HIDE DEF rp, rc, rq
<1>20. R \in Nat \ {0}
  BY <1>8
<1> HIDE DEF R
<1>21. x \in Nat /\ y \in Nat /\ l <= x /\ x < y /\ y <= h /\ y - x <= R
  BY <1>1, <1>17, <1>19, <1>20, <1>6
<1>22. (i = 0 => x = l) /\ (i # 0 => x = rp)
  BY <1>1, <1>17, <1>19, <1>20, <1>6
<1>23. i # n - 1 => y = z /\ y = rp + R
  BY <1>1, <1>17, <1>19, <1>20, <1>6
<1>24. i = n - 1 => y = h
  BY <1>1, <1>17, <1>19, <1>20, <1>6
<1>25. q + i <= c
  BY <1>7
<1> QED BY <1>18, <1>21, <1>22, <1>23, <1>24, <1>25 DEF x, y, z, R, l, h, q, c, n

(* The part of a slice in its i-th chunk.                                   *)
LEMMA PartIs ==
  ASSUME NEW off \in Nat, NEW len \in Nat \ {0}, NEW i \in 0 .. SliceChunks(off, len) - 1
  PROVE  /\ SliceBeg(off, i) = Epb * First(off, i)
         /\ SlicePart(off, len, i).beats = Past(off, len, i) - First(off, i)
         /\ SlicePart(off, len, i).chunk = Lo(off) \div RowBeats + i
<1> DEFINE l == Lo(off)
           h == Hi(off, len)
           q == l \div RowBeats
           f == First(off, i)
           e == Past(off, len, i)
<1>1. /\ l \in Nat /\ h \in Nat /\ l < h
      /\ SliceLo(off) = Epb * l /\ SliceHi(off, len) = Epb * h /\ SliceLo(off) \div Epr = q
      /\ SliceChunks(off, len) \in Nat
  BY SliceIs
<1>2. f = Most((q + i) * RowBeats, l) /\ e = Least((q + i + 1) * RowBeats, h)
  BY DEF First, Past
<1>3. f \in Nat /\ e \in Nat /\ f < e
  BY ChunkIs
<1> HIDE DEF l, h, f, e
<1>4. q \in Nat
  BY <1>1, BeatSizes, DivMod
<1> HIDE DEF q
<1>5. i \in Nat
  BY <1>1
<1> DEFINE a == (q + i) * RowBeats
           b == (q + i + 1) * RowBeats
<1>6. a \in Nat /\ b \in Nat /\ (q + i) * Epr = Epb * a /\ (q + i + 1) * Epr = Epb * b
  <2>1. q + i \in Nat /\ q + i + 1 \in Nat
    BY <1>4, <1>5
  <2>2. \A k \in Nat : k * (Epb * RowBeats) = Epb * (k * RowBeats) /\ k * RowBeats \in Nat
    BY BeatSizes
  <2> QED BY <2>1, <2>2, BeatSizes
<1> HIDE DEF a, b
<1>7. SliceBeg(off, i) = Most(Epb * a, Epb * l)
  BY <1>1, <1>6 DEF SliceBeg
<1>8. \A u, v \in Nat : u <= v => Epb * u <= Epb * v
  BY BeatSizes, Monotone
<1>9. \A u \in Nat : Epb * u \in Nat
  BY BeatSizes
<1>10. Most(Epb * a, Epb * l) = Epb * Most(a, l)
  BY <1>1, <1>6, <1>8, <1>9 DEF Most
<1>11. Least(Epb * b, Epb * h) = Epb * Least(b, h)
  BY <1>1, <1>6, <1>8, <1>9 DEF Least
<1>12. f = Most(a, l) /\ e = Least(b, h)
  BY <1>2 DEF a, b
<1>13. SliceBeg(off, i) = Epb * f
  BY <1>7, <1>10, <1>12
<1>14. SlicePart(off, len, i).beats = (Epb * e - Epb * f) \div Epb
  <2>1. Least((q + i + 1) * Epr, SliceHi(off, len)) = Epb * e
    BY <1>1, <1>6, <1>11, <1>12
  <2>2. SlicePart(off, len, i).beats = (Least((SliceLo(off) \div Epr + i + 1) * Epr, SliceHi(off, len)) - SliceBeg(off, i)) \div Epb
    BY DEF SlicePart
  <2> QED BY <1>1, <1>13, <2>1, <2>2
<1>15. Epb * e - Epb * f = Epb * (e - f) + 0 /\ e - f \in Nat /\ 0 \in 0 .. Epb - 1
  BY <1>3, BeatSizes
<1>16. (Epb * (e - f) + 0) \div Epb = e - f
  BY <1>15, BeatSizes, DivOfSum
<1>17. SlicePart(off, len, i).chunk = q + i
  BY <1>1 DEF SlicePart
<1> QED BY <1>13, <1>14, <1>15, <1>16, <1>17 DEF f, e, q, l

(* Where a chunk's part of the vector starts.                               *)
LEMMA VecWordIs ==
  ASSUME NEW off \in Nat, NEW len \in Nat \ {0}, NEW i \in 0 .. SliceChunks(off, len) - 1
  PROVE  SliceVecWord(off, len, i) = First(off, i) - Lo(off)
<1> DEFINE l == Lo(off)
           F(f) == f = [j \in 0 .. i |-> IF j = 0 THEN 0 ELSE f[j - 1] + SlicePart(off, len, j - 1).beats]
           g == [j \in 0 .. i |-> First(off, j) - l]
<1>1. SliceChunks(off, len) \in Nat /\ l \in Nat
  BY SliceIs
<1>2. i \in Nat /\ \A j \in 0 .. i : j \in 0 .. SliceChunks(off, len) - 1
  BY <1>1
<1>3. ASSUME NEW j \in 0 .. i, j # 0
      PROVE  First(off, j) - l = (First(off, j - 1) - l) + SlicePart(off, len, j - 1).beats
  <2>1. /\ j - 1 \in 0 .. SliceChunks(off, len) - 1 /\ j - 1 # SliceChunks(off, len) - 1
        /\ j \in 0 .. SliceChunks(off, len) - 1 /\ (j - 1) + 1 = j
    BY <1>1, <1>2, <1>3
  <2> DEFINE k == j - 1
  <2> HIDE DEF k
  <2>2. k \in 0 .. SliceChunks(off, len) - 1 /\ k # SliceChunks(off, len) - 1 /\ k + 1 = j
    BY <2>1 DEF k
  <2>3. SlicePart(off, len, k).beats = Past(off, len, k) - First(off, k)
    BY <2>2, PartIs
  <2>4. Past(off, len, k) = First(off, k + 1) /\ First(off, k) \in Nat /\ Past(off, len, k) \in Nat
    BY <2>2, ChunkIs
  <2>5. First(off, j) \in Nat
    BY <2>1, ChunkIs
  <2>6. First(off, j) - l = (First(off, k) - l) + SlicePart(off, len, k).beats
    BY <1>1, <2>2, <2>3, <2>4, <2>5
  <2> QED BY <2>6 DEF k
<1>4. First(off, 0) = l
  <2>1. 0 \in 0 .. SliceChunks(off, len) - 1
    BY <1>2
  <2> QED BY <2>1, ChunkIs
<1>5. F(g)
  <2> DEFINE h == [j \in 0 .. i |-> IF j = 0 THEN 0 ELSE g[j - 1] + SlicePart(off, len, j - 1).beats]
  <2>1. ASSUME NEW j \in 0 .. i PROVE g[j] = h[j]
    <3>1. CASE j = 0
      <4>1. g[0] = l - l
        BY <1>2, <1>4
      <4> QED BY <1>1, <3>1, <4>1
    <3>2. CASE j # 0
      <4>1. j - 1 \in 0 .. i
        BY <1>2, <3>2
      <4>2. g[j - 1] = First(off, j - 1) - l /\ g[j] = First(off, j) - l
        BY <4>1
      <4>3. h[j] = g[j - 1] + SlicePart(off, len, j - 1).beats
        BY <3>2
      <4> HIDE DEF g, h
      <4> QED BY <1>3, <3>2, <4>2, <4>3
    <3> QED BY <3>1, <3>2
  <2>2. g = [j \in 0 .. i |-> g[j]] /\ h = [j \in 0 .. i |-> h[j]]
    OBVIOUS
  <2> HIDE DEF g, h
  <2>3. g = h
    BY <2>1, <2>2, Zenon
  <2> QED BY <2>3 DEF h
<1> DEFINE f == CHOOSE f : F(f)
<1> HIDE DEF F, g
<1>6. F(f)
  BY <1>5
<1>7. SliceVecWord(off, len, i) = f[i]
  BY DEF SliceVecWord, f, F
<1> HIDE DEF f
<1>8. \A j \in 0 .. i : f[j] = IF j = 0 THEN 0 ELSE f[j - 1] + SlicePart(off, len, j - 1).beats
  BY <1>6 DEF F
<1> DEFINE G == {j \in 0 .. i : f[j] = First(off, j) - l}
<1>9. 0 \in G
  <2>1. 0 \in 0 .. i
    BY <1>2
  <2>2. f[0] = 0
    BY <1>8, <2>1
  <2>3. 0 = l - l
    BY <1>1
  <2> QED BY <1>4, <2>1, <2>2, <2>3
<1>10. ASSUME NEW j \in 0 .. i - 1, j \in G PROVE j + 1 \in G
  <2>1. j + 1 \in 0 .. i /\ j + 1 # 0 /\ (j + 1) - 1 = j
    BY <1>2
  <2> DEFINE k == j + 1
  <2> HIDE DEF k
  <2>2. k \in 0 .. i /\ k # 0 /\ k - 1 = j
    BY <2>1 DEF k
  <2>3. First(off, k) - l = (First(off, k - 1) - l) + SlicePart(off, len, k - 1).beats
    BY <1>3, <2>2
  <2>4. f[k] = f[k - 1] + SlicePart(off, len, k - 1).beats
    BY <1>8, <2>2
  <2>5. f[j] = First(off, j) - l
    BY <1>10
  <2>6. f[k] = First(off, k) - l
    BY <2>2, <2>3, <2>4, <2>5
  <2> QED BY <2>2, <2>6 DEF k
<1>11. \A j \in 0 .. i : j \in G
  <2> HIDE DEF G, l
  <2> QED BY <1>2, <1>9, <1>10, Counting
<1>12. i \in 0 .. i
  BY <1>2
<1> QED BY <1>7, <1>11, <1>12

--------------------
(* A planned tensor.                                                        *)
Planned(m) ==
  m.nout \in Nat \ {0} /\ m.nred \in Nat \ {0} /\ m = Plan(m.layout, m.nout, m.nred)

(* The sizes pim_tensor_plan settles, and the whole reduction as a slice of *)
(* itself.                                                                  *)
LEMMA PlannedSizes ==
  ASSUME NEW m, Planned(m)
  PROVE  /\ m.nred \in Nat \ {0} /\ m.nout \in Nat \ {0}
         /\ m.ngroups \in Nat \ {0} /\ m.nchunks \in Nat \ {0}
         /\ m.nredpad = Epb * Hi(0, m.nred) /\ m.nredpad \div Epb = Hi(0, m.nred)
         /\ SliceHi(0, m.nred) = m.nredpad /\ SliceChunks(0, m.nred) = m.nchunks
         /\ Lo(0) = 0 /\ m.nredpad \in Nat \ {0}
         /\ m.nchunks = (m.nredpad - 1) \div Epr + 1
<1>1. /\ m.nout \in Nat \ {0} /\ m.nred \in Nat \ {0}
      /\ m.nredpad = RoundUp(m.nred, Epb) /\ m.ngroups = CeilDiv(m.nout, PerGroup)
      /\ m.nchunks = CeilDiv(RoundUp(m.nred, Epb), Epr)
  BY DEF Planned, Plan
<1> DEFINE k == m.nred
           h == Hi(0, k)
<1> HIDE DEF k
<1>2. k \in Nat \ {0} /\ 0 \in Nat
  BY <1>1 DEF k
<1>3. /\ SliceLo(0) = Epb * Lo(0) /\ SliceHi(0, k) = Epb * h /\ Lo(0) \in Nat /\ h \in Nat /\ Lo(0) < h
      /\ SliceLo(0) \div Epr = Lo(0) \div RowBeats
  BY <1>2, SliceIs
<1>4. Lo(0) = 0
  <2>1. (Epb * 0 + 0) \div Epb = 0
    BY BeatSizes, DivOfSum
  <2>2. Epb * 0 + 0 = 0
    BY BeatSizes
  <2> QED BY <2>1, <2>2 DEF Lo
<1> HIDE DEF h
<1>5. m.nredpad = Epb * h
  BY <1>1, <1>2, <1>3 DEF SliceHi, k
<1>6. (Epb * h + 0) \div Epb = h
  BY <1>3, BeatSizes, DivOfSum
<1>7. Epb * h \in Nat \ {0} /\ Epb * h + 0 = Epb * h
  BY <1>3, <1>4, BeatSizes, ProductPositive
<1> DEFINE w == Epb * h - 1
           a == w \div Epr
<1>8. w \in Nat /\ Epb * h = w + 1
  BY <1>7
<1> HIDE DEF w
<1>9. a \in Nat /\ w % Epr \in 0 .. Epr - 1 /\ w = Epr * a + (w % Epr)
  BY <1>8, BeatSizes, DivMod
<1> HIDE DEF a
<1>10. m.nchunks = a + 1
  <2>1. (Epr * (a + 1) + (w % Epr)) \div Epr = a + 1
    BY <1>9, BeatSizes, DivOfSum
  <2>2. Epb * h + Epr - 1 = Epr * (a + 1) + (w % Epr)
    <3>1. Epr * (a + 1) = Epr * a + Epr /\ Epr * a \in Nat
      BY <1>9, BeatSizes
    <3> QED BY <1>8, <1>9, <3>1, BeatSizes
  <2>3. m.nchunks = CeilDiv(Epb * h, Epr)
    BY <1>1, <1>5
  <2> QED BY <2>1, <2>2, <2>3 DEF CeilDiv
<1>11. SliceChunks(0, k) = a + 1
  <2>1. 0 \div RowBeats = 0
    <3>1. (RowBeats * 0 + 0) \div RowBeats = 0
      BY BeatSizes, DivOfSum
    <3>2. RowBeats * 0 + 0 = 0
      BY BeatSizes
    <3> QED BY <3>1, <3>2
  <2>2. SliceChunks(0, k) = (Epb * h - 1) \div Epr - 0 + 1
    BY <1>3, <1>4, <2>1 DEF SliceChunks
  <2>3. (Epb * h - 1) \div Epr = a
    BY DEF a, w
  <2> QED BY <1>9, <2>2, <2>3
<1>12. m.ngroups \in Nat \ {0}
  <2>1. PerGroup \in Nat \ {0}
    BY BeatSizes, ProductPositive DEF PerGroup
  <2> DEFINE n == m.nout
  <2>2. n \in Nat \ {0}
    BY <1>1
  <2> HIDE DEF n
  <2>3. CeilDiv(n, PerGroup) \in Nat /\ n <= PerGroup * CeilDiv(n, PerGroup)
    BY <2>1, <2>2, Ceil
  <2>4. PerGroup * 0 = 0
    BY <2>1
  <2>5. CeilDiv(n, PerGroup) # 0
    BY <2>2, <2>3, <2>4
  <2> QED BY <1>1, <2>3, <2>5 DEF n
<1>13. (m.nredpad - 1) \div Epr = a
  BY <1>5 DEF a, w
<1> QED BY <1>1, <1>3, <1>4, <1>5, <1>6, <1>7, <1>9, <1>10, <1>11, <1>12, <1>13 DEF h, k

(* The chunks of the whole reduction.                                       *)
LEMMA GemvChunk ==
  ASSUME NEW m, Planned(m), NEW i \in 0 .. m.nchunks - 1
  PROVE  /\ SlicePart(0, m.nred, i).beats = GemvBeats(m, i)
         /\ SlicePart(0, m.nred, i).chunk = i /\ SlicePart(0, m.nred, i).col = 0
         /\ SliceVecWord(0, m.nred, i) = i * BeatsPerRow
         /\ i * BeatsPerRow \in Nat /\ GemvBeats(m, i) \in Nat
<1> DEFINE k == m.nred
           n == m.nchunks
           h == Hi(0, k)
           R == RowBeats
<1>1. /\ k \in Nat \ {0} /\ n \in Nat \ {0} /\ SliceChunks(0, k) = n /\ Lo(0) = 0
      /\ m.nredpad \div Epb = h
  BY PlannedSizes
<1>2. 0 \in Nat /\ i \in 0 .. SliceChunks(0, k) - 1 /\ i \in Nat
  BY <1>1
<1> HIDE DEF k, n, h
<1>3. /\ First(0, i) \in Nat /\ Past(0, k, i) \in Nat /\ First(0, i) < Past(0, k, i)
      /\ i = 0 => First(0, i) = Lo(0)
      /\ i # 0 => First(0, i) = R * (Lo(0) \div R + i)
      /\ i # SliceChunks(0, k) - 1 => Past(0, k, i) = R * (Lo(0) \div R + i + 1)
      /\ i = SliceChunks(0, k) - 1 => Past(0, k, i) = Hi(0, k)
  BY <1>1, <1>2, ChunkIs
<1>4. /\ SliceBeg(0, i) = Epb * First(0, i)
      /\ SlicePart(0, k, i).beats = Past(0, k, i) - First(0, i)
      /\ SlicePart(0, k, i).chunk = Lo(0) \div R + i
  BY <1>1, <1>2, PartIs
<1>5. SliceVecWord(0, k, i) = First(0, i) - Lo(0)
  BY <1>1, <1>2, VecWordIs
<1>6. Lo(0) \div R = 0
  <2>1. (R * 0 + 0) \div R = 0
    BY BeatSizes, DivOfSum
  <2>2. R * 0 + 0 = 0
    BY BeatSizes
  <2> QED BY <1>1, <2>1, <2>2
<1>7. R \in Nat \ {0} /\ BeatsPerRow = R
  BY BeatSizes DEF BeatsPerRow, RowBeats
<1> HIDE DEF R
<1>8. First(0, i) = R * i /\ R * i \in Nat /\ i * R = R * i
  BY <1>1, <1>2, <1>3, <1>6, <1>7
<1>9. i # n - 1 => Past(0, k, i) = R * i + R
  <2>1. R * (0 + i + 1) = R * i + R
    BY <1>2, <1>7
  <2> QED BY <1>1, <1>3, <1>6, <2>1
<1>10. i = n - 1 => Past(0, k, i) = h
  BY <1>1, <1>3 DEF h
<1>11. Past(0, k, i) - First(0, i) = GemvBeats(m, i)
  <2>1. CASE i = n - 1
    <3>1. GemvBeats(m, i) = h - (n - 1) * R
      BY <1>1, <1>7, <2>1 DEF GemvBeats, LastBeats, n
    <3> QED BY <1>8, <1>10, <2>1, <3>1
  <2>2. CASE i # n - 1
    <3>1. GemvBeats(m, i) = R
      BY <1>7, <2>2 DEF GemvBeats, n
    <3>2. (R * i + R) - R * i = R
      BY <1>7, <1>8
    <3> QED BY <1>8, <1>9, <2>2, <3>1, <3>2
  <2> QED BY <2>1, <2>2
<1>12. SlicePart(0, k, i).col = 0
  <2>1. SliceBeg(0, i) = Epr * i + 0
    <3>1. Epb * (R * i) = (Epb * R) * i
      BY <1>2, <1>7, BeatSizes
    <3>2. Epr = Epb * R
      BY BeatSizes DEF R
    <3> QED BY <1>2, <1>4, <1>8, <3>1, <3>2, BeatSizes
  <2>2. (Epr * i + 0) % Epr = 0
    <3>1. Epr \in Nat \ {0} /\ 0 \in 0 .. Epr - 1
      BY BeatSizes
    <3> QED BY <1>2, <3>1, DivOfSum
  <2>3. (Epb * 0 + 0) \div Epb = 0 /\ Epb * 0 + 0 = 0
    BY BeatSizes, DivOfSum
  <2>4. SliceCol(0, i) = 0
    BY <2>1, <2>2, <2>3 DEF SliceCol
  <2> QED BY <2>4 DEF SlicePart
<1>13. Past(0, k, i) - First(0, i) \in Nat
  BY <1>3
<1>14. SlicePart(0, k, i).chunk = i
  BY <1>2, <1>4, <1>6
<1>15. SliceVecWord(0, k, i) = R * i
  BY <1>1, <1>5, <1>8
<1> QED BY <1>4, <1>7, <1>8, <1>11, <1>12, <1>13, <1>14, <1>15 DEF k

--------------------
(* What pass 1 pushes for a piece.                                          *)
PieceOf(q) ==
  /\ q.first \in Nat /\ q.count \in Nat \ {0} /\ q.off \in Nat /\ q.len \in Nat \ {0}
  /\ q.v \in Nat /\ q.y \in Nat
InSlice(q, i) == i \in 0 .. SliceChunks(q.off, q.len) - 1

(* A piece touches a chunk at least.                                        *)
LEMMA PieceSlice ==
  ASSUME NEW q, PieceOf(q)
  PROVE  /\ InSlice(q, 0) /\ SliceChunks(q.off, q.len) \in Nat \ {0}
         /\ Beats(q.off, q.len) \in Nat
<1>1. q.off \in Nat /\ q.len \in Nat \ {0}
  BY DEF PieceOf
<1>2. /\ SliceChunks(q.off, q.len) \in Nat \ {0} /\ Lo(q.off) \in Nat /\ Hi(q.off, q.len) \in Nat
      /\ Lo(q.off) < Hi(q.off, q.len) /\ Beats(q.off, q.len) = Hi(q.off, q.len) - Lo(q.off)
  BY <1>1, SliceIs
<1> QED BY <1>2 DEF InSlice

FillOf(q, i) ==
  Blank("WRVEC", SlicePart(q.off, q.len, i).beats, 0, 0,
        "vec", q.v, SliceVecWord(q.off, q.len, i), Beats(q.off, q.len), Beats(q.off, q.len))
MulOf(m, q, g, i, t) ==
  Blank("MAC", SlicePart(q.off, q.len, i).beats, SlicePart(q.off, q.len, i).col, t,
        "mat", 0, Unit(m, q.first + g, SlicePart(q.off, q.len, i).chunk), m.ngroups * m.nchunks, 0)
TakeOf(q, g, t) == Blank("RD_MAC", 0, 0, t, "res", q.y, g * Nch, q.count * Nch, 0)

(* The three sorts of ISR a pass is made of are one ISR each ...            *)
LEMMA RunsAre ==
  ASSUME NEW m, NEW q, NEW g, NEW i, NEW t
  PROVE  FillVector(q, i) = <<FillOf(q, i)>> /\ MacOf(m, q, g, i, t) = <<MulOf(m, q, g, i, t)>>
         /\ DrainOf(q, g, t) = <<TakeOf(q, g, t)>>
BY DEF FillVector, FillOf, MacOf, MulOf, DrainOf, TakeOf

(* ... with the fields such an ISR has.                                     *)
LEMMA FillTyped ==
  ASSUME NEW q, PieceOf(q), NEW i, InSlice(q, i)
  PROVE  FillOf(q, i) \in Blanks
<1> DEFINE off == q.off
           len == q.len
<1>1. off \in Nat /\ len \in Nat \ {0} /\ i \in 0 .. SliceChunks(off, len) - 1 /\ q.v \in Nat
  BY DEF PieceOf, InSlice
<1> HIDE DEF off, len
<1>2. First(off, i) \in Nat /\ Past(off, len, i) \in Nat
  BY <1>1, ChunkIs
<1>3. SlicePart(off, len, i).beats = Past(off, len, i) - First(off, i)
  BY <1>1, PartIs
<1>4. SliceVecWord(off, len, i) = First(off, i) - Lo(off)
  BY <1>1, VecWordIs
<1>5. Lo(off) \in Nat /\ Hi(off, len) \in Nat /\ Beats(off, len) = Hi(off, len) - Lo(off)
  BY <1>1, SliceIs
<1>6. SlicePart(off, len, i).beats \in Int /\ SliceVecWord(off, len, i) \in Int /\ Beats(off, len) \in Int
  BY <1>2, <1>3, <1>4, <1>5
<1> QED BY <1>1, <1>6 DEF FillOf, Blank, Blanks, Ops, off, len

LEMMA MulTyped ==
  ASSUME NEW m, Planned(m), NEW q, PieceOf(q), NEW i, InSlice(q, i), NEW g \in Nat, NEW t \in Nat
  PROVE  MulOf(m, q, g, i, t) \in Blanks
<1> DEFINE off == q.off
           len == q.len
<1>1. off \in Nat /\ len \in Nat \ {0} /\ i \in 0 .. SliceChunks(off, len) - 1 /\ q.first \in Nat
  BY DEF PieceOf, InSlice
<1> HIDE DEF off, len
<1>2. First(off, i) \in Nat /\ Past(off, len, i) \in Nat
  BY <1>1, ChunkIs
<1>3. /\ SlicePart(off, len, i).beats = Past(off, len, i) - First(off, i)
      /\ SlicePart(off, len, i).chunk = Lo(off) \div RowBeats + i
      /\ SliceBeg(off, i) = Epb * First(off, i)
  BY <1>1, PartIs
<1>4. SliceChunks(off, len) \in Nat /\ Lo(off) \in Nat
  BY <1>1, SliceIs
<1>5. Lo(off) \div RowBeats \in Nat
  BY <1>4, BeatSizes, DivMod
<1>6. i \in Nat
  BY <1>1, <1>4
<1>7. SlicePart(off, len, i).beats \in Int /\ SlicePart(off, len, i).chunk \in Int
  BY <1>2, <1>3, <1>5, <1>6
<1>8. SlicePart(off, len, i).col \in Int
  <2>1. Epb * First(off, i) \in Nat
    BY <1>2, BeatSizes, ProductNat
  <2>2. (Epb * First(off, i)) % Epr \in Nat
    BY <2>1, BeatSizes, DivMod
  <2>3. ((Epb * First(off, i)) % Epr) \div Epb \in Nat
    BY <2>2, BeatSizes, DivMod
  <2> QED BY <1>3, <2>3 DEF SlicePart, SliceCol
<1>9. m.ngroups \in Nat /\ m.nchunks \in Nat
  BY PlannedSizes
<1> DEFINE c == SlicePart(off, len, i).chunk
           x == m.ngroups
           y == m.nchunks
<1>10. Unit(m, q.first + g, c) \in Int /\ x * y \in Int
  <2>1. c \in Int /\ x \in Nat /\ y \in Nat
    BY <1>7, <1>9
  <2> HIDE DEF c, x, y
  <2>2. (q.first + g) * y + c \in Int /\ x * y \in Int
    BY <1>1, <2>1
  <2> QED BY <2>2 DEF Unit, y
<1> QED BY <1>7, <1>8, <1>10 DEF MulOf, Blank, Blanks, Ops, off, len

LEMMA TakeTyped ==
  ASSUME NEW q, PieceOf(q), NEW g \in Nat, NEW t \in Nat
  PROVE  TakeOf(q, g, t) \in Blanks
<1>1. q.y \in Int /\ q.count \in Int /\ Nch \in Int
  BY BeatSizes DEF PieceOf
<1>2. g * Nch \in Int /\ q.count * Nch \in Int
  BY <1>1
<1> QED BY <1>1, <1>2 DEF TakeOf, Blank, Blanks, Ops

LEMMA EndTyped == EndOfProgram \in Blanks
BY DEF EndOfProgram, Blank, Blanks, Ops

(* A pass: its chunks, then its drains.                                     *)
PassGroups(q, nl, g0) == Least(nl, q.count - g0)
MacRun(m, q, nl, g0, i) == [k \in 1 .. PassGroups(q, nl, g0) |-> <<MulOf(m, q, g0 + (k - 1), i, k - 1)>>]
ChunkRun(m, q, nl, g0, i) ==
  (IF Hoist(q.off, q.len) THEN <<>> ELSE <<FillOf(q, i)>>) \o Flat(MacRun(m, q, nl, g0, i))
ChunkRuns(m, q, nl, g0) == [i \in 1 .. SliceChunks(q.off, q.len) |-> ChunkRun(m, q, nl, g0, i - 1)]
TakeRun(q, nl, g0) == [k \in 1 .. PassGroups(q, nl, g0) |-> <<TakeOf(q, g0 + (k - 1), k - 1)>>]
Passes(q, nl) == CeilDiv(q.count, nl)

(* A pass is its chunks and then its drains.                                *)
LEMMA PassIs ==
  ASSUME NEW m, NEW q, NEW nl, NEW g0
  PROVE  Pass(m, q, nl, g0) = Flat(ChunkRuns(m, q, nl, g0)) \o Flat(TakeRun(q, nl, g0))
<1>1. \A g, i, t : MacOf(m, q, g, i, t) = <<MulOf(m, q, g, i, t)>> /\ FillVector(q, i) = <<FillOf(q, i)>>
                   /\ DrainOf(q, g, t) = <<TakeOf(q, g, t)>>
  BY RunsAre
<1> QED BY <1>1, Zenon DEF Pass, For, Flat, ChunkRuns, ChunkRun, MacRun, TakeRun, PassGroups

(* The k-th pass takes the next groups, as many as there are latches until  *)
(* the last one takes the rest.                                             *)
LEMMA GroupsIs ==
  ASSUME NEW q, PieceOf(q), NEW nl \in {1, 2}, NEW k \in 0 .. Passes(q, nl) - 1
  PROVE  /\ k * nl \in Nat /\ k * nl < q.count /\ PassGroups(q, nl, k * nl) \in 1 .. nl
         /\ k * nl + PassGroups(q, nl, k * nl) <= q.count
         /\ k # Passes(q, nl) - 1 => PassGroups(q, nl, k * nl) = nl
         /\ k = Passes(q, nl) - 1 => k * nl + PassGroups(q, nl, k * nl) = q.count
<1> DEFINE c == q.count
           n == Passes(q, nl)
<1>1. c \in Nat \ {0} /\ nl \in Nat \ {0}
  BY DEF PieceOf
<1>2. n = CeilDiv(c, nl)
  BY DEF Passes
<1>3. PassGroups(q, nl, k * nl) = Least(nl, c - k * nl)
  BY DEF PassGroups
<1>4. k \in 0 .. n - 1
  OBVIOUS
<1> HIDE DEF c, n
<1>5. n \in Nat /\ c <= nl * n /\ nl * n <= c + nl - 1
  <2>1. CeilDiv(c, nl) \in Nat /\ c <= nl * CeilDiv(c, nl) /\ nl * CeilDiv(c, nl) <= c + nl - 1
    BY <1>1, Ceil
  <2> QED BY <1>2, <2>1
<1>6. CASE nl = 1
  BY <1>1, <1>3, <1>4, <1>5, <1>6 DEF Least, c, n
<1>7. CASE nl = 2
  BY <1>1, <1>3, <1>4, <1>5, <1>7 DEF Least, c, n
<1> QED BY <1>6, <1>7

LEMMA PassesPositive ==
  ASSUME NEW q, PieceOf(q), NEW nl \in {1, 2}
  PROVE  Passes(q, nl) \in Nat \ {0}
<1> DEFINE c == q.count
<1>1. c \in Nat \ {0} /\ nl \in Nat \ {0}
  BY DEF PieceOf
<1> HIDE DEF c
<1>2. CeilDiv(c, nl) \in Nat /\ c <= nl * CeilDiv(c, nl)
  BY <1>1, Ceil
<1>3. CeilDiv(c, nl) # 0
  BY <1>1, <1>2
<1> QED BY <1>2, <1>3 DEF Passes, c

(* A run of the pass is a sequence of logical ISRs.                         *)
PassOf(q, nl, g0) == g0 \in Nat /\ PassGroups(q, nl, g0) \in Nat

(* What the rows of a pass are made of.                                     *)
LEMMA MacRunTyped ==
  ASSUME NEW m, Planned(m), NEW q, PieceOf(q), NEW nl \in {1, 2}, NEW g0, PassOf(q, nl, g0),
         NEW i, InSlice(q, i)
  PROVE  /\ MacRun(m, q, nl, g0, i) \in Seq(Seq(Blanks)) /\ Flat(MacRun(m, q, nl, g0, i)) \in Seq(Blanks)
         /\ Len(MacRun(m, q, nl, g0, i)) = PassGroups(q, nl, g0)
<1>1. ASSUME NEW k \in 1 .. PassGroups(q, nl, g0) PROVE MulOf(m, q, g0 + (k - 1), i, k - 1) \in Blanks
  <2>1. g0 + (k - 1) \in Nat /\ k - 1 \in Nat
    BY DEF PassOf
  <2> QED BY <2>1, MulTyped
<1> DEFINE r == MacRun(m, q, nl, g0, i)
<1>2. \A k \in 1 .. PassGroups(q, nl, g0) : <<MulOf(m, q, g0 + (k - 1), i, k - 1)>> \in Seq(Blanks)
  BY <1>1
<1>3. r \in Seq(Seq(Blanks)) /\ Len(r) = PassGroups(q, nl, g0)
  <2> DEFINE n == PassGroups(q, nl, g0)
  <2>1. n \in Nat
    BY DEF PassOf
  <2>2. r = [k \in 1 .. n |-> <<MulOf(m, q, g0 + (k - 1), i, k - 1)>>]
    BY DEF MacRun
  <2>3. \A k \in 1 .. n : <<MulOf(m, q, g0 + (k - 1), i, k - 1)>> \in Seq(Blanks)
    BY <1>2
  <2> HIDE DEF n, r
  <2>4. r \in Seq(Seq(Blanks)) /\ Len(r) = n
    BY <2>1, <2>2, <2>3
  <2> QED BY <2>4 DEF n
<1> HIDE DEF r
<1>4. Flat(r) \in Seq(Blanks)
  BY <1>3, FlatIsJoined
<1> QED BY <1>3, <1>4 DEF r

LEMMA TakeRunTyped ==
  ASSUME NEW q, PieceOf(q), NEW nl \in {1, 2}, NEW g0, PassOf(q, nl, g0)
  PROVE  /\ TakeRun(q, nl, g0) \in Seq(Seq(Blanks)) /\ Flat(TakeRun(q, nl, g0)) \in Seq(Blanks)
         /\ Len(TakeRun(q, nl, g0)) = PassGroups(q, nl, g0)
<1>1. ASSUME NEW k \in 1 .. PassGroups(q, nl, g0) PROVE TakeOf(q, g0 + (k - 1), k - 1) \in Blanks
  <2>1. g0 + (k - 1) \in Nat /\ k - 1 \in Nat
    BY DEF PassOf
  <2> QED BY <2>1, TakeTyped
<1> DEFINE r == TakeRun(q, nl, g0)
<1>2. \A k \in 1 .. PassGroups(q, nl, g0) : <<TakeOf(q, g0 + (k - 1), k - 1)>> \in Seq(Blanks)
  BY <1>1
<1>3. r \in Seq(Seq(Blanks)) /\ Len(r) = PassGroups(q, nl, g0)
  <2> DEFINE n == PassGroups(q, nl, g0)
  <2>1. n \in Nat
    BY DEF PassOf
  <2>2. r = [k \in 1 .. n |-> <<TakeOf(q, g0 + (k - 1), k - 1)>>]
    BY DEF TakeRun
  <2>3. \A k \in 1 .. n : <<TakeOf(q, g0 + (k - 1), k - 1)>> \in Seq(Blanks)
    BY <1>2
  <2> HIDE DEF n, r
  <2>4. r \in Seq(Seq(Blanks)) /\ Len(r) = n
    BY <2>1, <2>2, <2>3
  <2> QED BY <2>4 DEF n
<1> HIDE DEF r
<1>4. Flat(r) \in Seq(Blanks)
  BY <1>3, FlatIsJoined
<1> QED BY <1>3, <1>4 DEF r

FillRun(q, i) == IF Hoist(q.off, q.len) THEN <<>> ELSE <<FillOf(q, i)>>

LEMMA ChunkRunTyped ==
  ASSUME NEW m, Planned(m), NEW q, PieceOf(q), NEW nl \in {1, 2}, NEW g0, PassOf(q, nl, g0),
         NEW i, InSlice(q, i)
  PROVE  /\ FillRun(q, i) \in Seq(Blanks)
         /\ ChunkRun(m, q, nl, g0, i) = FillRun(q, i) \o Flat(MacRun(m, q, nl, g0, i))
         /\ ChunkRun(m, q, nl, g0, i) \in Seq(Blanks)
<1>1. FillOf(q, i) \in Blanks
  BY FillTyped
<1>2. FillRun(q, i) \in Seq(Blanks)
  BY <1>1 DEF FillRun
<1>3. Flat(MacRun(m, q, nl, g0, i)) \in Seq(Blanks)
  BY MacRunTyped
<1>4. ChunkRun(m, q, nl, g0, i) = FillRun(q, i) \o Flat(MacRun(m, q, nl, g0, i))
  BY DEF ChunkRun, FillRun
<1>5. FillRun(q, i) \o Flat(MacRun(m, q, nl, g0, i)) \in Seq(Blanks)
  BY <1>2, <1>3, ConcatProperties
<1> QED BY <1>2, <1>4, <1>5

LEMMA ChunkRunsTyped ==
  ASSUME NEW m, Planned(m), NEW q, PieceOf(q), NEW nl \in {1, 2}, NEW g0, PassOf(q, nl, g0)
  PROVE  /\ ChunkRuns(m, q, nl, g0) \in Seq(Seq(Blanks))
         /\ Len(ChunkRuns(m, q, nl, g0)) = SliceChunks(q.off, q.len)
         /\ Flat(ChunkRuns(m, q, nl, g0)) \in Seq(Blanks)
<1> DEFINE n == SliceChunks(q.off, q.len)
           r == ChunkRuns(m, q, nl, g0)
<1>1. n \in Nat \ {0}
  BY PieceSlice
<1>2. ASSUME NEW i \in 1 .. n PROVE ChunkRun(m, q, nl, g0, i - 1) \in Seq(Blanks)
  <2>1. InSlice(q, i - 1)
    BY <1>1 DEF InSlice
  <2> QED BY <2>1, ChunkRunTyped
<1>3. r = [i \in 1 .. n |-> ChunkRun(m, q, nl, g0, i - 1)]
  BY DEF ChunkRuns
<1> HIDE DEF n, r
<1>4. r \in Seq(Seq(Blanks)) /\ Len(r) = n
  BY <1>1, <1>2, <1>3
<1>5. Flat(r) \in Seq(Blanks)
  BY <1>4, FlatIsJoined
<1> QED BY <1>4, <1>5 DEF r, n

LEMMA PassTyped ==
  ASSUME NEW m, Planned(m), NEW q, PieceOf(q), NEW nl \in {1, 2}, NEW g0, PassOf(q, nl, g0)
  PROVE  Pass(m, q, nl, g0) \in Seq(Blanks)
<1>1. Flat(ChunkRuns(m, q, nl, g0)) \in Seq(Blanks)
  BY ChunkRunsTyped
<1>2. Flat(TakeRun(q, nl, g0)) \in Seq(Blanks)
  BY TakeRunTyped
<1>3. Flat(ChunkRuns(m, q, nl, g0)) \o Flat(TakeRun(q, nl, g0)) \in Seq(Blanks)
  BY <1>1, <1>2, ConcatProperties
<1> QED BY <1>3, PassIs

(* The pass lowered.                                                        *)
LowMacs(m, q, nl, g0, i) == [k \in 1 .. PassGroups(q, nl, g0) |-> Legalise(MulOf(m, q, g0 + (k - 1), i, k - 1))]
LowFill(q, i) == IF Hoist(q.off, q.len) THEN <<>> ELSE Legalise(FillOf(q, i))
LowChunk(m, q, nl, g0, i) == LowFill(q, i) \o Flat(LowMacs(m, q, nl, g0, i))
LowChunks(m, q, nl, g0) == [i \in 1 .. SliceChunks(q.off, q.len) |-> LowChunk(m, q, nl, g0, i - 1)]
LowTakes(q, nl, g0) == [k \in 1 .. PassGroups(q, nl, g0) |-> Legalise(TakeOf(q, g0 + (k - 1), k - 1))]
LowPass(m, q, nl, g0) == Flat(LowChunks(m, q, nl, g0)) \o Flat(LowTakes(q, nl, g0))

(* The rows of a pass lowered, one at a time.                               *)
LEMMA ChunkLow ==
  ASSUME NEW m, Planned(m), NEW q, PieceOf(q), NEW nl \in {1, 2}, NEW g0, PassOf(q, nl, g0),
         NEW i, InSlice(q, i)
  PROVE  Low(ChunkRun(m, q, nl, g0, i)) = LowChunk(m, q, nl, g0, i)
<1> DEFINE r == MacRun(m, q, nl, g0, i)
           n == PassGroups(q, nl, g0)
           z == [k \in 1 .. Len(r) |-> Low(r[k])]
<1>1. /\ FillRun(q, i) \in Seq(Blanks) /\ Flat(r) \in Seq(Blanks) /\ r \in Seq(Seq(Blanks)) /\ Len(r) = n
      /\ ChunkRun(m, q, nl, g0, i) = FillRun(q, i) \o Flat(r)
  <2>1. r \in Seq(Seq(Blanks)) /\ Flat(r) \in Seq(Blanks) /\ Len(r) = n
    BY MacRunTyped
  <2>2. FillRun(q, i) \in Seq(Blanks) /\ ChunkRun(m, q, nl, g0, i) = FillRun(q, i) \o Flat(r)
    BY ChunkRunTyped
  <2> HIDE DEF r, n
  <2> QED BY <2>1, <2>2
<1>2. \A k \in 1 .. n : r[k] = <<MulOf(m, q, g0 + (k - 1), i, k - 1)>>
  BY DEF MacRun
<1> HIDE DEF r
<1>3. Low(FillRun(q, i) \o Flat(r)) = Low(FillRun(q, i)) \o Low(Flat(r))
  BY <1>1, BlanksLower, LowConcat
<1>4. Low(Flat(r)) = Flat(z)
  BY <1>1, BlanksLower, LowFlat
<1>5. Low(FillRun(q, i)) = LowFill(q, i)
  BY FillTyped, LowOne, LowNone DEF FillRun, LowFill
<1>6. ASSUME NEW k \in 1 .. n PROVE Low(r[k]) = Legalise(MulOf(m, q, g0 + (k - 1), i, k - 1))
  <2>1. g0 + (k - 1) \in Nat /\ k - 1 \in Nat
    BY DEF PassOf
  <2>2. MulOf(m, q, g0 + (k - 1), i, k - 1) \in Blanks
    BY <2>1, MulTyped
  <2> DEFINE b == MulOf(m, q, g0 + (k - 1), i, k - 1)
  <2>3. b \in Blanks /\ r[k] = <<b>>
    BY <1>2, <2>2
  <2> HIDE DEF b
  <2>4. Low(<<b>>) = Legalise(b)
    BY <2>3, LowOne
  <2> QED BY <2>3, <2>4 DEF b
<1>7. z = LowMacs(m, q, nl, g0, i)
  BY <1>1, <1>6, Zenon DEF LowMacs
<1> QED BY <1>1, <1>3, <1>4, <1>5, <1>7 DEF LowChunk

LEMMA TakesLow ==
  ASSUME NEW q, PieceOf(q), NEW nl \in {1, 2}, NEW g0, PassOf(q, nl, g0)
  PROVE  Low(Flat(TakeRun(q, nl, g0))) = Flat(LowTakes(q, nl, g0))
<1> DEFINE r == TakeRun(q, nl, g0)
           n == PassGroups(q, nl, g0)
           z == [k \in 1 .. Len(r) |-> Low(r[k])]
<1>1. r \in Seq(Seq(Blanks)) /\ Len(r) = n
  BY TakeRunTyped
<1>2. \A k \in 1 .. n : r[k] = <<TakeOf(q, g0 + (k - 1), k - 1)>>
  BY DEF TakeRun
<1> HIDE DEF r
<1>3. Low(Flat(r)) = Flat(z)
  BY <1>1, BlanksLower, LowFlat
<1>4. ASSUME NEW k \in 1 .. n PROVE Low(r[k]) = Legalise(TakeOf(q, g0 + (k - 1), k - 1))
  <2>1. g0 + (k - 1) \in Nat /\ k - 1 \in Nat
    BY DEF PassOf
  <2> DEFINE b == TakeOf(q, g0 + (k - 1), k - 1)
  <2>2. b \in Blanks /\ r[k] = <<b>>
    BY <1>2, <2>1, TakeTyped
  <2> HIDE DEF b
  <2>3. Low(<<b>>) = Legalise(b)
    BY <2>2, LowOne
  <2> QED BY <2>2, <2>3 DEF b
<1>5. z = LowTakes(q, nl, g0)
  BY <1>1, <1>4, Zenon DEF LowTakes
<1> QED BY <1>3, <1>5 DEF r

LEMMA PassLow ==
  ASSUME NEW m, Planned(m), NEW q, PieceOf(q), NEW nl \in {1, 2}, NEW g0, PassOf(q, nl, g0)
  PROVE  Low(Pass(m, q, nl, g0)) = LowPass(m, q, nl, g0)
<1> DEFINE a == ChunkRuns(m, q, nl, g0)
           b == Flat(TakeRun(q, nl, g0))
           n == SliceChunks(q.off, q.len)
           z == [i \in 1 .. Len(a) |-> Low(a[i])]
<1>1. a \in Seq(Seq(Blanks)) /\ Len(a) = n /\ Flat(a) \in Seq(Blanks)
  BY ChunkRunsTyped
<1>2. b \in Seq(Blanks) /\ Low(b) = Flat(LowTakes(q, nl, g0))
  BY TakeRunTyped, TakesLow
<1>3. Pass(m, q, nl, g0) = Flat(a) \o b
  BY PassIs
<1>4. \A i \in 1 .. n : a[i] = ChunkRun(m, q, nl, g0, i - 1)
  BY DEF ChunkRuns
<1>5. n \in Nat \ {0}
  BY PieceSlice
<1>6. \A i \in 1 .. n : InSlice(q, i - 1)
  BY <1>5 DEF InSlice
<1> HIDE DEF a, b
<1>7. Low(Flat(a) \o b) = Low(Flat(a)) \o Low(b)
  BY <1>1, <1>2, BlanksLower, LowConcat
<1>8. Low(Flat(a)) = Flat(z)
  BY <1>1, BlanksLower, LowFlat
<1>9. \A i \in 1 .. n : Low(a[i]) = LowChunk(m, q, nl, g0, i - 1)
  BY <1>4, <1>6, ChunkLow
<1>10. z = LowChunks(m, q, nl, g0)
  BY <1>1, <1>9, Zenon DEF LowChunks
<1> QED BY <1>2, <1>3, <1>7, <1>8, <1>10 DEF LowPass

(* The part: the hoisted load, then its passes.                             *)
PassRuns(m, q, nl) == [k \in 1 .. Passes(q, nl) |-> Pass(m, q, nl, (k - 1) * nl)]
Hoisted(q) == IF Hoist(q.off, q.len) THEN <<FillOf(q, 0)>> ELSE <<>>
LowPasses(m, q, nl) == [k \in 1 .. Passes(q, nl) |-> LowPass(m, q, nl, (k - 1) * nl)]
LowHoisted(q) == IF Hoist(q.off, q.len) THEN Legalise(FillOf(q, 0)) ELSE <<>>
LowPart(m, q, nl) == LowHoisted(q) \o Flat(LowPasses(m, q, nl))

(* A piece is the vector, when it is loaded only once, and its passes, ...  *)
LEMMA PartRunsAre ==
  ASSUME NEW m, Planned(m), NEW q, PieceOf(q), NEW nl \in {1, 2}
  PROVE  /\ PassRuns(m, q, nl) \in Seq(Seq(Blanks)) /\ Len(PassRuns(m, q, nl)) = Passes(q, nl)
         /\ \A k \in 1 .. Passes(q, nl) : Low(PassRuns(m, q, nl)[k]) = LowPass(m, q, nl, (k - 1) * nl)
         /\ Hoisted(q) \in Seq(Blanks) /\ Low(Hoisted(q)) = LowHoisted(q)
         /\ PartRuns(m, q, nl) = <<Hoisted(q)>> \o PassRuns(m, q, nl)
<1> DEFINE n == Passes(q, nl)
           r == PassRuns(m, q, nl)
<1>1. n \in Nat \ {0}
  BY PassesPositive
<1>2. ASSUME NEW k \in 1 .. n
      PROVE  /\ Pass(m, q, nl, (k - 1) * nl) \in Seq(Blanks)
             /\ Low(Pass(m, q, nl, (k - 1) * nl)) = LowPass(m, q, nl, (k - 1) * nl)
  <2> DEFINE j == k - 1
  <2>1. j \in 0 .. Passes(q, nl) - 1
    BY <1>1
  <2> HIDE DEF j
  <2>2. j * nl \in Nat /\ PassGroups(q, nl, j * nl) \in 1 .. nl
    BY <2>1, GroupsIs
  <2>3. PassOf(q, nl, j * nl)
    BY <2>2 DEF PassOf
  <2>4. Pass(m, q, nl, j * nl) \in Seq(Blanks)
    BY <2>3, PassTyped
  <2>5. Low(Pass(m, q, nl, j * nl)) = LowPass(m, q, nl, j * nl)
    BY <2>3, PassLow
  <2> QED BY <2>4, <2>5 DEF j
<1>3. r = [k \in 1 .. n |-> Pass(m, q, nl, (k - 1) * nl)]
  BY DEF PassRuns
<1>4. PartRuns(m, q, nl) = <<Hoisted(q)>> \o Flat([k \in 1 .. n |-> <<Pass(m, q, nl, (k - 1) * nl)>>])
  BY RunsAre, Zenon DEF PartRuns, For, Flat, Hoisted, Passes
<1> HIDE DEF n, r
<1>5. r \in Seq(Seq(Blanks)) /\ Len(r) = n /\ \A k \in 1 .. n : r[k] = Pass(m, q, nl, (k - 1) * nl)
  <2>1. \A k \in 1 .. n : Pass(m, q, nl, (k - 1) * nl) \in Seq(Blanks)
    BY <1>2
  <2>2. r \in Seq(Seq(Blanks)) /\ Len(r) = n
    BY <1>1, <1>3, <2>1
  <2>3. \A k \in 1 .. n : r[k] = Pass(m, q, nl, (k - 1) * nl)
    BY <1>3, Zenon
  <2> QED BY <2>2, <2>3
<1>6. [k \in 1 .. n |-> <<Pass(m, q, nl, (k - 1) * nl)>>] = [k \in 1 .. Len(r) |-> <<r[k]>>]
  BY <1>5, Zenon
<1>7. Flat([k \in 1 .. Len(r) |-> <<r[k]>>]) = r
  BY <1>5, FlatSingles
<1>8. Hoisted(q) \in Seq(Blanks) /\ Low(Hoisted(q)) = LowHoisted(q)
  <2>1. InSlice(q, 0)
    BY PieceSlice
  <2>2. FillOf(q, 0) \in Blanks
    BY <2>1, FillTyped
  <2> QED BY <2>2, LowOne, LowNone DEF Hoisted, LowHoisted
<1> QED BY <1>2, <1>4, <1>5, <1>6, <1>7, <1>8 DEF r, n

(* ... and lowered it is the same, lowered.                                 *)
LEMMA PartLow ==
  ASSUME NEW m, Planned(m), NEW q, PieceOf(q), NEW nl \in {1, 2}
  PROVE  /\ Flat(PartRuns(m, q, nl)) \in Seq(Blanks)
         /\ Low(Flat(PartRuns(m, q, nl))) = LowPart(m, q, nl)
<1> DEFINE h == Hoisted(q)
           r == PassRuns(m, q, nl)
           z == [k \in 1 .. Len(r) |-> Low(r[k])]
           n == Passes(q, nl)
<1>1. /\ r \in Seq(Seq(Blanks)) /\ Len(r) = n
      /\ \A k \in 1 .. n : Low(r[k]) = LowPass(m, q, nl, (k - 1) * nl)
      /\ h \in Seq(Blanks) /\ Low(h) = LowHoisted(q)
      /\ PartRuns(m, q, nl) = <<h>> \o r
  BY PartRunsAre
<1> HIDE DEF h, r
<1>2. <<h>> \in Seq(Seq(Blanks)) /\ Flat(<<h>>) = h
  BY <1>1, FlatOne
<1>3. Flat(<<h>> \o r) = Flat(<<h>>) \o Flat(r)
  BY <1>1, <1>2, FlatConcat
<1>4. Flat(r) \in Seq(Blanks)
  BY <1>1, FlatIsJoined
<1>5. h \o Flat(r) \in Seq(Blanks)
  BY <1>1, <1>4, ConcatProperties
<1>6. Low(h \o Flat(r)) = Low(h) \o Low(Flat(r))
  BY <1>1, <1>4, BlanksLower, LowConcat
<1>7. Low(Flat(r)) = Flat(z)
  BY <1>1, BlanksLower, LowFlat
<1>8. z = LowPasses(m, q, nl)
  BY <1>1, Zenon DEF LowPasses
<1> QED BY <1>1, <1>2, <1>3, <1>5, <1>6, <1>7, <1>8 DEF LowPart

(* One part more, and the end.                                              *)
LEMMA LowerPart ==
  ASSUME NEW l, l.isr \in Seq(Blanks), NEW m, Planned(m), NEW q, PieceOf(q), NEW nl \in {1, 2}
  PROVE  /\ PushPart(l, m, q, nl).isr \in Seq(Blanks)
         /\ Low(PushPart(l, m, q, nl).isr) = Low(l.isr) \o LowPart(m, q, nl)
<1> DEFINE a == l.isr
           b == Flat(PartRuns(m, q, nl))
<1>1. PushPart(l, m, q, nl).isr = a \o b
  BY DEF PushPart, Flat
<1>2. a \in Seq(Blanks) /\ b \in Seq(Blanks) /\ Low(b) = LowPart(m, q, nl)
  BY PartLow
<1> HIDE DEF a, b
<1>3. a \o b \in Seq(Blanks)
  BY <1>2, ConcatProperties
<1>4. Low(a \o b) = Low(a) \o Low(b)
  BY <1>2, BlanksLower, LowConcat
<1> QED BY <1>1, <1>2, <1>3, <1>4 DEF a

TheEnd == Encoded("EOS", 0, 0, Chan, 0)

(* EOS is lowered to one ISR for all channels, ...                          *)
LEMMA EndLow == Low(<<EndOfProgram>>) = <<TheEnd>>
<1>1. Low(<<EndOfProgram>>) = Legalise(EndOfProgram)
  BY EndTyped, LowOne
<1> DEFINE b == EndOfProgram
<1>2. b.op = "EOS" /\ b.sz = 0 /\ b.t = 0 /\ b.col = 0 /\ b.buf = "none"
  BY DEF EndOfProgram, Blank
<1> HIDE DEF b
<1>3. Legalise(b) = <<Final(b, 0, Chan)>>
  BY <1>2 DEF Legalise
<1>4. Resolve(b, 0) = 0
  BY <1>2 DEF Resolve
<1>5. Final(b, 0, Chan) = TheEnd
  BY <1>2, <1>4 DEF Final, TheEnd, Encoded
<1> QED BY <1>1, <1>3, <1>5 DEF b

(* ... behind everything that was lowered before it.                        *)
LEMMA LowerEnd ==
  ASSUME NEW l, l = [isr |-> l.isr, atoms |-> l.atoms], l.isr \in Seq(Blanks)
  PROVE  Lower(PushEos(l)) = Low(l.isr) \o <<TheEnd>>
<1> DEFINE a == l.isr
<1>1. PushEos(l).isr = Append(a, EndOfProgram)
  BY DEF PushEos
<1>2. a \in Seq(Blanks) /\ <<EndOfProgram>> \in Seq(Blanks)
  BY EndTyped
<1> HIDE DEF a
<1>3. Append(a, EndOfProgram) = a \o <<EndOfProgram>>
  BY <1>2, AppendIsConcat, EndTyped
<1>4. Low(a \o <<EndOfProgram>>) = Low(a) \o Low(<<EndOfProgram>>)
  BY <1>2, BlanksLower, LowConcat
<1> QED BY <1>1, <1>3, <1>4, EndLow, LowerIsLow DEF a

--------------------
(* pim_gemv_program builds what the two passes build.                       *)
Whole(m, first, count) == Piece(first, count, 0, m.nred, 0, 0)
GemvWanted(m, first, count) == Planned(m) /\ first \in Nat /\ count \in Nat \ {0}

(* A launch of pim_gemv_ex as a piece: all of the reduction, its vector and *)
(* its results at the start of their buffers.                               *)
LEMMA WholeIs ==
  ASSUME NEW m, NEW first, NEW count, GemvWanted(m, first, count)
  PROVE  /\ PieceOf(Whole(m, first, count)) /\ Whole(m, first, count).off = 0
         /\ Whole(m, first, count).len = m.nred /\ Whole(m, first, count).count = count
         /\ Whole(m, first, count).first = first /\ Whole(m, first, count).v = 0
         /\ Whole(m, first, count).y = 0
         /\ SliceChunks(Whole(m, first, count).off, Whole(m, first, count).len) = m.nchunks
         /\ (Hoist(Whole(m, first, count).off, Whole(m, first, count).len) <=> IsEager(m))
<1>1. m.nred \in Nat \ {0} /\ SliceChunks(0, m.nred) = m.nchunks
  BY PlannedSizes DEF GemvWanted
<1> QED BY <1>1 DEF Whole, Piece, PieceOf, GemvWanted, Hoist, IsEager

(* The two front ends agree on each sort of ISR, ...                        *)
LEMMA LoadAgrees ==
  ASSUME NEW m, NEW first, NEW count, GemvWanted(m, first, count), NEW i \in 0 .. m.nchunks - 1
  PROVE  Legalise(FillOf(Whole(m, first, count), i)) = LoadChunk(m, 0, i)
<1> DEFINE q == Whole(m, first, count)
           b == FillOf(q, i)
           w == i * BeatsPerRow
<1>1. q.off = 0 /\ q.len = m.nred /\ q.v = 0
  BY WholeIs
<1>2. SlicePart(0, m.nred, i).beats = GemvBeats(m, i) /\ SliceVecWord(0, m.nred, i) = w /\ w \in Nat
  BY GemvChunk DEF GemvWanted
<1> HIDE DEF q, w
<1>3. b.op = "WRVEC" /\ b.sz = GemvBeats(m, i) /\ b.t = 0 /\ b.col = 0 /\ b.buf = "vec" /\ b.base = 0 /\ b.index = w
  BY <1>1, <1>2 DEF FillOf, Blank
<1> HIDE DEF b
<1>4. Legalise(b) = <<Final(b, 0, Chan)>>
  BY <1>3 DEF Legalise
<1>5. Resolve(b, 0) = 0 + w
  BY <1>3 DEF Resolve
<1>6. Final(b, 0, Chan) = Encoded("WRVEC", GemvBeats(m, i), 0 + w, Chan, 0)
  BY <1>3, <1>5 DEF Final, Encoded
<1> QED BY <1>4, <1>6 DEF LoadChunk, b, q, w

LEMMA MacAgrees ==
  ASSUME NEW m, NEW first, NEW count, GemvWanted(m, first, count), NEW i \in 0 .. m.nchunks - 1,
         NEW g \in Nat, NEW t \in Nat
  PROVE  Legalise(MulOf(m, Whole(m, first, count), g, i, t))
         = <<Encoded("MAC", GemvBeats(m, i), RowOf[Unit(m, first + g, i)], Chan, t)>>
<1> DEFINE q == Whole(m, first, count)
           b == MulOf(m, q, g, i, t)
           u == Unit(m, first + g, i)
<1>1. q.off = 0 /\ q.len = m.nred /\ q.first = first
  BY WholeIs
<1>2. SlicePart(0, m.nred, i).beats = GemvBeats(m, i) /\ SlicePart(0, m.nred, i).chunk = i /\ SlicePart(0, m.nred, i).col = 0
  BY GemvChunk DEF GemvWanted
<1> HIDE DEF q
<1>4. b.op = "MAC" /\ b.sz = GemvBeats(m, i) /\ b.t = t /\ b.col = 0 /\ b.buf = "mat" /\ b.index = u
  BY <1>1, <1>2 DEF MulOf, Blank
<1> HIDE DEF b, u
<1>5. Legalise(b) = <<Final(b, 0, Chan)>>
  BY <1>4 DEF Legalise
<1>6. Resolve(b, 0) = RowOf[u]
  BY <1>4 DEF Resolve
<1>7. Final(b, 0, Chan) = Encoded("MAC", GemvBeats(m, i), RowOf[u], Chan, t)
  BY <1>4, <1>6 DEF Final, Encoded
<1> QED BY <1>5, <1>7 DEF b, q, u

LEMMA TakeAgrees ==
  ASSUME NEW m, NEW first, NEW count, GemvWanted(m, first, count), NEW g \in Nat, NEW t \in Nat
  PROVE  Legalise(TakeOf(Whole(m, first, count), g, t)) = DrainGroup(VWords, first, g, t)
<1> DEFINE q == Whole(m, first, count)
           b == TakeOf(q, g, t)
           w == g * Nch
<1>1. q.y = 0
  BY WholeIs
<1>2. Nch \in Nat \ {0} /\ w \in Nat /\ VWords \in Nat
  BY BeatSizes, MatvecAssumption
<1> HIDE DEF q
<1>3. b.op = "RD_MAC" /\ b.sz = 0 /\ b.t = t /\ b.col = 0 /\ b.buf = "res" /\ b.base = 0 /\ b.index = w
  BY <1>1 DEF TakeOf, Blank
<1> HIDE DEF b, w
<1>4. Legalise(b) = [c \in 1 .. Nch |-> Final(b, c - 1, {c - 1})]
  BY <1>3 DEF Legalise
<1>5. ASSUME NEW c \in 1 .. Nch
      PROVE  Final(b, c - 1, {c - 1}) = Encoded("RD_MAC", 0, VWords + w + c - 1, {c - 1}, t)
  <2>1. Resolve(b, c - 1) = VWords + 0 + w + (c - 1)
    BY <1>3 DEF Resolve
  <2>2. VWords + 0 + w + (c - 1) = VWords + w + c - 1
    BY <1>2
  <2> QED BY <1>3, <2>1, <2>2 DEF Final, Encoded
<1>6. DrainGroup(VWords, first, g, t) = [c \in 1 .. Nch |-> Encoded("RD_MAC", 0, VWords + w + c - 1, {c - 1}, t)]
  BY DEF DrainGroup, w
<1>7. [c \in 1 .. Nch |-> Final(b, c - 1, {c - 1})] = [c \in 1 .. Nch |-> Encoded("RD_MAC", 0, VWords + w + c - 1, {c - 1}, t)]
  BY <1>5, Zenon
<1> QED BY <1>4, <1>6, <1>7 DEF b, q

(* ... on each pass, ...                                                    *)
LEMMA PassAgrees ==
  ASSUME NEW m, NEW first, NEW count, GemvWanted(m, first, count), NEW nl \in {1, 2},
         NEW g0 \in Nat, PassOf(Whole(m, first, count), nl, g0)
  PROVE  LowPass(m, Whole(m, first, count), nl, g0) = GemvPass(m, first, count, 0, VWords, nl, g0)
<1> DEFINE q == Whole(m, first, count)
           ng == Least(nl, count - g0)
           Macs(ck) == [k \in 1 .. ng |-> <<Encoded("MAC", GemvBeats(m, ck), RowOf[Unit(m, first + g0 + (k - 1), ck)], Chan, k - 1)>>]
           Chunk(ck) == (IF IsEager(m) THEN <<>> ELSE LoadChunk(m, 0, ck)) \o Flat(Macs(ck))
           Chunks == [i \in 1 .. m.nchunks |-> Chunk(i - 1)]
           Takes == [k \in 1 .. ng |-> DrainGroup(VWords, first, g0 + (k - 1), k - 1)]
<1>1. GemvPass(m, first, count, 0, VWords, nl, g0) = Flat(Chunks) \o Flat(Takes)
  BY Zenon DEF GemvPass, For, Flat
<1>2. /\ q.count = count /\ SliceChunks(q.off, q.len) = m.nchunks
      /\ (Hoist(q.off, q.len) <=> IsEager(m))
  BY WholeIs
<1>3. PassGroups(q, nl, g0) = ng /\ ng \in Nat
  BY <1>2 DEF PassGroups, PassOf
<1>4. m.nchunks \in Nat \ {0}
  BY PlannedSizes DEF GemvWanted
<1> HIDE DEF ng
<1>5. ASSUME NEW i \in 1 .. m.nchunks PROVE LowChunk(m, q, nl, g0, i - 1) = Chunk(i - 1)
  <2> DEFINE ck == i - 1
  <2>1. ck \in 0 .. m.nchunks - 1
    BY <1>4
  <2> HIDE DEF ck
  <2>2. Legalise(FillOf(q, ck)) = LoadChunk(m, 0, ck)
    BY <2>1, LoadAgrees
  <2>3. LowFill(q, ck) = IF IsEager(m) THEN <<>> ELSE LoadChunk(m, 0, ck)
    BY <1>2, <2>2 DEF LowFill
  <2>4. ASSUME NEW k \in 1 .. ng
        PROVE  Legalise(MulOf(m, q, g0 + (k - 1), ck, k - 1))
               = <<Encoded("MAC", GemvBeats(m, ck), RowOf[Unit(m, first + g0 + (k - 1), ck)], Chan, k - 1)>>
    <3> DEFINE t == k - 1
               g == g0 + t
    <3>1. t \in Nat /\ g \in Nat /\ first + g = first + g0 + t
      BY <1>3 DEF GemvWanted
    <3> HIDE DEF t, g
    <3>2. Legalise(MulOf(m, q, g, ck, t))
          = <<Encoded("MAC", GemvBeats(m, ck), RowOf[Unit(m, first + g, ck)], Chan, t)>>
      BY <2>1, <3>1, MacAgrees
    <3> QED BY <3>1, <3>2 DEF t, g
  <2>5. LowMacs(m, q, nl, g0, ck) = Macs(ck)
    BY <1>3, <2>4, Zenon DEF LowMacs
  <2>6. LowChunk(m, q, nl, g0, ck) = Chunk(ck)
    BY <2>3, <2>5 DEF LowChunk
  <2> QED BY <2>6 DEF ck
<1>6. LowChunks(m, q, nl, g0) = Chunks
  BY <1>2, <1>5, Zenon DEF LowChunks
<1>7. ASSUME NEW k \in 1 .. ng
      PROVE  Legalise(TakeOf(q, g0 + (k - 1), k - 1)) = DrainGroup(VWords, first, g0 + (k - 1), k - 1)
  <2> DEFINE t == k - 1
             g == g0 + t
  <2>1. t \in Nat /\ g \in Nat
    BY <1>3
  <2> HIDE DEF t, g
  <2>2. Legalise(TakeOf(q, g, t)) = DrainGroup(VWords, first, g, t)
    BY <2>1, TakeAgrees
  <2> QED BY <2>2 DEF g, t
<1>8. LowTakes(q, nl, g0) = Takes
  BY <1>3, <1>7, Zenon DEF LowTakes
<1> HIDE DEF Chunks, Takes
<1> QED BY <1>1, <1>6, <1>8 DEF LowPass

(* ... and on the program.                                                  *)
LEMMA GemvAgrees ==
  ASSUME NEW m, NEW first, NEW count, GemvWanted(m, first, count), NEW nl \in {1, 2}
  PROVE  /\ Lower(GemvLogical(m, first, count, nl)) = GemvProgram(m, first, count, 0, VWords, nl)
         /\ GemvProgram(m, first, count, 0, VWords, nl) = LowPart(m, Whole(m, first, count), nl) \o <<TheEnd>>
<1> DEFINE q == Whole(m, first, count)
           n == CeilDiv(count, nl)
           l == PushPart(NoProgram, m, q, nl)
           Ps == [k \in 1 .. n |-> GemvPass(m, first, count, 0, VWords, nl, (k - 1) * nl)]
           h == IF IsEager(m) THEN LoadChunk(m, 0, 0) ELSE <<>>
<1>1. /\ PieceOf(q) /\ q.count = count /\ Planned(m) /\ (Hoist(q.off, q.len) <=> IsEager(m))
      /\ m.nchunks \in Nat \ {0}
  BY WholeIs, PlannedSizes DEF GemvWanted
<1>2. NoProgram.isr \in Seq(Blanks) /\ Low(NoProgram.isr) = <<>>
  BY LowNone DEF NoProgram
<1>3. l.isr \in Seq(Blanks) /\ Low(l.isr) = <<>> \o LowPart(m, q, nl)
  <2> DEFINE o == NoProgram
  <2>1. o.isr \in Seq(Blanks) /\ Low(o.isr) = <<>>
    BY <1>2
  <2> HIDE DEF o, q
  <2>2. PushPart(o, m, q, nl).isr \in Seq(Blanks) /\ Low(PushPart(o, m, q, nl).isr) = Low(o.isr) \o LowPart(m, q, nl)
    BY <1>1, <2>1, LowerPart, Zenon
  <2> QED BY <2>1, <2>2 DEF o
<1>4. l = [isr |-> l.isr, atoms |-> l.atoms]
  BY DEF PushPart
<1>5. GemvProgram(m, first, count, 0, VWords, nl) = (h \o Flat(Ps)) \o <<TheEnd>>
  BY Zenon DEF GemvProgram, For, Flat, TheEnd
<1>6. GemvLogical(m, first, count, nl) = PushEos(l)
  BY DEF GemvLogical, Whole
<1>7. n = Passes(q, nl)
  BY <1>1 DEF Passes
<1> HIDE DEF l
<1>8. Lower(PushEos(l)) = Low(l.isr) \o <<TheEnd>>
  BY <1>3, <1>4, LowerEnd
<1>9. LowHoisted(q) = h
  <2>1. 0 \in 0 .. m.nchunks - 1
    BY <1>1
  <2>2. Legalise(FillOf(q, 0)) = LoadChunk(m, 0, 0)
    BY <2>1, LoadAgrees
  <2> QED BY <1>1, <2>2 DEF LowHoisted
<1>10. ASSUME NEW k \in 1 .. n
       PROVE  LowPass(m, q, nl, (k - 1) * nl) = GemvPass(m, first, count, 0, VWords, nl, (k - 1) * nl)
  <2>1. k - 1 \in 0 .. Passes(q, nl) - 1
    <3>1. Passes(q, nl) \in Nat
      BY <1>1, PassesPositive
    <3> QED BY <1>7, <3>1
  <2> DEFINE j == k - 1
             g0 == j * nl
  <2>2. j \in 0 .. Passes(q, nl) - 1
    BY <2>1
  <2> HIDE DEF j
  <2>3. g0 \in Nat /\ PassGroups(q, nl, g0) \in 1 .. nl
    BY <1>1, <2>2, GroupsIs
  <2> HIDE DEF g0
  <2>4. PassOf(q, nl, g0)
    BY <2>3 DEF PassOf
  <2>5. LowPass(m, q, nl, g0) = GemvPass(m, first, count, 0, VWords, nl, g0)
    BY <2>3, <2>4, PassAgrees
  <2> QED BY <2>5 DEF g0, j
<1>11. LowPasses(m, q, nl) = Ps
  BY <1>7, <1>10, Zenon DEF LowPasses
<1> HIDE DEF Ps, h
<1>12. LowPart(m, q, nl) = h \o Flat(Ps)
  BY <1>9, <1>11 DEF LowPart
<1>13. Low(l.isr) \in Seq(Finals)
  BY <1>3, BlanksLower, LowIs
<1>14. <<>> \o LowPart(m, q, nl) = LowPart(m, q, nl)
  <2>1. Flat(PartRuns(m, q, nl)) \in Seq(Blanks) /\ Low(Flat(PartRuns(m, q, nl))) = LowPart(m, q, nl)
    BY <1>1, PartLow
  <2>2. LowPart(m, q, nl) \in Seq(Finals)
    BY <2>1, BlanksLower, LowIs
  <2> QED BY <2>2, ConcatEmptySeq
<1> QED BY <1>3, <1>5, <1>6, <1>8, <1>12, <1>14 DEF q

--------------------
(* What holds of no sequence and is kept by every sequence put behind holds *)
(* of all of them put together.                                             *)
LEMMA FlatInduct ==
  ASSUME NEW S, NEW r \in Seq(Seq(S)), NEW G,
         <<0, <<>>>> \in G,
         \A k \in 0 .. Len(r) - 1 : \A a \in Seq(S) : <<k, a>> \in G => <<k + 1, a \o r[k + 1]>> \in G
  PROVE  <<Len(r), Flat(r)>> \in G
<1> DEFINE H == {k \in 0 .. Len(r) : <<k, Joined(r)[k]>> \in G}
<1>1. Len(r) \in Nat
  OBVIOUS
<1>2. 0 \in H
  <2>1. Joined(r)[0] = <<>>
    BY JoinedIs
  <2>2. 0 \in 0 .. Len(r)
    BY <1>1
  <2> QED BY <2>1, <2>2
<1>3. ASSUME NEW k \in 0 .. Len(r) - 1, k \in H PROVE k + 1 \in H
  <2>1. Joined(r)[k] \in Seq(S) /\ Joined(r)[k + 1] = Joined(r)[k] \o r[k + 1]
    BY JoinedNext
  <2>2. <<k, Joined(r)[k]>> \in G
    BY <1>3
  <2>3. <<k + 1, Joined(r)[k] \o r[k + 1]>> \in G
    BY <2>1, <2>2
  <2>4. k + 1 \in 0 .. Len(r)
    BY <1>1
  <2> QED BY <2>1, <2>3, <2>4
<1>4. \A k \in 0 .. Len(r) : k \in H
  <2> HIDE DEF H
  <2> QED BY <1>1, <1>2, <1>3, Counting
<1>5. Flat(r) = Joined(r)[Len(r)]
  BY FlatIsJoined
<1>6. Len(r) \in 0 .. Len(r)
  BY <1>1
<1> QED BY <1>4, <1>5, <1>6

--------------------
(* How often some of the operations occur.                                  *)
Where(p, O) == {i \in DOMAIN p : p[i].op \in O}
Tally(p, O) == Cardinality(Where(p, O))

(* Counting is additive: two programs one behind the other, ...             *)
LEMMA WhereConcat ==
  ASSUME NEW S, NEW a \in Seq(S), NEW b \in Seq(S), NEW O
  PROVE  /\ Where(a \o b, O) = Where(a, O) \cup {Len(a) + i : i \in Where(b, O)}
         /\ Where(a, O) \subseteq 1 .. Len(a) /\ Where(b, O) \subseteq 1 .. Len(b)
<1> DEFINE c == a \o b
<1>1. /\ c \in Seq(S) /\ Len(c) = Len(a) + Len(b)
      /\ \A i \in 1 .. Len(a) + Len(b) : c[i] = IF i <= Len(a) THEN a[i] ELSE b[i - Len(a)]
  BY ConcatProperties
<1>2. Len(a) \in Nat /\ Len(b) \in Nat /\ DOMAIN a = 1 .. Len(a) /\ DOMAIN b = 1 .. Len(b)
  OBVIOUS
<1>3. DOMAIN c = 1 .. Len(a) + Len(b)
  BY <1>1
<1> HIDE DEF c
<1>4. ASSUME NEW i \in Where(c, O) PROVE i \in Where(a, O) \cup {Len(a) + j : j \in Where(b, O)}
  <2>1. i \in 1 .. Len(a) + Len(b) /\ c[i].op \in O
    BY <1>3 DEF Where
  <2>2. CASE i <= Len(a)
    BY <1>1, <1>2, <2>1, <2>2 DEF Where
  <2>3. CASE ~(i <= Len(a))
    <3> DEFINE j == i - Len(a)
    <3>1. j \in 1 .. Len(b) /\ i = Len(a) + j
      BY <1>2, <2>1, <2>3
    <3>2. b[j].op \in O
      BY <1>1, <2>1, <2>3
    <3> HIDE DEF j
    <3>3. j \in Where(b, O)
      BY <1>2, <3>1, <3>2 DEF Where
    <3> QED BY <3>1, <3>3
  <2> QED BY <2>2, <2>3
<1>5. ASSUME NEW i \in Where(a, O) PROVE i \in Where(c, O)
  <2>1. i \in 1 .. Len(a) /\ a[i].op \in O
    BY <1>2 DEF Where
  <2>2. i \in 1 .. Len(a) + Len(b) /\ i <= Len(a)
    BY <1>2, <2>1
  <2> QED BY <1>1, <1>3, <2>1, <2>2 DEF Where
<1>6. ASSUME NEW j \in Where(b, O) PROVE Len(a) + j \in Where(c, O)
  <2>1. j \in 1 .. Len(b) /\ b[j].op \in O
    BY <1>2 DEF Where
  <2> DEFINE i == Len(a) + j
  <2>2. i \in 1 .. Len(a) + Len(b) /\ ~(i <= Len(a)) /\ i - Len(a) = j
    BY <1>2, <2>1
  <2> HIDE DEF i
  <2>3. c[i] = b[i - Len(a)]
    BY <1>1, <2>2
  <2>4. i \in Where(c, O)
    BY <1>3, <2>1, <2>2, <2>3 DEF Where
  <2> QED BY <2>4 DEF i
<1>7. Where(c, O) = Where(a, O) \cup {Len(a) + j : j \in Where(b, O)}
  BY <1>4, <1>5, <1>6
<1>8. Where(a, O) \subseteq 1 .. Len(a) /\ Where(b, O) \subseteq 1 .. Len(b)
  BY <1>2 DEF Where
<1> QED BY <1>7, <1>8 DEF c

LEMMA TallyFinite ==
  ASSUME NEW S, NEW a \in Seq(S), NEW O
  PROVE  IsFiniteSet(Where(a, O)) /\ Tally(a, O) \in Nat
<1>1. Where(a, O) \subseteq 1 .. Len(a) /\ Len(a) \in Nat
  BY DEF Where
<1>2. IsFiniteSet(1 .. Len(a))
  BY <1>1, FS_Interval
<1>3. IsFiniteSet(Where(a, O))
  BY <1>1, <1>2, FS_Subset
<1> QED BY <1>3, FS_CardinalityType DEF Tally

LEMMA TallyConcat ==
  ASSUME NEW S, NEW a \in Seq(S), NEW b \in Seq(S), NEW O
  PROVE  Tally(a \o b, O) = Tally(a, O) + Tally(b, O)
<1> DEFINE A == Where(a, O)
           B == Where(b, O)
           n == Len(a)
           D == {n + i : i \in B}
           f == [i \in B |-> n + i]
<1>1. Where(a \o b, O) = A \cup D /\ A \subseteq 1 .. n /\ B \subseteq 1 .. Len(b)
  BY WhereConcat
<1>2. n \in Nat /\ Len(b) \in Nat
  OBVIOUS
<1>3. IsFiniteSet(A)
  BY TallyFinite
<1>4. IsFiniteSet(B)
  BY TallyFinite
<1>5. Cardinality(A) \in Nat
  BY <1>3, FS_CardinalityType
<1>6. Cardinality(B) \in Nat
  BY <1>4, FS_CardinalityType
<1> HIDE DEF A, B, n
<1>7. \A i, j \in B : n + i = n + j => i = j
  BY <1>1, <1>2
<1>8. f \in Bijection(B, D)
  BY <1>7 DEF Bijection, Injection, Surjection, IsInjective
<1>9. ExistsBijection(B, D)
  BY <1>8 DEF ExistsBijection
<1>10. IsFiniteSet(D) /\ Cardinality(D) = Cardinality(B)
  BY <1>4, <1>9, FS_Bijection
<1>11. A \cap D = {}
  BY <1>1, <1>2
<1> HIDE DEF D
<1>12. Cardinality(A \cup D) = Cardinality(A) + Cardinality(D) - Cardinality(A \cap D)
  BY <1>3, <1>10, FS_Union
<1>13. Cardinality(A \cap D) = 0
  BY <1>11, FS_EmptySet
<1> QED BY <1>1, <1>5, <1>6, <1>10, <1>12, <1>13 DEF Tally, A, B

LEMMA TallyNone ==
  ASSUME NEW O
  PROVE  Tally(<<>>, O) = 0
<1>1. Where(<<>>, O) = {}
  BY DEF Where
<1> QED BY <1>1, FS_EmptySet DEF Tally

Weight(op, O) == IF op \in O THEN 1 ELSE 0

LEMMA TallyOne ==
  ASSUME NEW S, NEW e \in S, NEW O
  PROVE  Tally(<<e>>, O) = Weight(e.op, O)
<1>1. DOMAIN <<e>> = {1} /\ <<e>>[1] = e
  OBVIOUS
<1>2. CASE e.op \in O
  <2>1. Where(<<e>>, O) = {1}
    BY <1>1, <1>2 DEF Where
  <2> QED BY <1>2, <2>1, FS_Singleton DEF Tally, Weight
<1>3. CASE e.op \notin O
  <2>1. Where(<<e>>, O) = {}
    BY <1>1, <1>3 DEF Where
  <2> QED BY <1>3, <2>1, FS_EmptySet DEF Tally, Weight
<1> QED BY <1>2, <1>3

(* ... any row of them, ...                                                 *)
LEMMA TallyFlat ==
  ASSUME NEW S, NEW r \in Seq(Seq(S)), NEW O, NEW w, w[0] = 0,
         \A k \in 0 .. Len(r) - 1 : w[k + 1] = w[k] + Tally(r[k + 1], O)
  PROVE  Tally(Flat(r), O) = w[Len(r)]
<1> DEFINE G == {x \in Nat \X Seq(S) : Tally(x[2], O) = w[x[1]]}
<1>1. <<0, <<>>>> \in G
  BY TallyNone, EmptySeq
<1>2. ASSUME NEW k \in 0 .. Len(r) - 1, NEW a \in Seq(S), <<k, a>> \in G
      PROVE  <<k + 1, a \o r[k + 1]>> \in G
  <2>1. k + 1 \in 1 .. Len(r) /\ k + 1 \in Nat
    OBVIOUS
  <2>2. r[k + 1] \in Seq(S)
    BY <2>1
  <2> DEFINE b == r[k + 1]
  <2>3. b \in Seq(S) /\ w[k + 1] = w[k] + Tally(b, O) /\ Tally(a, O) = w[k]
    BY <1>2, <2>2
  <2> HIDE DEF b
  <2>4. Tally(a \o b, O) = Tally(a, O) + Tally(b, O)
    BY <2>3, TallyConcat
  <2>5. a \o b \in Seq(S)
    BY <2>3, ConcatProperties
  <2> QED BY <2>1, <2>3, <2>4, <2>5 DEF b
<1>3. <<Len(r), Flat(r)>> \in G
  <2> HIDE DEF G
  <2> QED BY <1>1, <1>2, FlatInduct
<1> QED BY <1>3

(* ... and a row of equal counts.                                           *)
LEMMA TallyUniform ==
  ASSUME NEW S, NEW r \in Seq(Seq(S)), NEW O, NEW c \in Nat,
         \A k \in 1 .. Len(r) : Tally(r[k], O) = c
  PROVE  Tally(Flat(r), O) = Len(r) * c
<1> DEFINE n == Len(r)
           w == [k \in 0 .. n |-> k * c]
<1>1. n \in Nat
  OBVIOUS
<1>2. w[0] = 0
  BY <1>1
<1>3. ASSUME NEW k \in 0 .. Len(r) - 1 PROVE w[k + 1] = w[k] + Tally(r[k + 1], O)
  <2>1. k + 1 \in 1 .. Len(r) /\ k \in 0 .. n /\ k + 1 \in 0 .. n
    BY <1>1
  <2>2. w[k + 1] = (k + 1) * c /\ w[k] = k * c
    BY <2>1
  <2>3. (k + 1) * c = k * c + c
    BY <2>1
  <2> QED BY <2>1, <2>2, <2>3
<1>4. w[Len(r)] = Len(r) * c
  BY <1>1
<1> HIDE DEF w, n
<1>5. Tally(Flat(r), O) = w[Len(r)]
  BY <1>2, <1>3, TallyFlat
<1> QED BY <1>4, <1>5

(* Every ISR has an opcode.                                                 *)
LEMMA TallyAll ==
  ASSUME NEW S, \A e \in S : e.op \in Ops, NEW p \in Seq(S)
  PROVE  Tally(p, Ops) = Len(p)
<1>1. Where(p, Ops) = 1 .. Len(p) /\ Len(p) \in Nat
  BY DEF Where
<1>2. Cardinality(1 .. Len(p)) = Len(p)
  <2> DEFINE n == Len(p)
  <2>1. n \in Nat /\ n \in Int /\ 1 \in Int
    BY <1>1
  <2> HIDE DEF n
  <2>2. Cardinality(1 .. n) = IF 1 > n THEN 0 ELSE n - 1 + 1
    BY <2>1, FS_Interval
  <2>3. Cardinality(1 .. n) = n
    BY <2>1, <2>2
  <2> QED BY <2>3 DEF n
<1> QED BY <1>1, <1>2 DEF Tally

(* Lowering multiplies the drains.                                          *)
LEMMA TallyLegalise ==
  ASSUME NEW b \in Blanks, NEW O
  PROVE  Tally(Legalise(b), O) = IF b.op = "RD_MAC" THEN Nch * Weight(b.op, O) ELSE Weight(b.op, O)
<1>1. Legalise(b) \in Seq(Finals)
  BY BlanksLower DEF Lowers
<1>2. \A c, chans : Final(b, c, chans).op = b.op
  BY DEF Final
<1>3. Nch \in Nat \ {0}
  BY BeatSizes
<1>4. CASE b.op = "RD_MAC"
  <2>1. Legalise(b) = [c \in 1 .. Nch |-> Final(b, c - 1, {c - 1})]
    BY <1>4 DEF Legalise
  <2>2. DOMAIN Legalise(b) = 1 .. Nch /\ \A c \in 1 .. Nch : Legalise(b)[c].op = b.op
    BY <1>2, <2>1
  <2>3. CASE b.op \in O
    <3>1. Where(Legalise(b), O) = 1 .. Nch
      BY <2>2, <2>3 DEF Where
    <3>2. Cardinality(1 .. Nch) = Nch
      BY <1>3, FS_Interval
    <3> QED BY <1>3, <1>4, <2>3, <3>1, <3>2 DEF Tally, Weight
  <2>4. CASE b.op \notin O
    <3>1. Where(Legalise(b), O) = {}
      BY <2>2, <2>4 DEF Where
    <3>2. Cardinality({}) = 0
      BY FS_EmptySet
    <3> QED BY <1>3, <1>4, <2>4, <3>1, <3>2 DEF Tally, Weight
  <2> QED BY <2>3, <2>4
<1>5. CASE b.op # "RD_MAC"
  <2>1. Legalise(b) = <<Final(b, 0, Chan)>>
    BY <1>5 DEF Legalise
  <2>2. Chan \in SUBSET Int
    BY MatvecAssumption, TensorAssumption
  <2> DEFINE e == Final(b, 0, Chan)
  <2>3. e \in Finals /\ e.op = b.op
    BY <1>2, <2>2 DEF Finals
  <2> HIDE DEF e
  <2>4. Tally(<<e>>, O) = Weight(e.op, O)
    BY <2>3, TallyOne
  <2> QED BY <1>5, <2>1, <2>3, <2>4 DEF e
<1> QED BY <1>4, <1>5

(* ... and keeps everything else as often as it was.                        *)
LEMMA SubSeqNext ==
  ASSUME NEW S, NEW r \in Seq(S), NEW k \in 0 .. Len(r) - 1
  PROVE  /\ SubSeq(r, 1, k) \in Seq(S) /\ r[k + 1] \in S
         /\ SubSeq(r, 1, k + 1) = SubSeq(r, 1, k) \o <<r[k + 1]>>
<1>1. Len(r) \in Nat /\ k + 1 \in 1 .. Len(r) /\ k \in 0 .. Len(r)
  OBVIOUS
<1> DEFINE u == SubSeq(r, 1, k)
           w == SubSeq(r, 1, k + 1)
           x == <<r[k + 1]>>
<1>2. u \in Seq(S) /\ Len(u) = k /\ \A i \in 1 .. k : u[i] = r[i]
  BY <1>1
<1>3. w \in Seq(S) /\ Len(w) = k + 1 /\ \A i \in 1 .. k + 1 : w[i] = r[i]
  BY <1>1
<1>4. x \in Seq(S) /\ Len(x) = 1 /\ x[1] = r[k + 1] /\ r[k + 1] \in S
  BY <1>1
<1> HIDE DEF u, w, x
<1>5. /\ u \o x \in Seq(S) /\ Len(u \o x) = Len(u) + Len(x)
      /\ \A i \in 1 .. Len(u) + Len(x) : (u \o x)[i] = IF i <= Len(u) THEN u[i] ELSE x[i - Len(u)]
  BY <1>2, <1>4, ConcatProperties
<1>6. /\ Len(u \o x) = k + 1
      /\ \A i \in 1 .. k + 1 : (u \o x)[i] = IF i <= k THEN u[i] ELSE x[i - k]
  BY <1>2, <1>4, <1>5
<1>7. \A i \in 1 .. k + 1 : (u \o x)[i] = w[i]
  BY <1>1, <1>2, <1>3, <1>4, <1>6
<1>8. w = u \o x
  BY <1>3, <1>5, <1>6, <1>7, SeqEqual
<1> QED BY <1>2, <1>4, <1>8 DEF u, w, x

(* Lowering splits each RD_MAC by channel and keeps the rest.               *)
LEMMA TallyLow ==
  ASSUME NEW b \in Seq(Blanks), NEW O
  PROVE  Tally(Low(b), O) = Tally(b, O) + Tally(b, {"RD_MAC"} \cap O) * (Nch - 1)
<1> DEFINE n == Len(b)
           r == [i \in 1 .. n |-> Legalise(b[i])]
           D == {"RD_MAC"} \cap O
           w == [k \in 0 .. n |-> Tally(SubSeq(b, 1, k), O) + Tally(SubSeq(b, 1, k), D) * (Nch - 1)]
<1>1. n \in Nat /\ Nch \in Nat \ {0}
  BY BeatSizes
<1>2. r \in Seq(Seq(Finals)) /\ Len(r) = n
  BY BlanksLower, LowIs
<1>3. \A k \in 1 .. n : r[k] = Legalise(b[k])
  OBVIOUS
<1>4. Low(b) = Flat(r)
  BY DEF Low
<1>5. \A k \in 0 .. n : w[k] = Tally(SubSeq(b, 1, k), O) + Tally(SubSeq(b, 1, k), D) * (Nch - 1)
  OBVIOUS
<1>6. w[0] = 0
  <2>1. SubSeq(b, 1, 0) = <<>>
    OBVIOUS
  <2>2. Tally(<<>>, O) = 0
    BY TallyNone
  <2>3. Tally(<<>>, D) = 0
    BY TallyNone
  <2>4. 0 \in 0 .. n
    BY <1>1
  <2> HIDE DEF w, D
  <2>5. w[0] = Tally(<<>>, O) + Tally(<<>>, D) * (Nch - 1)
    BY <1>5, <2>1, <2>4
  <2> QED BY <1>1, <2>2, <2>3, <2>5
<1> HIDE DEF r, w, n, D
<1>7. ASSUME NEW k \in 0 .. Len(r) - 1 PROVE w[k + 1] = w[k] + Tally(r[k + 1], O)
  <2>0. k \in 0 .. Len(b) - 1
    BY <1>2 DEF n
  <2> DEFINE u == SubSeq(b, 1, k)
             e == b[k + 1]
  <2>1. u \in Seq(Blanks) /\ e \in Blanks /\ SubSeq(b, 1, k + 1) = u \o <<e>>
    BY <2>0, SubSeqNext
  <2>2. r[k + 1] = Legalise(e)
    BY <1>1, <1>2, <1>3
  <2>3. w[k] = Tally(u, O) + Tally(u, D) * (Nch - 1)
    BY <1>1, <1>2, <1>5
  <2>4. w[k + 1] = Tally(u \o <<e>>, O) + Tally(u \o <<e>>, D) * (Nch - 1)
    <3>1. k + 1 \in 0 .. n
      BY <1>1, <1>2
    <3> QED BY <1>5, <2>1, <3>1
  <2> HIDE DEF u, e
  <2>5. <<e>> \in Seq(Blanks)
    BY <2>1
  <2>6. Tally(u \o <<e>>, O) = Tally(u, O) + Tally(<<e>>, O)
    BY <2>1, <2>5, TallyConcat
  <2>7. Tally(u \o <<e>>, D) = Tally(u, D) + Tally(<<e>>, D)
    BY <2>1, <2>5, TallyConcat
  <2>8. Tally(<<e>>, O) = Weight(e.op, O)
    BY <2>1, TallyOne
  <2>9. Tally(<<e>>, D) = Weight(e.op, D)
    BY <2>1, TallyOne
  <2>10. Tally(Legalise(e), O) = IF e.op = "RD_MAC" THEN Nch * Weight(e.op, O) ELSE Weight(e.op, O)
    BY <2>1, TallyLegalise
  <2>11. Tally(u, O) \in Nat
    BY <2>1, TallyFinite
  <2>12. Tally(u, D) \in Nat
    BY <2>1, TallyFinite
  <2> DEFINE x == Tally(u, O)
             y == Tally(u, D)
             f == Weight(e.op, O)
             g == Weight(e.op, D)
  <2>13. f \in {0, 1} /\ g = IF e.op = "RD_MAC" THEN f ELSE 0
    BY DEF Weight, D
  <2>14. x \in Nat /\ y \in Nat
    BY <2>11, <2>12
  <2> HIDE DEF x, y, f, g
  <2>15. (x + f) + (y + g) * (Nch - 1) = (x + y * (Nch - 1)) + (IF e.op = "RD_MAC" THEN Nch * f ELSE f)
    <3>1. (y + g) * (Nch - 1) = y * (Nch - 1) + g * (Nch - 1) /\ y * (Nch - 1) \in Int
      BY <1>1, <2>13, <2>14
    <3>2. f + g * (Nch - 1) = IF e.op = "RD_MAC" THEN Nch * f ELSE f
      BY <1>1, <2>13
    <3>3. g * (Nch - 1) \in Int
      BY <1>1, <2>13
    <3> QED BY <2>13, <2>14, <3>1, <3>2, <3>3
  <2> QED BY <2>2, <2>3, <2>4, <2>6, <2>7, <2>8, <2>9, <2>10, <2>15 DEF x, y, f, g
<1>8. Tally(Flat(r), O) = w[Len(r)]
  BY <1>2, <1>6, <1>7, TallyFlat
<1>9. SubSeq(b, 1, n) = b /\ n \in 0 .. n
  BY <1>1 DEF n
<1>10. w[n] = Tally(b, O) + Tally(b, D) * (Nch - 1)
  BY <1>5, <1>9
<1> QED BY <1>2, <1>4, <1>8, <1>10 DEF D

(* What a pass and a part cost.                                             *)
PassFill(q, O) == IF Hoist(q.off, q.len) THEN 0 ELSE Weight("WRVEC", O)
GroupCost(q, O) == SliceChunks(q.off, q.len) * Weight("MAC", O) + Weight("RD_MAC", O)
PassCostOf(q, nl, g0, O) ==
  SliceChunks(q.off, q.len) * PassFill(q, O) + PassGroups(q, nl, g0) * GroupCost(q, O)

(* What a chunk, a pass and a piece cost.                                   *)
LEMMA ChunkTally ==
  ASSUME NEW m, Planned(m), NEW q, PieceOf(q), NEW nl \in {1, 2}, NEW g0, PassOf(q, nl, g0),
         NEW i, InSlice(q, i), NEW O
  PROVE  Tally(ChunkRun(m, q, nl, g0, i), O) = PassFill(q, O) + PassGroups(q, nl, g0) * Weight("MAC", O)
<1> DEFINE r == MacRun(m, q, nl, g0, i)
           ng == PassGroups(q, nl, g0)
           c == Weight("MAC", O)
<1>1. r \in Seq(Seq(Blanks)) /\ Flat(r) \in Seq(Blanks) /\ Len(r) = ng
  BY MacRunTyped
<1>2. \A k \in 1 .. ng : r[k] = <<MulOf(m, q, g0 + (k - 1), i, k - 1)>>
  BY DEF MacRun
<1>3. ChunkRun(m, q, nl, g0, i) = FillRun(q, i) \o Flat(r) /\ FillRun(q, i) \in Seq(Blanks)
  BY ChunkRunTyped
<1>4. c \in Nat
  BY DEF Weight
<1> HIDE DEF r, c
<1>5. ASSUME NEW k \in 1 .. ng PROVE Tally(r[k], O) = c
  <2>1. g0 + (k - 1) \in Nat /\ k - 1 \in Nat
    BY DEF PassOf
  <2> DEFINE b == MulOf(m, q, g0 + (k - 1), i, k - 1)
  <2>2. b \in Blanks /\ r[k] = <<b>>
    BY <1>2, <2>1, MulTyped
  <2>3. b.op = "MAC"
    BY DEF MulOf, Blank
  <2> HIDE DEF b
  <2>4. Tally(<<b>>, O) = Weight(b.op, O)
    BY <2>2, TallyOne
  <2> QED BY <2>2, <2>3, <2>4 DEF c
<1>6. Tally(Flat(r), O) = Len(r) * c
  BY <1>1, <1>4, <1>5, TallyUniform
<1>7. Tally(FillRun(q, i), O) = PassFill(q, O)
  <2>1. CASE Hoist(q.off, q.len)
    BY <2>1, TallyNone DEF FillRun, PassFill
  <2>2. CASE ~Hoist(q.off, q.len)
    <3> DEFINE b == FillOf(q, i)
    <3>1. b \in Blanks
      BY FillTyped
    <3>2. b.op = "WRVEC"
      BY DEF FillOf, Blank
    <3> HIDE DEF b
    <3>3. Tally(<<b>>, O) = Weight(b.op, O)
      BY <3>1, TallyOne
    <3> QED BY <2>2, <3>2, <3>3 DEF FillRun, PassFill, b
  <2> QED BY <2>1, <2>2
<1>8. Tally(FillRun(q, i) \o Flat(r), O) = Tally(FillRun(q, i), O) + Tally(Flat(r), O)
  BY <1>1, <1>3, TallyConcat
<1> QED BY <1>1, <1>3, <1>6, <1>7, <1>8 DEF c

LEMMA PassTally ==
  ASSUME NEW m, Planned(m), NEW q, PieceOf(q), NEW nl \in {1, 2}, NEW g0, PassOf(q, nl, g0), NEW O
  PROVE  Tally(Pass(m, q, nl, g0), O) = PassCostOf(q, nl, g0, O)
<1> DEFINE r == ChunkRuns(m, q, nl, g0)
           d == TakeRun(q, nl, g0)
           n == SliceChunks(q.off, q.len)
           ng == PassGroups(q, nl, g0)
           f == PassFill(q, O)
           c == Weight("MAC", O)
           t == Weight("RD_MAC", O)
<1>1. r \in Seq(Seq(Blanks)) /\ Len(r) = n /\ Flat(r) \in Seq(Blanks)
  BY ChunkRunsTyped
<1>2. d \in Seq(Seq(Blanks)) /\ Len(d) = ng /\ Flat(d) \in Seq(Blanks)
  BY TakeRunTyped
<1>3. n \in Nat \ {0}
  BY PieceSlice
<1>4. f \in Nat /\ c \in Nat /\ t \in Nat /\ ng \in Nat
  BY DEF PassFill, Weight, PassOf
<1>5. \A i \in 1 .. n : r[i] = ChunkRun(m, q, nl, g0, i - 1)
  BY DEF ChunkRuns
<1>6. \A i \in 1 .. n : InSlice(q, i - 1)
  BY <1>3 DEF InSlice
<1>7. \A k \in 1 .. ng : d[k] = <<TakeOf(q, g0 + (k - 1), k - 1)>>
  BY DEF TakeRun
<1>8. Pass(m, q, nl, g0) = Flat(r) \o Flat(d)
  BY PassIs
<1> HIDE DEF r, d
<1>9. \A i \in 1 .. n : Tally(r[i], O) = f + ng * c
  BY <1>5, <1>6, ChunkTally
<1>10. ASSUME NEW k \in 1 .. ng PROVE Tally(d[k], O) = t
  <2>1. g0 + (k - 1) \in Nat /\ k - 1 \in Nat
    BY DEF PassOf
  <2> DEFINE b == TakeOf(q, g0 + (k - 1), k - 1)
  <2>2. b \in Blanks /\ d[k] = <<b>>
    BY <1>7, <2>1, TakeTyped
  <2>3. b.op = "RD_MAC"
    BY DEF TakeOf, Blank
  <2> HIDE DEF b
  <2>4. Tally(<<b>>, O) = Weight(b.op, O)
    BY <2>2, TallyOne
  <2> QED BY <2>2, <2>3, <2>4
<1>11. PassCostOf(q, nl, g0, O) = n * f + ng * (n * c + t)
  BY DEF PassCostOf, GroupCost
<1> HIDE DEF n, ng, f, c, t
<1>12. Tally(Flat(r), O) = n * (f + ng * c)
  <2>1. f + ng * c \in Nat
    BY <1>4
  <2> DEFINE x == f + ng * c
  <2> HIDE DEF x
  <2>2. Tally(Flat(r), O) = Len(r) * x
    BY <1>1, <1>9, <2>1, TallyUniform DEF x
  <2> QED BY <1>1, <2>2 DEF x
<1>13. Tally(Flat(d), O) = ng * t
  <2>1. Tally(Flat(d), O) = Len(d) * t
    BY <1>2, <1>4, <1>10, TallyUniform
  <2> QED BY <1>2, <2>1
<1>14. Tally(Flat(r) \o Flat(d), O) = Tally(Flat(r), O) + Tally(Flat(d), O)
  BY <1>1, <1>2, TallyConcat
<1>15. n * (f + ng * c) + ng * t = n * f + ng * (n * c + t)
  <2>1. n * (f + ng * c) = n * f + n * (ng * c)
    BY <1>3, <1>4
  <2>2. ng * (n * c + t) = ng * (n * c) + ng * t
    BY <1>3, <1>4
  <2>3. n * (ng * c) = ng * (n * c)
    BY <1>3, <1>4
  <2>4. n * f \in Nat /\ ng * (n * c) \in Nat /\ ng * t \in Nat
    BY <1>3, <1>4
  <2> QED BY <2>1, <2>2, <2>3, <2>4
<1> QED BY <1>8, <1>11, <1>12, <1>13, <1>14, <1>15

HoistCost(q, O) == IF Hoist(q.off, q.len) THEN Weight("WRVEC", O) ELSE 0
PartCost(q, nl, O) ==
  HoistCost(q, O) + Passes(q, nl) * (SliceChunks(q.off, q.len) * PassFill(q, O)) + q.count * GroupCost(q, O)

LEMMA PartTally ==
  ASSUME NEW m, Planned(m), NEW q, PieceOf(q), NEW nl \in {1, 2}, NEW O
  PROVE  Tally(Flat(PartRuns(m, q, nl)), O) = PartCost(q, nl, O)
<1> DEFINE h == Hoisted(q)
           r == PassRuns(m, q, nl)
           n == Passes(q, nl)
           c == q.count
           x == SliceChunks(q.off, q.len) * PassFill(q, O)
           y == GroupCost(q, O)
           w == [k \in 0 .. n |-> k * x + Least(k * nl, c) * y]
<1>1. /\ r \in Seq(Seq(Blanks)) /\ Len(r) = n
      /\ h \in Seq(Blanks) /\ PartRuns(m, q, nl) = <<h>> \o r
  BY PartRunsAre
<1>2. \A k \in 1 .. n : r[k] = Pass(m, q, nl, (k - 1) * nl)
  BY Zenon DEF PassRuns
<1>3. n \in Nat \ {0}
  BY PassesPositive
<1>4. c \in Nat \ {0} /\ nl \in Nat \ {0}
  BY DEF PieceOf
<1>5. x \in Nat /\ y \in Nat
  <2>2. SliceChunks(q.off, q.len) \in Nat
    BY PieceSlice
  <2>3. PassFill(q, O) \in Nat /\ Weight("MAC", O) \in Nat /\ Weight("RD_MAC", O) \in Nat
    BY DEF PassFill, Weight
  <2> DEFINE a == SliceChunks(q.off, q.len)
             b == PassFill(q, O)
             d == Weight("MAC", O)
             e == Weight("RD_MAC", O)
  <2>4. a \in Nat /\ b \in Nat /\ d \in Nat /\ e \in Nat
    BY <2>2, <2>3
  <2> HIDE DEF a, b, d, e
  <2>5. a * b \in Nat /\ a * d + e \in Nat
    BY <2>4
  <2> QED BY <2>5 DEF a, b, d, e, GroupCost
<1>6. \A k \in 0 .. n : w[k] = k * x + Least(k * nl, c) * y
  OBVIOUS
<1>7. \A k \in 0 .. n - 1 : PassCostOf(q, nl, k * nl, O) = x + PassGroups(q, nl, k * nl) * y
  BY DEF PassCostOf
<1>8. PartCost(q, nl, O) = HoistCost(q, O) + n * x + c * y
  BY DEF PartCost
<1> HIDE DEF h, r, x, y, w
<1>9. w[0] = 0
  <2>1. 0 \in 0 .. n /\ Least(0 * nl, c) = 0
    BY <1>3, <1>4 DEF Least
  <2>2. w[0] = 0 * x + 0 * y
    BY <1>6, <2>1
  <2> QED BY <1>5, <2>2
<1>10. ASSUME NEW k \in 0 .. Len(r) - 1 PROVE w[k + 1] = w[k] + Tally(r[k + 1], O)
  <2>1. k \in 0 .. n - 1 /\ k \in 0 .. n /\ k + 1 \in 0 .. n /\ k + 1 \in 1 .. n /\ (k + 1) - 1 = k /\ k \in Nat
    BY <1>1, <1>3
  <2> DEFINE g0 == k * nl
             g == PassGroups(q, nl, g0)
  <2>2. /\ g0 \in Nat /\ g0 < c /\ g \in 1 .. nl /\ g0 + g <= c
        /\ (k # n - 1 => g = nl) /\ (k = n - 1 => g0 + g = c)
    BY <2>1, GroupsIs
  <2>3. PassOf(q, nl, g0)
    BY <2>2 DEF PassOf
  <2>4. Tally(Pass(m, q, nl, g0), O) = PassCostOf(q, nl, g0, O)
    BY <2>3, PassTally
  <2>5. r[k + 1] = Pass(m, q, nl, g0)
    BY <1>2, <2>1
  <2>6. PassCostOf(q, nl, g0, O) = x + g * y
    BY <1>7, <2>1
  <2>7. (k + 1) * nl = g0 + nl
    BY <1>4, <2>1
  <2> HIDE DEF g0, g
  <2>8. w[k] = k * x + Least(g0, c) * y
    BY <1>6, <2>1 DEF g0
  <2>9. w[k + 1] = (k + 1) * x + Least(g0 + nl, c) * y
    BY <1>6, <2>1, <2>7
  <2>10. Least(g0, c) = g0 /\ Least(g0 + nl, c) = g0 + g
    <3>1. CASE k # n - 1
      BY <1>4, <2>2, <3>1 DEF Least
    <3>2. CASE k = n - 1
      BY <1>4, <2>2, <3>2 DEF Least
    <3> QED BY <3>1, <3>2
  <2>11. (k + 1) * x + (g0 + g) * y = (k * x + g0 * y) + (x + g * y)
    <3>1. g \in Nat
      BY <1>4, <2>2
    <3>2. (k + 1) * x = k * x + x /\ (g0 + g) * y = g0 * y + g * y
      BY <1>5, <2>1, <2>2, <3>1
    <3>3. k * x \in Nat /\ g0 * y \in Nat /\ g * y \in Nat
      BY <1>5, <2>1, <2>2, <3>1
    <3> QED BY <1>5, <3>2, <3>3
  <2> QED BY <2>4, <2>5, <2>6, <2>8, <2>9, <2>10, <2>11
<1>11. Tally(Flat(r), O) = w[Len(r)]
  BY <1>1, <1>9, <1>10, TallyFlat
<1>12. w[n] = n * x + c * y
  <2> DEFINE k == n - 1
             g0 == k * nl
             g == PassGroups(q, nl, g0)
  <2>1. k \in 0 .. n - 1 /\ n \in 0 .. n /\ k \in Nat /\ k + 1 = n
    BY <1>3
  <2>2. g0 \in Nat /\ g \in 1 .. nl /\ g0 + g = c
    BY <2>1, GroupsIs
  <2> HIDE DEF g
  <2>3. n * nl = g0 + nl
    <3> HIDE DEF k
    <3>1. (k + 1) * nl = k * nl + nl
      BY <1>4, <2>1
    <3> QED BY <2>1, <3>1
  <2>4. Least(n * nl, c) = c
    BY <1>4, <2>2, <2>3 DEF Least
  <2> QED BY <1>6, <2>1, <2>4
<1>13. <<h>> \in Seq(Seq(Blanks)) /\ Flat(<<h>>) = h
  BY <1>1, FlatOne
<1>14. Flat(<<h>> \o r) = Flat(<<h>>) \o Flat(r)
  BY <1>1, <1>13, FlatConcat
<1>15. Flat(r) \in Seq(Blanks)
  BY <1>1, FlatIsJoined
<1>16. Tally(h \o Flat(r), O) = Tally(h, O) + Tally(Flat(r), O)
  BY <1>1, <1>15, TallyConcat
<1>17. Tally(h, O) = HoistCost(q, O)
  <2>1. CASE ~Hoist(q.off, q.len)
    BY <2>1, TallyNone DEF Hoisted, HoistCost, h
  <2>2. CASE Hoist(q.off, q.len)
    <3> DEFINE b == FillOf(q, 0)
    <3>1. h = <<b>>
      BY <2>2 DEF Hoisted, h
    <3>2. b.op = "WRVEC"
      BY DEF FillOf, Blank
    <3> HIDE DEF b
    <3>3. b \in Blanks
      BY <1>1, <3>1
    <3>4. Tally(<<b>>, O) = Weight(b.op, O)
      BY <3>3, TallyOne
    <3> QED BY <2>2, <3>1, <3>2, <3>4 DEF HoistCost
  <2> QED BY <2>1, <2>2
<1>18. HoistCost(q, O) \in Nat
  BY DEF HoistCost, Weight
<1>19. n * x \in Nat /\ c * y \in Nat
  BY <1>3, <1>4, <1>5
<1>20. Tally(Flat(PartRuns(m, q, nl)), O) = HoistCost(q, O) + (n * x + c * y)
  <2>1. Flat(PartRuns(m, q, nl)) = h \o Flat(r)
    BY <1>1, <1>13, <1>14
  <2>2. Tally(Flat(r), O) = n * x + c * y
    BY <1>1, <1>11, <1>12
  <2> QED BY <1>16, <1>17, <2>1, <2>2
<1> DEFINE u == n * x
           v == c * y
           z == HoistCost(q, O)
<1>21. u \in Nat /\ v \in Nat /\ z \in Nat
  BY <1>18, <1>19
<1>22. PartCost(q, nl, O) = z + u + v /\ Tally(Flat(PartRuns(m, q, nl)), O) = z + (u + v)
  BY <1>8, <1>20
<1> HIDE DEF u, v, z
<1> QED BY <1>21, <1>22

Fills(q, nl) == IF Hoist(q.off, q.len) THEN 1 ELSE Passes(q, nl) * SliceChunks(q.off, q.len)

(* A piece, by sort of ISR.                                                 *)
LEMMA PartCosts ==
  ASSUME NEW q, PieceOf(q), NEW nl \in {1, 2}
  PROVE  /\ PartCost(q, nl, {"RD_MAC"}) = q.count /\ PartCost(q, nl, {"WRVEC"}) = Fills(q, nl)
         /\ PartCost(q, nl, Ops) = Fills(q, nl) + q.count * SliceChunks(q.off, q.len) + q.count
         /\ Fills(q, nl) \in Nat \ {0}
<1> DEFINE n == SliceChunks(q.off, q.len)
           c == q.count
           p == Passes(q, nl)
<1>1. n \in Nat \ {0}
  BY PieceSlice
<1>2. c \in Nat \ {0}
  BY DEF PieceOf
<1>3. p \in Nat \ {0}
  BY PassesPositive
<1>4. \A O : PartCost(q, nl, O) =
         (IF Hoist(q.off, q.len) THEN Weight("WRVEC", O) ELSE 0)
         + p * (n * (IF Hoist(q.off, q.len) THEN 0 ELSE Weight("WRVEC", O)))
         + c * (n * Weight("MAC", O) + Weight("RD_MAC", O))
  BY DEF PartCost, HoistCost, PassFill, GroupCost
<1>5. Fills(q, nl) = IF Hoist(q.off, q.len) THEN 1 ELSE p * n
  BY DEF Fills
<1> HIDE DEF n, c, p
<1>6. p * n \in Nat \ {0} /\ c * n \in Nat
  BY <1>1, <1>2, <1>3, ProductPositive
<1>7. /\ Weight("WRVEC", {"RD_MAC"}) = 0 /\ Weight("MAC", {"RD_MAC"}) = 0 /\ Weight("RD_MAC", {"RD_MAC"}) = 1
      /\ Weight("WRVEC", {"WRVEC"}) = 1 /\ Weight("MAC", {"WRVEC"}) = 0 /\ Weight("RD_MAC", {"WRVEC"}) = 0
      /\ Weight("WRVEC", Ops) = 1 /\ Weight("MAC", Ops) = 1 /\ Weight("RD_MAC", Ops) = 1
  BY DEF Weight, Ops
<1>8. n * 0 = 0 /\ n * 1 = n /\ c * 0 = 0 /\ c * 1 = c /\ p * 0 = 0 /\ c * (n + 1) = c * n + c
  BY <1>1, <1>2, <1>3
<1>9. PartCost(q, nl, {"RD_MAC"}) = c
  <2>1. PartCost(q, nl, {"RD_MAC"}) = 0 + p * (n * 0) + c * (n * 0 + 1)
    BY <1>4, <1>7
  <2> QED BY <1>2, <1>8, <2>1
<1>10. PartCost(q, nl, {"WRVEC"}) = Fills(q, nl)
  <2>1. PartCost(q, nl, {"WRVEC"}) = (IF Hoist(q.off, q.len) THEN 1 ELSE 0)
           + p * (n * (IF Hoist(q.off, q.len) THEN 0 ELSE 1)) + c * (n * 0 + 0)
    BY <1>4, <1>7
  <2>2. CASE Hoist(q.off, q.len)
    BY <1>2, <1>5, <1>8, <2>1, <2>2
  <2>3. CASE ~Hoist(q.off, q.len)
    BY <1>2, <1>5, <1>6, <1>8, <2>1, <2>3
  <2> QED BY <2>2, <2>3
<1>11. PartCost(q, nl, Ops) = Fills(q, nl) + c * n + c
  <2>1. PartCost(q, nl, Ops) = (IF Hoist(q.off, q.len) THEN 1 ELSE 0)
           + p * (n * (IF Hoist(q.off, q.len) THEN 0 ELSE 1)) + c * (n * 1 + 1)
    BY <1>4, <1>7
  <2>2. CASE Hoist(q.off, q.len)
    BY <1>2, <1>5, <1>6, <1>8, <2>1, <2>2
  <2>3. CASE ~Hoist(q.off, q.len)
    BY <1>2, <1>5, <1>6, <1>8, <2>1, <2>3
  <2> QED BY <2>2, <2>3
<1> QED BY <1>5, <1>6, <1>9, <1>10, <1>11 DEF c, n

(* A program of one part.                                                   *)
LEMMA TheEndIs == TheEnd \in Finals /\ TheEnd.op = "EOS"
<1>1. Low(<<EndOfProgram>>) \in Seq(Finals)
  <2>1. <<EndOfProgram>> \in Seq(Blanks)
    BY EndTyped
  <2> QED BY <2>1, BlanksLower, LowIs
<1>2. <<TheEnd>> \in Seq(Finals)
  BY <1>1, EndLow
<1>3. TheEnd.op = "EOS"
  BY DEF TheEnd, Encoded
<1> QED BY <1>2, <1>3

(* A piece lowered and ended.                                               *)
LEMMA ProgramTally ==
  ASSUME NEW b \in Seq(Blanks), NEW O
  PROVE  /\ Low(b) \o <<TheEnd>> \in Seq(Finals)
         /\ Tally(Low(b) \o <<TheEnd>>, O)
            = Tally(b, O) + Tally(b, {"RD_MAC"} \cap O) * (Nch - 1) + Weight("EOS", O)
<1>1. Low(b) \in Seq(Finals)
  BY BlanksLower, LowIs
<1>2. <<TheEnd>> \in Seq(Finals)
  BY TheEndIs
<1>3. Tally(Low(b), O) = Tally(b, O) + Tally(b, {"RD_MAC"} \cap O) * (Nch - 1)
  BY TallyLow
<1>4. Tally(<<TheEnd>>, O) = Weight("EOS", O)
  <2> DEFINE e == TheEnd
  <2>1. e \in Finals /\ e.op = "EOS"
    BY TheEndIs
  <2> HIDE DEF e
  <2>2. Tally(<<e>>, O) = Weight(e.op, O)
    BY <2>1, TallyOne
  <2> QED BY <2>1, <2>2 DEF e
<1>5. Tally(Low(b) \o <<TheEnd>>, O) = Tally(Low(b), O) + Tally(<<TheEnd>>, O)
  BY <1>1, <1>2, TallyConcat
<1>6. Low(b) \o <<TheEnd>> \in Seq(Finals)
  BY <1>1, <1>2, ConcatProperties
<1> QED BY <1>3, <1>4, <1>5, <1>6

(* The counts pim_gemv_nisr and pim_gemv_nwrvec give before anything is built*)
(* are those of the program.                                                *)
LEMMA GemvTally ==
  ASSUME NEW m, NEW first, NEW count, GemvWanted(m, first, count), NEW nl \in {1, 2}
  PROVE  /\ Cardinality(At(GemvProgram(m, first, count, 0, VWords, nl), "RD_MAC")) = count * Nch
         /\ (count * Nch) \div Nch = count
         /\ GemvProgram(m, first, count, 0, VWords, nl) # <<>>
         /\ Len(GemvProgram(m, first, count, 0, VWords, nl)) = GemvNisr(m, count, nl)
         /\ Cardinality(At(GemvProgram(m, first, count, 0, VWords, nl), "WRVEC")) = GemvNwrvec(m, count, nl)
<1> DEFINE q == Whole(m, first, count)
           b == Flat(PartRuns(m, q, nl))
           p == GemvProgram(m, first, count, 0, VWords, nl)
           n == m.nchunks
<1>1. /\ PieceOf(q) /\ q.count = count /\ Planned(m) /\ count \in Nat \ {0}
      /\ SliceChunks(q.off, q.len) = n /\ (Hoist(q.off, q.len) <=> IsEager(m))
  BY WholeIs DEF GemvWanted
<1>2. b \in Seq(Blanks) /\ Low(b) = LowPart(m, q, nl)
  BY <1>1, PartLow
<1>3. p = LowPart(m, q, nl) \o <<TheEnd>>
  BY GemvAgrees
<1>4. n \in Nat \ {0}
  BY PlannedSizes DEF GemvWanted
<1>5. \A O : Tally(b, O) = PartCost(q, nl, O)
  BY <1>1, PartTally
<1>6. /\ PartCost(q, nl, {"RD_MAC"}) = q.count /\ PartCost(q, nl, {"WRVEC"}) = Fills(q, nl)
      /\ PartCost(q, nl, Ops) = Fills(q, nl) + q.count * SliceChunks(q.off, q.len) + q.count
      /\ Fills(q, nl) \in Nat \ {0}
  BY <1>1, PartCosts
<1>7. Fills(q, nl) = GemvNwrvec(m, count, nl)
  BY <1>1 DEF Fills, GemvNwrvec, Passes
<1> HIDE DEF q, b, p, n
<1>8. p \in Seq(Finals) /\ \A O : Tally(p, O) = Tally(b, O) + Tally(b, {"RD_MAC"} \cap O) * (Nch - 1) + Weight("EOS", O)
  BY <1>2, <1>3, ProgramTally
<1>9. Nch \in Nat \ {0} /\ count * (Nch - 1) = count * Nch - count /\ count * Nch \in Nat
  BY <1>1, BeatSizes
<1>10. Tally(p, {"RD_MAC"}) = count * Nch
  <2>1. {"RD_MAC"} \cap {"RD_MAC"} = {"RD_MAC"} /\ Weight("EOS", {"RD_MAC"}) = 0
    BY DEF Weight
  <2>2. Tally(p, {"RD_MAC"}) = count + count * (Nch - 1) + 0
    BY <1>1, <1>5, <1>6, <1>8, <2>1
  <2> QED BY <1>1, <1>9, <2>2
<1>11. Tally(p, {"WRVEC"}) = GemvNwrvec(m, count, nl)
  <2>1. {"RD_MAC"} \cap {"WRVEC"} = {} /\ Weight("EOS", {"WRVEC"}) = 0
    BY DEF Weight
  <2>2. Tally(b, {}) = 0
    <3>1. Where(b, {}) = {}
      BY DEF Where
    <3> QED BY <3>1, FS_EmptySet DEF Tally
  <2>3. Tally(p, {"WRVEC"}) = Fills(q, nl) + 0 * (Nch - 1) + 0
    BY <1>5, <1>6, <1>8, <2>1, <2>2
  <2> QED BY <1>6, <1>7, <1>9, <2>3
<1>12. Tally(p, Ops) = GemvNisr(m, count, nl)
  <2>1. {"RD_MAC"} \cap Ops = {"RD_MAC"} /\ Weight("EOS", Ops) = 1
    BY DEF Weight, Ops
  <2>2. Tally(p, Ops) = (Fills(q, nl) + count * n + count) + count * (Nch - 1) + 1
    BY <1>1, <1>5, <1>6, <1>8, <2>1
  <2>3. GemvNisr(m, count, nl) = 1 + Fills(q, nl) + n * count + count * Nch
    BY <1>7 DEF GemvNisr, n
  <2>4. n * count = count * n /\ count * n \in Nat
    BY <1>1, <1>4
  <2> QED BY <1>1, <1>6, <1>9, <2>2, <2>3, <2>4
<1>13. Tally(p, Ops) = Len(p)
  <2>1. \A e \in Finals : e.op \in Ops
    BY DEF Finals, Final, Blanks
  <2> QED BY <1>8, <2>1, TallyAll
<1>14. \A op : Cardinality(At(p, op)) = Tally(p, {op})
  BY DEF At, Tally, Where
<1>15. (count * Nch) \div Nch = count
  <2>1. (Nch * count + 0) \div Nch = count
    BY <1>1, <1>9, DivOfSum
  <2>2. Nch * count + 0 = count * Nch
    BY <1>1, <1>9
  <2> QED BY <2>1, <2>2
<1>16. p # <<>>
  <2> SUFFICES ASSUME p = <<>> PROVE FALSE
    OBVIOUS
  <2>1. Tally(p, {"RD_MAC"}) = 0
    BY TallyNone
  <2>2. count * Nch # 0
    BY <1>1, <1>9, ProductPositive
  <2> QED BY <1>10, <2>1, <2>2
<1> QED BY <1>10, <1>11, <1>12, <1>13, <1>14, <1>15, <1>16 DEF p

--------------------
(* What pim_gemv_groups_per_launch lets one launch cover fits in what the   *)
(* engine takes.                                                            *)
LEMMA CeilBelow ==
  ASSUME NEW n \in Nat, NEW d \in Nat \ {0}, NEW k \in Nat, n <= d * k
  PROVE  CeilDiv(n, d) <= k
<1>1. /\ CeilDiv(n, d) \in Nat /\ d * CeilDiv(n, d) \in Nat /\ d * CeilDiv(n, d) <= n + d - 1
  BY Ceil
<1> SUFFICES ASSUME k + 1 <= CeilDiv(n, d) PROVE FALSE
  BY <1>1
<1>2. d * k + d <= d * CeilDiv(n, d)
  BY <1>1, NextMultiple
<1>3. d * k \in Nat
  BY ProductNat
<1> QED BY <1>1, <1>2, <1>3

(* The groups of a launch are chosen so that its program fits the limit:    *)
(* pim_gemv_nisr of up to that many is no more.                             *)
LEMMA LaunchSize ==
  ASSUME NEW m, Planned(m), NEW cap \in Nat, NEW nl \in {1, 2}
  PROVE  /\ GroupsPerLaunch(m, nl, cap) \in Nat /\ GroupsPerLaunch(m, nl, cap) <= m.ngroups
         /\ \A count \in 1 .. GroupsPerLaunch(m, nl, cap) : GemvNisr(m, count, nl) <= cap
<1> DEFINE n == m.nchunks
           fixed == 1 + (IF IsEager(m) THEN 1 ELSE 0)
           cost == PassCost(m, nl)
           k == (cap - fixed) \div cost
           gpl == GroupsPerLaunch(m, nl, cap)
<1>1. n \in Nat \ {0} /\ m.ngroups \in Nat \ {0} /\ Nch \in Nat \ {0} /\ nl \in Nat \ {0}
  BY PlannedSizes, BeatSizes
<1>2. n * nl \in Nat \ {0} /\ nl * Nch \in Nat \ {0}
  BY <1>1, ProductPositive
<1>3. cost = n * nl + nl * Nch + (IF IsEager(m) THEN 0 ELSE n) /\ cost \in Nat \ {0}
  BY <1>1, <1>2 DEF PassCost
<1>4. gpl = IF cap <= fixed THEN 0 ELSE Least(k * nl, m.ngroups)
  BY DEF GroupsPerLaunch
<1>5. fixed \in {1, 2} /\ (IsEager(m) => fixed = 2) /\ (~IsEager(m) => fixed = 1)
  OBVIOUS
<1> HIDE DEF fixed, cost, k, gpl, n
<1>6. CASE cap <= fixed
  BY <1>1, <1>4, <1>6 DEF gpl
<1>7. CASE fixed + 1 <= cap
  <2>1. cap - fixed \in Nat
    BY <1>5, <1>7
  <2>2. k \in Nat /\ cost * k <= cap - fixed /\ cost * k \in Nat
    <3>1. /\ (cap - fixed) \div cost \in Nat /\ (cap - fixed) % cost \in 0 .. cost - 1
          /\ cap - fixed = cost * ((cap - fixed) \div cost) + ((cap - fixed) % cost)
      BY <1>3, <2>1, DivMod
    <3>2. cost * k \in Nat
      BY <1>3, <3>1, ProductNat DEF k
    <3> QED BY <1>3, <2>1, <3>1, <3>2 DEF k
  <2>3. gpl = Least(k * nl, m.ngroups) /\ k * nl \in Nat
    BY <1>1, <1>4, <1>5, <1>7, <2>2, ProductNat
  <2>4. gpl \in Nat /\ gpl <= m.ngroups /\ gpl <= k * nl
    BY <1>1, <2>3 DEF Least
  <2>5. ASSUME NEW count \in 1 .. gpl PROVE GemvNisr(m, count, nl) <= cap
    <3>1. count \in Nat \ {0} /\ count <= nl * k
      BY <1>1, <2>2, <2>3, <2>4
    <3>2. CeilDiv(count, nl) <= k /\ CeilDiv(count, nl) \in Nat
      BY <1>1, <2>2, <3>1, CeilBelow, Ceil
    <3>3. n * count <= n * (nl * k)
      <4> DEFINE x == nl * k
      <4>1. x \in Nat
        BY <1>1, <2>2, ProductNat
      <4> HIDE DEF x
      <4> QED BY <1>1, <3>1, <4>1, Monotone DEF x
    <3>4. Nch * count <= Nch * (nl * k)
      <4> DEFINE x == nl * k
      <4>1. x \in Nat
        BY <1>1, <2>2, ProductNat
      <4> HIDE DEF x
      <4> QED BY <1>1, <3>1, <4>1, Monotone DEF x
    <3>5. n * CeilDiv(count, nl) <= n * k
      BY <1>1, <2>2, <3>2, Monotone
    <3>6. /\ n * count \in Nat /\ count * Nch = Nch * count /\ Nch * count \in Nat
          /\ n * CeilDiv(count, nl) = CeilDiv(count, nl) * n /\ n * CeilDiv(count, nl) \in Nat
          /\ n * (nl * k) \in Nat /\ Nch * (nl * k) \in Nat /\ n * k \in Nat
      BY <1>1, <2>2, <3>1, <3>2, ProductNat, SMT
    <3>7. GemvNisr(m, count, nl) = 1 + GemvNwrvec(m, count, nl) + n * count + count * Nch
      BY DEF GemvNisr, n
    <3>8. CASE IsEager(m)
      <4>1. GemvNwrvec(m, count, nl) = 1 /\ fixed = 2
        BY <1>5, <3>1, <3>8 DEF GemvNwrvec
      <4>2. cost * k = n * (nl * k) + Nch * (nl * k)
        BY <1>1, <1>3, <2>2, <3>8, SMT
      <4> QED BY <2>2, <3>1, <3>3, <3>4, <3>6, <3>7, <4>1, <4>2
    <3>9. CASE ~IsEager(m)
      <4>1. GemvNwrvec(m, count, nl) = CeilDiv(count, nl) * n /\ fixed = 1
        BY <1>5, <3>9 DEF GemvNwrvec, n
      <4>2. cost * k = n * (nl * k) + Nch * (nl * k) + n * k
        BY <1>1, <1>3, <2>2, <3>9, SMT
      <4> QED BY <2>2, <3>1, <3>3, <3>4, <3>5, <3>6, <3>7, <4>1, <4>2
    <3> QED BY <3>8, <3>9
  <2> QED BY <2>4, <2>5 DEF gpl
<1> QED BY <1>5, <1>6, <1>7

--------------------
(* What pim_gemv_ex has under way, and what it ran last.                    *)
CallFields == call = [n |-> call.n, m |-> call.m, mem |-> call.mem, cap |-> call.cap,
                      g0 |-> call.g0, y |-> call.y, busy |-> call.busy]

Groups(c) == GroupsPerLaunch(c.m, nlatch, c.cap)

Under(c) == c.busy =>
  /\ c.m \in Weights /\ c.cap \in Limits
  /\ c.g0 \in 0 .. c.m.ngroups - 1 /\ Groups(c) \in Nat \ {0} /\ Groups(c) * Nch <= YWords

Ran(c, p, v) == p # <<>> =>
  /\ c.m \in Weights /\ c.cap \in Limits /\ v = Verdict(p)
  /\ c.g0 - Groups(c) \in Nat /\ Groups(c) * Nch <= YWords
  /\ \E count \in 1 .. Groups(c) :
       p = GemvProgram(c.m, c.g0 - Groups(c), count, 0, VWords, nlatch)

LaunchInv ==
  /\ nlatch \in {1, 2} /\ CallFields
  /\ author # "gemv" => ~call.busy
  /\ author = "gemv" => Under(call) /\ Ran(call, prog, verdict)

(* The tensors pim_gemv_ex is called with.                                  *)
LEMMA WeightsPlanned ==
  ASSUME NEW m \in Weights, NEW cap \in Limits
  PROVE  Planned(m) /\ cap \in Nat /\ cap <= ImemWords
BY ProgramsAssumption, IsrAssumption DEF Planned

(* A launch leaves the program its groups want, and the next launch room to *)
(* go on from where it stopped.                                             *)
LEMMA LaunchKeeps ==
  ASSUME LaunchInv, Launch
  PROVE  LaunchInv'
<1> DEFINE m == call.m
           gpl == GroupsPerLaunch(m, nlatch, call.cap)
           ng == Least(m.ngroups - call.g0, gpl)
           p == GemvProgram(m, call.g0, ng, 0, VWords, nlatch)
           g == call.g0 + gpl
           after == AfterFrom(Inherited(s), p, Len(p) - 1)
           y == [j \in DOMAIN call.y |->
                       IF j \in Collected(m, call.g0, ng)
                       THEN Weighed(after, p, call.mem, (j % PerGroup) \div Nbank, j % Nbank,
                                    VWords + ResultWord(j, call.g0))
                       ELSE call.y[j]]
<1>1. /\ call.busy /\ author = "gemv" /\ nlatch \in {1, 2} /\ CallFields /\ Under(call)
  BY DEF LaunchInv, Launch
<1>2. /\ prog' = p /\ verdict' = Verdict(p) /\ author' = author /\ nlatch' = nlatch
      /\ call' = [call EXCEPT !.g0 = @ + gpl, !.busy = call.g0 + gpl < m.ngroups, !.y = y]
  BY DEF Launch
<1>3. /\ m \in Weights /\ call.cap \in Limits
      /\ call.g0 \in 0 .. m.ngroups - 1 /\ gpl \in Nat \ {0} /\ gpl * Nch <= YWords /\ m.ngroups \in Nat
  <2>1. /\ m \in Weights /\ call.cap \in Limits /\ call.g0 \in 0 .. m.ngroups - 1
        /\ gpl \in Nat \ {0} /\ gpl * Nch <= YWords
    BY <1>1 DEF Under, Groups
  <2>2. Planned(m)
    BY <2>1, WeightsPlanned
  <2>3. m.ngroups \in Nat
    BY <2>2, PlannedSizes
  <2> QED BY <2>1, <2>3
<1> HIDE DEF y, p, gpl, m
<1>4. call' = [n |-> call.n, m |-> m, mem |-> call.mem, cap |-> call.cap,
               g0 |-> g, y |-> y, busy |-> g < m.ngroups]
  BY <1>1, <1>2 DEF CallFields, m
<1>5. /\ call'.m = m /\ call'.cap = call.cap /\ call'.g0 = g /\ (call'.busy <=> g < m.ngroups)
      /\ CallFields'
  BY <1>4 DEF CallFields
<1>6. GroupsPerLaunch(call'.m, nlatch', call'.cap) = gpl
  BY <1>2, <1>5 DEF gpl
<1>7. g \in Nat /\ g - gpl = call.g0 /\ g - gpl \in Nat
  BY <1>3
<1>8. ng \in 1 .. gpl
  BY <1>3 DEF Least
<1>9. Under(call)'
  BY <1>3, <1>5, <1>6, <1>7 DEF Under, Groups
<1>10. Ran(call, prog, verdict)'
  <2>1. Verdict(p)' = Verdict(p)'
    OBVIOUS
  <2>2. verdict' = (IF Verify(p, nlatch = 2) THEN "accepted" ELSE "refused")
    BY <1>2 DEF Verdict
  <2>3. Verdict(prog)' = (IF Verify(p, nlatch = 2) THEN "accepted" ELSE "refused")
    BY <1>2 DEF Verdict
  <2>4. prog' = GemvProgram(m, g - gpl, ng, 0, VWords, nlatch)
    BY <1>2, <1>7 DEF p
  <2>5. \E count \in 1 .. gpl : prog' = GemvProgram(m, g - gpl, count, 0, VWords, nlatch)
    BY <1>8, <2>4
  <2> QED BY <1>2, <1>3, <1>5, <1>6, <1>7, <2>2, <2>3, <2>5 DEF Ran, Groups
<1> QED BY <1>1, <1>2, <1>5, <1>9, <1>10 DEF LaunchInv

(* A new call starts at group 0, with no program.                           *)
LEMMA CallKeeps ==
  ASSUME LaunchInv, NEW m \in Weights, NEW upload, NEW cap \in Limits, Call(m, upload, cap)
  PROVE  LaunchInv'
<1> DEFINE gpl == GroupsPerLaunch(m, nlatch, cap)
           n == call.n + 1
           mem0 == [x \in Elems(m) |-> Junk]
           mem == CASE upload = "permuted" -> GemvUpload(m, mem0, n)
                    [] upload = "eager" -> GemvUploadEager(m, mem0, n)
                    [] upload = "rows" -> GemvUploadRows(m, mem0, n)
           y == [j \in 0 .. m.nout - 1 |-> {}]
<1>1. /\ prog' = <<>> /\ author' = author /\ nlatch' = nlatch /\ author = "gemv"
      /\ call' = [n |-> n, m |-> m, cap |-> cap, g0 |-> 0, busy |-> gpl > 0, y |-> y, mem |-> mem]
      /\ gpl > 0 => gpl * Nch <= YWords
  BY DEF Call, GprWords
<1>2. Planned(m) /\ cap \in Nat /\ nlatch \in {1, 2}
  BY WeightsPlanned DEF LaunchInv
<1>3. m.ngroups \in Nat \ {0} /\ gpl \in Nat
  <2>1. m.ngroups \in Nat \ {0}
    BY <1>2, PlannedSizes
  <2>2. gpl \in Nat
    BY <1>2, LaunchSize
  <2> QED BY <2>1, <2>2
<1> HIDE DEF gpl, mem, y, n
<1>4. /\ call'.m = m /\ call'.cap = cap /\ call'.g0 = 0 /\ (call'.busy <=> gpl > 0) /\ CallFields'
  BY <1>1 DEF CallFields
<1>5. GroupsPerLaunch(call'.m, nlatch', call'.cap) = gpl
  BY <1>1, <1>4 DEF gpl
<1>6. Under(call)'
  <2>1. Groups(call)' = gpl
    BY <1>5 DEF Groups
  <2>2. gpl > 0 => gpl * Nch <= YWords
    BY <1>1 DEF gpl
  <2>3. gpl > 0 => gpl \in Nat \ {0}
    BY <1>3
  <2>4. 0 \in 0 .. m.ngroups - 1
    BY <1>3
  <2>5. call'.busy => Groups(call)' * Nch <= YWords /\ Groups(call)' \in Nat \ {0}
    BY <1>4, <2>1, <2>2, <2>3
  <2>6. call'.busy => /\ call'.m \in Weights /\ call'.cap \in Limits
                     /\ call'.g0 \in 0 .. call'.m.ngroups - 1
    BY <1>4, <2>4
  <2> QED BY <2>5, <2>6 DEF Under
<1>7. Ran(call, prog, verdict)'
  BY <1>1 DEF Ran
<1> QED BY <1>1, <1>2, <1>4, <1>6, <1>7 DEF LaunchInv

LEMMA LaunchInvHolds == Spec => []LaunchInv
<1>1. Init => LaunchInv
  <2> SUFFICES ASSUME Init PROVE LaunchInv
    OBVIOUS
  <2>1. nlatch \in {1, 2} /\ prog = <<>> /\ call = NoCall
    BY DEF Init
  <2>2. CallFields /\ call.busy = FALSE
    BY <2>1 DEF CallFields, NoCall
  <2> QED BY <2>1, <2>2 DEF LaunchInv, Under, Ran
<1>2. LaunchInv /\ [Next]_vars => LaunchInv'
  <2> SUFFICES ASSUME LaunchInv, [Next]_vars PROVE LaunchInv'
    OBVIOUS
  <2>1. ASSUME author # "gemv", author' = author, nlatch' = nlatch, call' = call PROVE LaunchInv'
    BY <2>1 DEF LaunchInv, CallFields
  <2>2. ASSUME UNCHANGED vars PROVE LaunchInv'
    BY <2>2 DEF vars, LaunchInv, CallFields, Under, Ran, Groups, Verdict
  <2>3. ASSUME NEW i \in Alphabet, Push(i) PROVE LaunchInv'
    BY <2>1, <2>3 DEF Push
  <2>4. CASE Judge
    BY <2>1, <2>4 DEF Judge
  <2>5. ASSUME NEW first \in 0 .. Matrix.ngroups - 1, NEW count \in 1 .. Matrix.ngroups,
               NEW off \in Offsets, NEW len \in Lengths, Part(first, count, off, len)
        PROVE  LaunchInv'
    BY <2>1, <2>5 DEF Part
  <2>6. CASE Eos
    BY <2>1, <2>6 DEF Eos
  <2>7. CASE Launch
    BY <2>7, LaunchKeeps
  <2> QED BY <2>2, <2>3, <2>4, <2>5, <2>6, <2>7, CallKeeps DEF Next
<1> QED BY <1>1, <1>2, PTL DEF Spec

(* The two front ends never disagree: whatever tensor, limit and number of  *)
(* latches pim_gemv_ex is called with, the program of each of its launches  *)
(* is, ISR for ISR, what pim_gemv_logical and pim_lower make of the groups  *)
(* it covers.                                                               *)
THEOREM FrontEndsStayAgreed == Spec => []FrontEndsAgree
<1>1. LaunchInv => FrontEndsAgree
  <2> SUFFICES ASSUME LaunchInv, author = "gemv", prog # <<>>
               PROVE  LET count == Cardinality(At(prog, "RD_MAC")) \div Nch
                          gpl == GroupsPerLaunch(call.m, nlatch, call.cap)
                      IN  prog = Lower(GemvLogical(call.m, call.g0 - gpl, count, nlatch))
    BY DEF FrontEndsAgree
  <2> DEFINE gpl == GroupsPerLaunch(call.m, nlatch, call.cap)
             first == call.g0 - gpl
  <2>1. /\ call.m \in Weights /\ call.cap \in Limits /\ first \in Nat /\ nlatch \in {1, 2}
        /\ \E count \in 1 .. gpl : prog = GemvProgram(call.m, first, count, 0, VWords, nlatch)
    BY DEF LaunchInv, Ran, Groups
  <2>2. PICK count \in 1 .. gpl : prog = GemvProgram(call.m, first, count, 0, VWords, nlatch)
    BY <2>1
  <2>3. GemvWanted(call.m, first, count)
    <3>1. Planned(call.m)
      BY <2>1, WeightsPlanned
    <3> QED BY <2>1, <3>1 DEF GemvWanted
  <2> HIDE DEF gpl, first
  <2>4. prog = Lower(GemvLogical(call.m, first, count, nlatch))
    BY <2>1, <2>2, <2>3, GemvAgrees
  <2>5. Cardinality(At(prog, "RD_MAC")) \div Nch = count
    BY <2>1, <2>2, <2>3, GemvTally
  <2> QED BY <2>4, <2>5 DEF first, gpl
<1> QED BY <1>1, LaunchInvHolds, PTL

--------------------
(* What every run of a sequence of runs has, and two runs with it keep when *)
(* one is put behind the other, all of them together have.                  *)
LEMMA FlatKeeps ==
  ASSUME NEW S, NEW P \in SUBSET Seq(S), <<>> \in P, \A a, b \in P : a \o b \in P,
         NEW r \in Seq(P)
  PROVE  Flat(r) \in P
<1> DEFINE G == {x \in Nat \X P : TRUE}
<1>1. r \in Seq(Seq(S)) /\ \A k \in 1 .. Len(r) : r[k] \in P
  OBVIOUS
<1>2. <<0, <<>>>> \in G
  OBVIOUS
<1>3. ASSUME NEW k \in 0 .. Len(r) - 1, NEW a \in Seq(S), <<k, a>> \in G
      PROVE  <<k + 1, a \o r[k + 1]>> \in G
  <2>1. k + 1 \in 1 .. Len(r) /\ k + 1 \in Nat
    OBVIOUS
  <2>2. r[k + 1] \in P /\ a \in P
    BY <1>1, <1>3, <2>1
  <2>3. a \o r[k + 1] \in P
    BY <2>2
  <2> QED BY <2>1, <2>3
<1>4. <<Len(r), Flat(r)>> \in G
  <2> HIDE DEF G
  <2> QED BY <1>1, <1>2, <1>3, FlatInduct
<1> QED BY <1>4

(* Where an element of two sequences put together comes from.               *)
LEMMA ConcatAt ==
  ASSUME NEW S, NEW a \in Seq(S), NEW b \in Seq(S)
  PROVE  /\ a \o b \in Seq(S) /\ DOMAIN (a \o b) = 1 .. Len(a) + Len(b)
         /\ \A i \in DOMAIN a : i \in DOMAIN (a \o b) /\ (a \o b)[i] = a[i] /\ i <= Len(a)
         /\ \A j \in DOMAIN b : Len(a) + j \in DOMAIN (a \o b) /\ (a \o b)[Len(a) + j] = b[j]
         /\ \A i \in DOMAIN (a \o b) : i \in DOMAIN a \/ (i > Len(a) /\ \E j \in DOMAIN b : i = Len(a) + j)
<1> DEFINE c == a \o b
<1>1. /\ c \in Seq(S) /\ Len(c) = Len(a) + Len(b)
      /\ \A i \in 1 .. Len(a) + Len(b) : c[i] = IF i <= Len(a) THEN a[i] ELSE b[i - Len(a)]
  BY ConcatProperties
<1>2. Len(a) \in Nat /\ Len(b) \in Nat /\ DOMAIN a = 1 .. Len(a) /\ DOMAIN b = 1 .. Len(b)
  OBVIOUS
<1>3. DOMAIN c = 1 .. Len(a) + Len(b)
  BY <1>1
<1> HIDE DEF c
<1>4. \A i \in DOMAIN a : i \in DOMAIN c /\ c[i] = a[i] /\ i <= Len(a)
  BY <1>1, <1>2, <1>3
<1>5. ASSUME NEW j \in DOMAIN b PROVE Len(a) + j \in DOMAIN c /\ c[Len(a) + j] = b[j]
  <2> DEFINE i == Len(a) + j
  <2>1. i \in 1 .. Len(a) + Len(b) /\ ~(i <= Len(a)) /\ i - Len(a) = j
    BY <1>2
  <2> HIDE DEF i
  <2>2. i \in DOMAIN c /\ c[i] = b[i - Len(a)]
    BY <1>1, <1>3, <2>1
  <2> QED BY <2>1, <2>2 DEF i
<1>6. ASSUME NEW i \in DOMAIN c, ~(i \in DOMAIN a) PROVE i > Len(a) /\ \E j \in DOMAIN b : i = Len(a) + j
  <2>1. i - Len(a) \in DOMAIN b /\ i = Len(a) + (i - Len(a)) /\ i > Len(a)
    BY <1>2, <1>3, <1>6
  <2> QED BY <2>1
<1> QED BY <1>1, <1>3, <1>4, <1>5, <1>6 DEF c

LEMMA ConcatRight ==
  ASSUME NEW S, NEW a \in Seq(S), NEW b \in Seq(S)
  PROVE  \A j \in DOMAIN b : Len(a) + j \in DOMAIN (a \o b) /\ (a \o b)[Len(a) + j] = b[j]
BY ConcatAt

--------------------
(* What the verifier and the engine want of a program, in the shape in      *)
(* which a program put together from runs has it when its runs have.        *)

(* Every accumulation runs on a vector this run loaded, in its size ...     *)
Own(p) == \A i \in At(p, "MAC") :
  \E j \in At(p, "WRVEC") : /\ j < i /\ p[j].sz = p[i].sz
                            /\ \A k \in At(p, "WRVEC") : k < i => k <= j
(* ... or on one loaded before the run, of size z.                          *)
Sized(p, z) == At(p, "WRVEC") = {} /\ \A i \in At(p, "MAC") : p[i].sz = z

(* Every accumulation is drained later, channel by channel.                 *)
Drains(p, i, t, c) == p[i].op = "RD_MAC" /\ p[i].t = t /\ p[i].ch = {c}
Paid(p) == \A i \in At(p, "MAC"), c \in Chan :
  \E j \in DOMAIN p : j > i /\ Drains(p, j, p[i].t, c)

(* No drain, and accumulations in the first n latches only.                 *)
Owes(p, n) == At(p, "RD_MAC") = {} /\ \A i \in At(p, "MAC") : p[i].t \in 0 .. n - 1
(* The drains of these.                                                     *)
Settles(p, n) ==
  /\ At(p, "MAC") = {} /\ At(p, "WRVEC") = {}
  /\ \A t \in 0 .. n - 1, c \in Chan : \E j \in DOMAIN p : Drains(p, j, t, c)

(* Every result has a word of its own, among lo .. hi - 1.                  *)
Words(p, lo, hi) ==
  /\ \A i \in At(p, "RD_MAC") : p[i].row \in lo .. hi - 1
  /\ \A i, j \in At(p, "RD_MAC") : p[i].row = p[j].row => i = j

(* The ISRs of each sort of c, which is a, of length n, with b behind it.   *)
Spliced(a, n, b, c) ==
  \A op : /\ \A i \in At(a, op) : i \in At(c, op) /\ i \in DOMAIN a /\ c[i] = a[i]
          /\ \A j \in At(b, op) : n + j \in At(c, op) /\ j \in DOMAIN b /\ c[n + j] = b[j]
          /\ \A i \in At(c, op) : i \in At(a, op) \/ \E j \in At(b, op) : i = n + j

(* The ISRs of a sort in two programs one behind the other.                 *)
LEMMA AtConcat ==
  ASSUME NEW S, NEW a \in Seq(S), NEW b \in Seq(S)
  PROVE  Spliced(a, Len(a), b, a \o b)
<1> DEFINE c == a \o b
<1>1. /\ DOMAIN c = 1 .. Len(a) + Len(b)
      /\ \A i \in DOMAIN a : i \in DOMAIN c /\ c[i] = a[i] /\ i <= Len(a)
      /\ \A j \in DOMAIN b : Len(a) + j \in DOMAIN c /\ c[Len(a) + j] = b[j]
      /\ \A i \in DOMAIN c : i \in DOMAIN a \/ (i > Len(a) /\ \E j \in DOMAIN b : i = Len(a) + j)
  BY ConcatAt
<1> HIDE DEF c
<1> QED BY <1>1 DEF Spliced, At, c

(* All five are kept when two programs are put one behind the other.        *)
LEMMA OwnConcat ==
  ASSUME NEW S, NEW a \in Seq(S), NEW b \in Seq(S), Own(a), Own(b)
  PROVE  Own(a \o b)
<1> DEFINE c == a \o b
           n == Len(a)
<1>1. Spliced(a, n, b, c)
  BY AtConcat
<1> USE DEF Spliced
<1>2. n \in Nat /\ DOMAIN a = 1 .. n /\ DOMAIN b = 1 .. Len(b) /\ Len(b) \in Nat
  OBVIOUS
<1> HIDE DEF c, n
<1> SUFFICES ASSUME NEW i \in At(c, "MAC")
             PROVE  \E j \in At(c, "WRVEC") : /\ j < i /\ c[j].sz = c[i].sz
                                              /\ \A k \in At(c, "WRVEC") : k < i => k <= j
  BY DEF Own, c
<1>3. CASE i \in At(a, "MAC")
  <2>1. PICK j \in At(a, "WRVEC") : j < i /\ a[j].sz = a[i].sz /\ \A k \in At(a, "WRVEC") : k < i => k <= j
    BY <1>3 DEF Own
  <2>2. j \in At(c, "WRVEC") /\ c[j] = a[j] /\ c[i] = a[i] /\ i \in 1 .. n
    BY <1>1, <1>2, <1>3
  <2>3. ASSUME NEW k \in At(c, "WRVEC"), k < i PROVE k <= j
    <3>1. ~ \E x \in At(b, "WRVEC") : k = n + x
      BY <1>1, <1>2, <2>2, <2>3
    <3>2. k \in At(a, "WRVEC")
      BY <1>1, <3>1
    <3> QED BY <2>1, <2>3, <3>2
  <2> QED BY <2>1, <2>2, <2>3
<1>4. ASSUME NEW x \in At(b, "MAC"), i = n + x
      PROVE  \E j \in At(c, "WRVEC") : /\ j < i /\ c[j].sz = c[i].sz
                                       /\ \A k \in At(c, "WRVEC") : k < i => k <= j
  <2>1. PICK y \in At(b, "WRVEC") : y < x /\ b[y].sz = b[x].sz /\ \A k \in At(b, "WRVEC") : k < x => k <= y
    BY DEF Own
  <2>2. x \in 1 .. Len(b) /\ y \in 1 .. Len(b) /\ n + y \in At(c, "WRVEC") /\ c[n + y] = b[y] /\ c[i] = b[x]
    BY <1>1, <1>2, <1>4
  <2>3. n + y < i
    BY <1>2, <1>4, <2>1, <2>2
  <2>4. ASSUME NEW k \in At(c, "WRVEC"), k < i PROVE k <= n + y
    <3>1. CASE k \in At(a, "WRVEC")
      <4>1. k \in 1 .. n
        BY <1>1, <1>2, <3>1
      <4> QED BY <1>2, <2>2, <4>1
    <3>2. ASSUME NEW z \in At(b, "WRVEC"), k = n + z PROVE k <= n + y
      <4>1. z \in 1 .. Len(b)
        BY <1>1, <1>2
      <4>2. z < x
        BY <1>2, <1>4, <2>2, <2>4, <3>2, <4>1
      <4>3. z <= y
        BY <2>1, <4>2
      <4> QED BY <1>2, <2>2, <3>2, <4>1, <4>3
    <3> QED BY <1>1, <3>1, <3>2
  <2> QED BY <2>1, <2>2, <2>3, <2>4
<1> QED BY <1>1, <1>3, <1>4

LEMMA SizedConcat ==
  ASSUME NEW S, NEW a \in Seq(S), NEW b \in Seq(S), NEW z, Sized(a, z), Sized(b, z)
  PROVE  Sized(a \o b, z)
<1> DEFINE c == a \o b
           n == Len(a)
<1>1. Spliced(a, n, b, c)
  BY AtConcat
<1> USE DEF Spliced
<1> HIDE DEF c, n
<1>2. At(c, "WRVEC") = {}
  BY <1>1 DEF Sized
<1>3. \A i \in At(c, "MAC") : c[i].sz = z
  BY <1>1 DEF Sized
<1> QED BY <1>2, <1>3 DEF Sized, c

(* A load, and what runs on it.                                             *)
LEMMA OwnLoaded ==
  ASSUME NEW S, NEW e \in S, e.op = "WRVEC", NEW b \in Seq(S), Sized(b, e.sz)
  PROVE  Own(<<e>> \o b)
<1> DEFINE a == <<e>>
           c == a \o b
<1>1. a \in Seq(S) /\ Len(a) = 1 /\ At(a, "WRVEC") = {1} /\ At(a, "MAC") = {} /\ a[1] = e
  BY DEF At
<1> HIDE DEF a
<1>2. Spliced(a, Len(a), b, c)
  <2>1. a \in Seq(S) /\ b \in Seq(S)
    BY <1>1
  <2> QED BY <2>1, AtConcat
<1> USE DEF Spliced
<1> HIDE DEF c
<1>3. At(c, "WRVEC") = {1} /\ c[1] = e
  BY <1>1, <1>2 DEF Sized
<1>4. ASSUME NEW i \in At(c, "MAC") PROVE 1 < i /\ c[i].sz = e.sz
  <2>1. PICK j \in At(b, "MAC") : i = 1 + j
    BY <1>1, <1>2
  <2>2. j \in 1 .. Len(b) /\ c[i] = b[j] /\ b[j].sz = e.sz
    <3>1. j \in DOMAIN b /\ c[Len(a) + j] = b[j]
      BY <1>2
    <3> QED BY <1>1, <2>1, <3>1 DEF Sized
  <2> QED BY <2>1, <2>2
<1>5. \A i \in At(c, "MAC") :
         \E j \in At(c, "WRVEC") : j < i /\ c[j].sz = c[i].sz /\ \A k \in At(c, "WRVEC") : k < i => k <= j
  BY <1>3, <1>4
<1> QED BY <1>5 DEF Own, c, a

LEMMA PaidConcat ==
  ASSUME NEW S, NEW a \in Seq(S), NEW b \in Seq(S), Paid(a), Paid(b)
  PROVE  Paid(a \o b)
<1> DEFINE c == a \o b
           n == Len(a)
<1>1. Spliced(a, n, b, c)
  BY AtConcat
<1> USE DEF Spliced
<1>2. /\ \A i \in DOMAIN a : i \in DOMAIN c /\ c[i] = a[i] /\ i <= n
      /\ \A j \in DOMAIN b : n + j \in DOMAIN c /\ c[n + j] = b[j]
  BY ConcatAt
<1>3. n \in Nat /\ DOMAIN b \subseteq Nat
  OBVIOUS
<1> HIDE DEF c, n
<1> SUFFICES ASSUME NEW i \in At(c, "MAC"), NEW ch \in Chan
             PROVE  \E j \in DOMAIN c : j > i /\ Drains(c, j, c[i].t, ch)
  BY DEF Paid, c
<1>4. CASE i \in At(a, "MAC")
  <2>1. PICK j \in DOMAIN a : j > i /\ Drains(a, j, a[i].t, ch)
    BY <1>4 DEF Paid
  <2>2. j \in DOMAIN c /\ c[j] = a[j] /\ c[i] = a[i]
    BY <1>1, <1>2, <1>4
  <2> QED BY <2>1, <2>2 DEF Drains
<1>5. ASSUME NEW x \in At(b, "MAC"), i = n + x
      PROVE  \E j \in DOMAIN c : j > i /\ Drains(c, j, c[i].t, ch)
  <2>1. PICK j \in DOMAIN b : j > x /\ Drains(b, j, b[x].t, ch)
    BY DEF Paid
  <2>2. n + j \in DOMAIN c /\ c[n + j] = b[j] /\ c[i] = b[x] /\ x \in DOMAIN b
    BY <1>1, <1>2, <1>5
  <2>3. n + j > i
    BY <1>3, <1>5, <2>1, <2>2
  <2> QED BY <2>1, <2>2, <2>3 DEF Drains
<1> QED BY <1>1, <1>4, <1>5

LEMMA OwesConcat ==
  ASSUME NEW S, NEW a \in Seq(S), NEW b \in Seq(S), NEW n, Owes(a, n), Owes(b, n)
  PROVE  Owes(a \o b, n)
<1> DEFINE c == a \o b
           l == Len(a)
<1>1. Spliced(a, l, b, c)
  BY AtConcat
<1> USE DEF Spliced
<1> HIDE DEF c, l
<1>2. At(c, "RD_MAC") = {}
  BY <1>1 DEF Owes
<1>3. \A i \in At(c, "MAC") : c[i].t \in 0 .. n - 1
  BY <1>1 DEF Owes
<1> QED BY <1>2, <1>3 DEF Owes, c

(* What a run owes, drained behind it.                                      *)
LEMMA OwesSettled ==
  ASSUME NEW S, NEW a \in Seq(S), NEW b \in Seq(S), NEW n, Owes(a, n), Settles(b, n)
  PROVE  Paid(a \o b)
<1> DEFINE c == a \o b
           l == Len(a)
<1>1. Spliced(a, l, b, c)
  BY AtConcat
<1> USE DEF Spliced
<1>2. /\ \A i \in DOMAIN a : i \in DOMAIN c /\ c[i] = a[i] /\ i <= l
      /\ \A j \in DOMAIN b : l + j \in DOMAIN c /\ c[l + j] = b[j]
  BY ConcatAt
<1>3. l \in Nat /\ DOMAIN b = 1 .. Len(b) /\ Len(b) \in Nat /\ DOMAIN a = 1 .. l
  OBVIOUS
<1> HIDE DEF c, l
<1> SUFFICES ASSUME NEW i \in At(c, "MAC"), NEW ch \in Chan
             PROVE  \E j \in DOMAIN c : j > i /\ Drains(c, j, c[i].t, ch)
  BY DEF Paid, c
<1>4. i \in At(a, "MAC")
  BY <1>1 DEF Settles
<1>5. c[i] = a[i] /\ c[i].t \in 0 .. n - 1 /\ i \in 1 .. l
  BY <1>1, <1>3, <1>4 DEF Owes
<1>6. PICK j \in DOMAIN b : Drains(b, j, c[i].t, ch)
  BY <1>5 DEF Settles
<1>7. l + j \in DOMAIN c /\ c[l + j] = b[j] /\ l + j > i
  BY <1>2, <1>3, <1>5
<1> QED BY <1>6, <1>7 DEF Drains

LEMMA WordsConcat ==
  ASSUME NEW S, NEW a \in Seq(S), NEW b \in Seq(S), NEW lo \in Nat, NEW mid \in Nat, NEW hi \in Nat,
         lo <= mid, mid <= hi, Words(a, lo, mid), Words(b, mid, hi)
  PROVE  Words(a \o b, lo, hi)
<1> DEFINE c == a \o b
           l == Len(a)
<1>1. Spliced(a, l, b, c)
  BY AtConcat
<1> USE DEF Spliced
<1> HIDE DEF c, l
<1> DEFINE A == At(a, "RD_MAC")
           B == At(b, "RD_MAC")
           C == At(c, "RD_MAC")
<1>2. /\ \A i \in A : i \in C /\ c[i] = a[i] /\ a[i].row \in lo .. mid - 1
      /\ \A j \in B : l + j \in C /\ c[l + j] = b[j] /\ b[j].row \in mid .. hi - 1
      /\ \A i \in C : i \in A \/ \E j \in B : i = l + j
      /\ \A i, j \in A : a[i].row = a[j].row => i = j
      /\ \A i, j \in B : b[i].row = b[j].row => i = j
  BY <1>1 DEF Words
<1> HIDE DEF A, B, C
<1>3. \A i \in C : c[i].row \in lo .. hi - 1
  <2> TAKE i \in C
  <2>1. CASE i \in A
    <3>1. c[i].row \in lo .. mid - 1
      BY <1>2, <2>1
    <3> QED BY <3>1
  <2>2. ASSUME NEW j \in B, i = l + j PROVE c[i].row \in lo .. hi - 1
    <3>1. c[i].row \in mid .. hi - 1
      BY <1>2, <2>2
    <3> QED BY <3>1
  <2> QED BY <1>2, <2>1, <2>2
<1>4. ASSUME NEW i \in C, NEW j \in C, c[i].row = c[j].row PROVE i = j
  <2>1. ASSUME NEW x \in A, NEW y \in B PROVE c[x].row # c[l + y].row
    <3>1. c[x].row \in lo .. mid - 1 /\ c[l + y].row \in mid .. hi - 1
      BY <1>2
    <3> QED BY <3>1
  <2>2. CASE i \in A
    <3>1. j \in A
      BY <1>2, <1>4, <2>1, <2>2
    <3> QED BY <1>2, <1>4, <2>2, <3>1
  <2>3. ASSUME NEW x \in B, i = l + x PROVE i = j
    <3>1. PICK y \in B : j = l + y
      BY <1>2, <1>4, <2>1, <2>3
    <3>2. b[x].row = b[y].row
      BY <1>2, <1>4, <2>3, <3>1
    <3>3. x = y
      BY <1>2, <3>2
    <3> QED BY <2>3, <3>1, <3>3
  <2> QED BY <1>2, <2>2, <2>3
<1>5. \A i, j \in C : c[i].row = c[j].row => i = j
  BY <1>4
<1> QED BY <1>3, <1>5 DEF Words, C, c

LEMMA WordsWider ==
  ASSUME NEW p, NEW lo \in Nat, NEW mid \in Nat, NEW hi \in Nat, mid <= hi, Words(p, lo, mid)
  PROVE  Words(p, lo, hi)
<1>1. \A i \in At(p, "RD_MAC") : p[i].row \in lo .. hi - 1
  <2> TAKE i \in At(p, "RD_MAC")
  <2>1. p[i].row \in lo .. mid - 1
    BY DEF Words
  <2> QED BY <2>1
<1> QED BY <1>1 DEF Words

(* A run without drains takes no words.                                     *)
LEMMA WordsNone ==
  ASSUME NEW p, At(p, "RD_MAC") = {}, NEW lo, NEW hi
  PROVE  Words(p, lo, hi)
BY DEF Words

(* The drains of one more latch.                                            *)
LEMMA SettlesMore ==
  ASSUME NEW S, NEW a \in Seq(S), NEW b \in Seq(S), NEW n \in Nat, Settles(a, n),
         At(b, "MAC") = {}, At(b, "WRVEC") = {},
         \A c \in Chan : \E j \in DOMAIN b : Drains(b, j, n, c)
  PROVE  Settles(a \o b, n + 1)
<1> DEFINE c == a \o b
           l == Len(a)
<1>1. Spliced(a, l, b, c)
  BY AtConcat
<1> USE DEF Spliced
<1>2. /\ \A i \in DOMAIN a : i \in DOMAIN c /\ c[i] = a[i] /\ i <= l
      /\ \A j \in DOMAIN b : l + j \in DOMAIN c /\ c[l + j] = b[j]
  BY ConcatAt
<1> HIDE DEF c, l
<1>3. At(c, "MAC") = {} /\ At(c, "WRVEC") = {}
  BY <1>1 DEF Settles
<1>4. ASSUME NEW t \in 0 .. (n + 1) - 1, NEW ch \in Chan PROVE \E j \in DOMAIN c : Drains(c, j, t, ch)
  <2>1. CASE t = n
    <3>1. PICK j \in DOMAIN b : Drains(b, j, t, ch)
      BY <2>1
    <3> QED BY <1>2, <3>1 DEF Drains
  <2>2. CASE t # n
    <3>1. t \in 0 .. n - 1
      BY <2>2
    <3>2. PICK j \in DOMAIN a : Drains(a, j, t, ch)
      BY <3>1 DEF Settles
    <3> QED BY <1>2, <3>2 DEF Drains
  <2> QED BY <2>1, <2>2
<1> QED BY <1>3, <1>4 DEF Settles, c

--------------------
(* What one logical ISR of a piece becomes.                                 *)
Shape(nl) ==
  {e \in Finals : /\ e.t \in 0 .. nl - 1
                  /\ IF e.op = "RD_MAC" THEN \E c \in Chan : e.ch = {c} ELSE e.ch = Chan}
Size(q, i) == SlicePart(q.off, q.len, i).beats
Place(q, g) == VWords + q.y + g * Nch

(* What each sort of ISR ends up as.                                        *)
LEMMA FinalIs ==
  ASSUME NEW b \in Blanks
  PROVE  Final(b, 0, Chan) \in Finals
<1>1. Chan \subseteq Int
  BY MatvecAssumption, TensorAssumption
<1> QED BY <1>1 DEF Finals

LEMMA OneIs ==
  ASSUME NEW b \in Blanks, b.op # "RD_MAC", NEW nl, b.t \in 0 .. nl - 1
  PROVE  /\ Legalise(b) = <<Final(b, 0, Chan)>> /\ Final(b, 0, Chan) \in Shape(nl)
         /\ Final(b, 0, Chan).op = b.op /\ Final(b, 0, Chan).sz = b.sz /\ Final(b, 0, Chan).t = b.t
<1> DEFINE e == Final(b, 0, Chan)
<1>1. e.op = b.op /\ e.sz = b.sz /\ e.t = b.t /\ e.ch = Chan
  BY DEF Final
<1>3. e \in Finals
  BY FinalIs
<1>4. Legalise(b) = <<e>>
  BY DEF Legalise
<1> HIDE DEF e
<1> QED BY <1>1, <1>3, <1>4 DEF Shape, e

LEMMA FillEnds ==
  ASSUME NEW q, PieceOf(q), NEW i, InSlice(q, i), NEW nl \in {1, 2}
  PROVE  \E e \in Shape(nl) : Legalise(FillOf(q, i)) = <<e>> /\ e.op = "WRVEC" /\ e.sz = Size(q, i)
<1> DEFINE b == FillOf(q, i)
<1>1. b \in Blanks
  BY FillTyped
<1>2. b.op = "WRVEC" /\ b.t = 0 /\ b.sz = Size(q, i) /\ 0 \in 0 .. nl - 1
  BY DEF FillOf, Blank, Size
<1> HIDE DEF b
<1>3. b.op # "RD_MAC" /\ b.t \in 0 .. nl - 1
  BY <1>2
<1>4. /\ Legalise(b) = <<Final(b, 0, Chan)>> /\ Final(b, 0, Chan) \in Shape(nl)
      /\ Final(b, 0, Chan).op = b.op /\ Final(b, 0, Chan).sz = b.sz
  BY <1>1, <1>3, OneIs
<1> QED BY <1>2, <1>4 DEF b

LEMMA MulEnds ==
  ASSUME NEW m, Planned(m), NEW q, PieceOf(q), NEW i, InSlice(q, i), NEW g \in Nat,
         NEW nl \in {1, 2}, NEW t \in 0 .. nl - 1
  PROVE  \E e \in Shape(nl) : /\ Legalise(MulOf(m, q, g, i, t)) = <<e>> /\ e.op = "MAC"
                              /\ e.sz = Size(q, i) /\ e.t = t
<1> DEFINE b == MulOf(m, q, g, i, t)
<1>1. b \in Blanks
  BY MulTyped
<1>2. b.op = "MAC" /\ b.t = t /\ b.sz = Size(q, i)
  BY DEF MulOf, Blank, Size
<1> HIDE DEF b
<1>3. b.op # "RD_MAC" /\ b.t \in 0 .. nl - 1
  BY <1>2
<1>4. /\ Legalise(b) = <<Final(b, 0, Chan)>> /\ Final(b, 0, Chan) \in Shape(nl)
      /\ Final(b, 0, Chan).op = b.op /\ Final(b, 0, Chan).sz = b.sz /\ Final(b, 0, Chan).t = b.t
  BY <1>1, <1>3, OneIs
<1> QED BY <1>2, <1>4 DEF b

(* Result words go up by a beat per channel and group.                      *)
LEMMA PlaceIs ==
  ASSUME NEW q, PieceOf(q), NEW g \in Nat
  PROVE  Place(q, g) \in Nat /\ Place(q, g + 1) = Place(q, g) + Nch
<1>1. q.y \in Nat /\ VWords \in Nat /\ Nch \in Nat \ {0}
  BY BeatSizes, MatvecAssumption DEF PieceOf
<1>2. g * Nch \in Nat /\ (g + 1) * Nch = g * Nch + Nch
  BY <1>1, ProductNat
<1> QED BY <1>1, <1>2 DEF Place

(* A drain, split by channel: one ISR for every channel, each to a word of  *)
(* its own.                                                                 *)
LEMMA TakeEnds ==
  ASSUME NEW q, PieceOf(q), NEW g \in Nat, NEW nl \in {1, 2}, NEW t \in 0 .. nl - 1
  PROVE  /\ Legalise(TakeOf(q, g, t)) \in Seq(Shape(nl))
         /\ At(Legalise(TakeOf(q, g, t)), "MAC") = {} /\ At(Legalise(TakeOf(q, g, t)), "WRVEC") = {}
         /\ \A c \in Chan : \E j \in DOMAIN Legalise(TakeOf(q, g, t)) : Drains(Legalise(TakeOf(q, g, t)), j, t, c)
         /\ Words(Legalise(TakeOf(q, g, t)), Place(q, g), Place(q, g + 1))
<1> DEFINE b == TakeOf(q, g, t)
           d == Legalise(b)
           w == Place(q, g)
<1>1. b \in Blanks
  BY TakeTyped
<1>2. b.op = "RD_MAC" /\ b.t = t /\ b.buf = "res" /\ b.base = q.y /\ b.index = g * Nch
  BY DEF TakeOf, Blank
<1>3. Nch \in Nat \ {0} /\ VWords \in Nat /\ q.y \in Nat /\ Chan = 0 .. Nch - 1
  BY BeatSizes, MatvecAssumption DEF PieceOf
<1>4. w \in Nat /\ Place(q, g + 1) = w + Nch
  BY PlaceIs
<1>5. g * Nch \in Nat /\ w = VWords + q.y + g * Nch
  BY <1>3, ProductNat DEF Place
<1> HIDE DEF b, w
<1>6. d = [c \in 1 .. Nch |-> Final(b, c - 1, {c - 1})]
  BY <1>2 DEF Legalise
<1>7. ASSUME NEW c \in 1 .. Nch
      PROVE  /\ Final(b, c - 1, {c - 1}) \in Shape(nl)
             /\ Final(b, c - 1, {c - 1}).op = "RD_MAC" /\ Final(b, c - 1, {c - 1}).t = t
             /\ Final(b, c - 1, {c - 1}).ch = {c - 1} /\ Final(b, c - 1, {c - 1}).row = w + (c - 1)
  <2> DEFINE k == c - 1
             e == Final(b, k, {k})
  <2>1. k \in Chan /\ k \in Int
    BY <1>3
  <2>2. e.op = "RD_MAC" /\ e.t = t /\ e.ch = {k} /\ e.row = Resolve(b, k)
    BY <1>2 DEF Final
  <2>3. Resolve(b, k) = VWords + b.base + b.index + k
    BY <1>2 DEF Resolve
  <2>4. {k} \in SUBSET Int
    BY <2>1
  <2> HIDE DEF k
  <2>5. e \in Finals
    BY <1>1, <2>1, <2>4 DEF Finals
  <2> HIDE DEF e
  <2>6. e.row = w + k
    BY <1>2, <1>3, <1>5, <2>1, <2>2, <2>3
  <2>7. e \in Shape(nl)
    BY <2>1, <2>2, <2>5 DEF Shape
  <2> QED BY <2>2, <2>6, <2>7 DEF e, k
<1> HIDE DEF d
<1>8. /\ DOMAIN d = 1 .. Nch /\ d \in Seq(Shape(nl))
      /\ \A c \in 1 .. Nch : d[c].op = "RD_MAC" /\ d[c].t = t /\ d[c].ch = {c - 1} /\ d[c].row = w + (c - 1)
  <2> DEFINE f(c) == Final(b, c - 1, {c - 1})
             S == Shape(nl)
  <2>3. \A c \in 1 .. Nch : f(c) \in S
    BY <1>7
  <2>4. d = [c \in 1 .. Nch |-> f(c)]
    BY <1>6
  <2> HIDE DEF f, S
  <2>5. d \in Seq(S) /\ DOMAIN d = 1 .. Nch
    BY <1>3, <2>3, <2>4
  <2>1. d \in Seq(Shape(nl)) /\ DOMAIN d = 1 .. Nch
    BY <2>5 DEF S
  <2>2. \A c \in 1 .. Nch : d[c] = Final(b, c - 1, {c - 1})
    BY <1>6
  <2> QED BY <1>7, <2>1, <2>2
<1>9. At(d, "MAC") = {} /\ At(d, "WRVEC") = {} /\ At(d, "RD_MAC") = 1 .. Nch
  BY <1>8 DEF At
<1>10. ASSUME NEW c \in Chan PROVE \E j \in DOMAIN d : Drains(d, j, t, c)
  <2> DEFINE j == c + 1
  <2>1. j \in 1 .. Nch /\ j - 1 = c
    BY <1>3
  <2> HIDE DEF j
  <2> QED BY <1>8, <2>1 DEF Drains
<1>11. Words(d, w, w + Nch)
  <2>3. \A i \in 1 .. Nch : d[i].row = w + (i - 1)
    BY <1>8
  <2>4. \A i \in 1 .. Nch : w + (i - 1) \in w .. (w + Nch) - 1
    BY <1>3, <1>4
  <2>1. \A i \in 1 .. Nch : d[i].row \in w .. (w + Nch) - 1
    BY <2>3, <2>4
  <2>2. \A i, j \in 1 .. Nch : d[i].row = d[j].row => i = j
    BY <1>3, <1>4, <1>8
  <2> QED BY <1>9, <2>1, <2>2 DEF Words
<1> QED BY <1>4, <1>8, <1>9, <1>10, <1>11 DEF d, b, w

--------------------
(* The runs of a piece, put together.                                       *)
FedRun(q, p) == IF Hoist(q.off, q.len) THEN Sized(p, Size(q, 0)) ELSE Own(p)

(* The empty program owes nothing and is fed by nothing.                    *)
LEMMA NothingRuns ==
  /\ \A op : At(<<>>, op) = {}
  /\ Own(<<>>) /\ Paid(<<>>) /\ \A z : Sized(<<>>, z) /\ Owes(<<>>, z)
  /\ \A q : FedRun(q, <<>>)
<1>1. \A op : At(<<>>, op) = {}
  BY DEF At
<1> QED BY <1>1 DEF Own, Paid, Sized, Owes, FedRun

LEMMA FedConcat ==
  ASSUME NEW S, NEW a \in Seq(S), NEW b \in Seq(S), NEW q, FedRun(q, a), FedRun(q, b)
  PROVE  FedRun(q, a \o b)
<1>1. CASE Hoist(q.off, q.len)
  BY <1>1, SizedConcat DEF FedRun
<1>2. CASE ~Hoist(q.off, q.len)
  BY <1>2, OwnConcat DEF FedRun
<1> QED BY <1>1, <1>2

(* A chunk of a pass: the vector it multiplies is the one just loaded, and  *)
(* every latch up to the number of groups is added to.                      *)
LEMMA MacsRun ==
  ASSUME NEW m, Planned(m), NEW q, PieceOf(q), NEW nl \in {1, 2}, NEW g0 \in Nat,
         PassGroups(q, nl, g0) \in 1 .. nl, NEW i, InSlice(q, i)
  PROVE  /\ Flat(LowMacs(m, q, nl, g0, i)) \in Seq(Shape(nl))
         /\ Sized(Flat(LowMacs(m, q, nl, g0, i)), Size(q, i))
         /\ Owes(Flat(LowMacs(m, q, nl, g0, i)), PassGroups(q, nl, g0))
<1> DEFINE n == PassGroups(q, nl, g0)
           r == LowMacs(m, q, nl, g0, i)
           z == Size(q, i)
           S == Shape(nl)
           P == {p \in Seq(S) : Sized(p, z) /\ Owes(p, n)}
<1>1. ASSUME NEW k \in 1 .. n PROVE Legalise(MulOf(m, q, g0 + (k - 1), i, k - 1)) \in P
  <2> DEFINE t == k - 1
             g == g0 + t
             d == Legalise(MulOf(m, q, g, i, t))
  <2>1. t \in 0 .. nl - 1 /\ g \in Nat /\ t \in 0 .. n - 1
    OBVIOUS
  <2> HIDE DEF t, g, n, S
  <2>2. \E e \in Shape(nl) : d = <<e>> /\ e.op = "MAC" /\ e.sz = z /\ e.t = t
    BY <2>1, MulEnds
  <2>3. PICK e \in S : d = <<e>> /\ e.op = "MAC" /\ e.sz = z /\ e.t = t
    BY <2>2 DEF S
  <2> HIDE DEF d, z
  <2>4. d \in Seq(S) /\ DOMAIN d = {1} /\ d[1] = e
    BY <2>3
  <2>5. Sized(d, z) /\ Owes(d, n)
    BY <2>1, <2>3, <2>4 DEF Sized, Owes, At
  <2> QED BY <2>4, <2>5 DEF d, g, t
<1>2. r = [k \in 1 .. n |-> Legalise(MulOf(m, q, g0 + (k - 1), i, k - 1))]
  BY DEF LowMacs
<1>3. n \in Nat
  OBVIOUS
<1>4. <<>> \in P
  BY NothingRuns
<1>5. \A a, b \in P : a \o b \in P
  <2> HIDE DEF S, z, n
  <2> TAKE a, b \in P
  <2>1. a \in Seq(S) /\ b \in Seq(S) /\ Sized(a, z) /\ Sized(b, z) /\ Owes(a, n) /\ Owes(b, n)
    OBVIOUS
  <2>2. a \o b \in Seq(S)
    BY <2>1, ConcatProperties
  <2>3. Sized(a \o b, z)
    BY <2>1, SizedConcat
  <2>4. Owes(a \o b, n)
    BY <2>1, OwesConcat
  <2> QED BY <2>2, <2>3, <2>4
<1>6. P \in SUBSET Seq(S)
  OBVIOUS
<1> HIDE DEF n, r, P
<1>7. r \in Seq(P)
  BY <1>1, <1>2, <1>3
<1>8. Flat(r) \in P
  <2> HIDE DEF S
  <2> QED BY <1>4, <1>5, <1>6, <1>7, FlatKeeps
<1> QED BY <1>8 DEF P, r, n

LEMMA ChunkRunGood ==
  ASSUME NEW m, Planned(m), NEW q, PieceOf(q), NEW nl \in {1, 2}, NEW g0 \in Nat,
         PassGroups(q, nl, g0) \in 1 .. nl, NEW i, InSlice(q, i)
  PROVE  /\ LowChunk(m, q, nl, g0, i) \in Seq(Shape(nl)) /\ FedRun(q, LowChunk(m, q, nl, g0, i))
         /\ Owes(LowChunk(m, q, nl, g0, i), PassGroups(q, nl, g0))
<1> DEFINE b == Flat(LowMacs(m, q, nl, g0, i))
           n == PassGroups(q, nl, g0)
           S == Shape(nl)
           z == Size(q, i)
<1>1. b \in Seq(S) /\ Sized(b, z) /\ Owes(b, n)
  BY MacsRun
<1>2. LowChunk(m, q, nl, g0, i) = LowFill(q, i) \o b
  BY DEF LowChunk
<1>3. PICK e \in S : Legalise(FillOf(q, i)) = <<e>> /\ e.op = "WRVEC" /\ e.sz = z
  BY FillEnds
<1> HIDE DEF b, n, S
<1>4. CASE Hoist(q.off, q.len)
  <2>1. LowFill(q, i) = <<>>
    BY <1>4 DEF LowFill
  <2>2. <<>> \o b = b
    BY <1>1, ConcatEmptySeq
  <2>3. i = 0
    BY <1>4 DEF Hoist, InSlice
  <2> QED BY <1>1, <1>2, <1>4, <2>1, <2>2, <2>3 DEF FedRun, S, n
<1>5. CASE ~Hoist(q.off, q.len)
  <2> HIDE DEF z
  <2> DEFINE a == <<e>>
  <2>1. LowFill(q, i) = a
    BY <1>3, <1>5 DEF LowFill
  <2>2. a \in Seq(S) /\ DOMAIN a = {1} /\ a[1].op = "WRVEC"
    BY <1>3
  <2>3. Owes(a, n)
    BY <2>2 DEF Owes, At
  <2>4. Own(<<e>> \o b)
    BY <1>1, <1>3, OwnLoaded
  <2> HIDE DEF a
  <2>5. Owes(a \o b, n)
    BY <1>1, <2>2, <2>3, OwesConcat
  <2>6. a \o b \in Seq(S)
    BY <1>1, <2>2, ConcatProperties
  <2>7. FedRun(q, a \o b)
    BY <1>5, <2>4 DEF FedRun, a
  <2> QED BY <1>2, <2>1, <2>5, <2>6, <2>7 DEF S, n
<1> QED BY <1>4, <1>5

LEMMA ChunksRunGood ==
  ASSUME NEW m, Planned(m), NEW q, PieceOf(q), NEW nl \in {1, 2}, NEW g0 \in Nat,
         PassGroups(q, nl, g0) \in 1 .. nl
  PROVE  /\ Flat(LowChunks(m, q, nl, g0)) \in Seq(Shape(nl)) /\ FedRun(q, Flat(LowChunks(m, q, nl, g0)))
         /\ Owes(Flat(LowChunks(m, q, nl, g0)), PassGroups(q, nl, g0))
<1> DEFINE n == PassGroups(q, nl, g0)
           c == SliceChunks(q.off, q.len)
           r == LowChunks(m, q, nl, g0)
           S == Shape(nl)
           P == {p \in Seq(S) : FedRun(q, p) /\ Owes(p, n)}
<1>1. c \in Nat \ {0}
  BY PieceSlice
<1>2. ASSUME NEW i \in 1 .. c PROVE LowChunk(m, q, nl, g0, i - 1) \in P
  <2>1. InSlice(q, i - 1)
    BY <1>1 DEF InSlice
  <2> QED BY <2>1, ChunkRunGood
<1>3. r = [i \in 1 .. c |-> LowChunk(m, q, nl, g0, i - 1)]
  BY DEF LowChunks
<1>4. <<>> \in P
  BY NothingRuns
<1>5. \A a, b \in P : a \o b \in P
  <2> HIDE DEF S, n
  <2> TAKE a, b \in P
  <2>1. a \in Seq(S) /\ b \in Seq(S) /\ FedRun(q, a) /\ FedRun(q, b) /\ Owes(a, n) /\ Owes(b, n)
    OBVIOUS
  <2>2. a \o b \in Seq(S)
    BY <2>1, ConcatProperties
  <2>3. FedRun(q, a \o b)
    BY <2>1, FedConcat
  <2>4. Owes(a \o b, n)
    BY <2>1, OwesConcat
  <2> QED BY <2>2, <2>3, <2>4
<1>6. P \in SUBSET Seq(S)
  OBVIOUS
<1> HIDE DEF n, r, P, c
<1>7. r \in Seq(P)
  BY <1>1, <1>2, <1>3
<1>8. Flat(r) \in P
  <2> HIDE DEF S
  <2> QED BY <1>4, <1>5, <1>6, <1>7, FlatKeeps
<1> QED BY <1>8 DEF P, r, n

(* The drains of a pass settle every latch its MACs added to, each group into*)
(* words of its own.                                                        *)
LEMMA TakesRunGood ==
  ASSUME NEW q, PieceOf(q), NEW nl \in {1, 2}, NEW g0 \in Nat, PassGroups(q, nl, g0) \in 1 .. nl
  PROVE  /\ Flat(LowTakes(q, nl, g0)) \in Seq(Shape(nl))
         /\ Settles(Flat(LowTakes(q, nl, g0)), PassGroups(q, nl, g0))
         /\ Words(Flat(LowTakes(q, nl, g0)), Place(q, g0), Place(q, g0 + PassGroups(q, nl, g0)))
<1> DEFINE n == PassGroups(q, nl, g0)
           r == LowTakes(q, nl, g0)
           S == Shape(nl)
           To(k) == Place(q, g0 + k)
           G == {x \in Nat \X Seq(S) : Settles(x[2], x[1]) /\ Words(x[2], To(0), To(x[1]))}
<1>1. ASSUME NEW k \in 1 .. n
      PROVE  /\ Legalise(TakeOf(q, g0 + (k - 1), k - 1)) \in Seq(S)
             /\ At(Legalise(TakeOf(q, g0 + (k - 1), k - 1)), "MAC") = {}
             /\ At(Legalise(TakeOf(q, g0 + (k - 1), k - 1)), "WRVEC") = {}
             /\ \A c \in Chan : \E j \in DOMAIN Legalise(TakeOf(q, g0 + (k - 1), k - 1)) :
                   Drains(Legalise(TakeOf(q, g0 + (k - 1), k - 1)), j, k - 1, c)
             /\ Words(Legalise(TakeOf(q, g0 + (k - 1), k - 1)), To(k - 1), To(k))
  <2> DEFINE t == k - 1
             g == g0 + t
  <2>1. t \in 0 .. nl - 1 /\ g \in Nat /\ g + 1 = g0 + k
    OBVIOUS
  <2> HIDE DEF t, g, n, S, To
  <2>2. /\ Legalise(TakeOf(q, g, t)) \in Seq(Shape(nl))
        /\ At(Legalise(TakeOf(q, g, t)), "MAC") = {} /\ At(Legalise(TakeOf(q, g, t)), "WRVEC") = {}
        /\ \A c \in Chan : \E j \in DOMAIN Legalise(TakeOf(q, g, t)) : Drains(Legalise(TakeOf(q, g, t)), j, t, c)
        /\ Words(Legalise(TakeOf(q, g, t)), Place(q, g), Place(q, g + 1))
    BY <2>1, TakeEnds
  <2>3. Place(q, g) = To(t) /\ Place(q, g + 1) = To(k)
    BY <2>1 DEF To, g
  <2> QED BY <2>2, <2>3 DEF g, t, S
<1>2. ASSUME NEW k \in 0 .. n PROVE To(k) \in Nat /\ To(k + 1) = To(k) + Nch
  <2> DEFINE g == g0 + k
  <2>1. g \in Nat /\ g + 1 = g0 + (k + 1)
    OBVIOUS
  <2> HIDE DEF g
  <2>2. Place(q, g) \in Nat /\ Place(q, g + 1) = Place(q, g) + Nch
    BY <2>1, PlaceIs
  <2> QED BY <2>1, <2>2 DEF g
<1>3. n \in {1, 2} /\ Nch \in Nat
  BY BeatSizes
<1>4. /\ DOMAIN r = 1 .. n /\ \A k \in 1 .. n : r[k] = Legalise(TakeOf(q, g0 + (k - 1), k - 1))
      /\ r = [k \in 1 .. n |-> Legalise(TakeOf(q, g0 + (k - 1), k - 1))]
  BY DEF LowTakes
<1> HIDE DEF r, S, n, To
<1>5. r \in Seq(Seq(S)) /\ Len(r) = n
  <2> DEFINE f(k) == Legalise(TakeOf(q, g0 + (k - 1), k - 1))
  <2>1. \A k \in 1 .. n : f(k) \in Seq(S)
    BY <1>1
  <2>2. r = [k \in 1 .. n |-> f(k)] /\ n \in Nat
    BY <1>3, <1>4
  <2> HIDE DEF f
  <2> QED BY <2>1, <2>2
<1>6. <<0, <<>>>> \in G
  <2>1. Settles(<<>>, 0)
    BY NothingRuns DEF Settles
  <2>2. Words(<<>>, To(0), To(0))
    BY NothingRuns, WordsNone
  <2>3. <<0, <<>>>> \in Nat \X Seq(S)
    BY EmptySeq
  <2> QED BY <2>1, <2>2, <2>3
<1>7. ASSUME NEW k \in 0 .. Len(r) - 1, NEW a \in Seq(S), <<k, a>> \in G
      PROVE  <<k + 1, a \o r[k + 1]>> \in G
  <2> DEFINE j == k + 1
             b == r[j]
  <2>1. j \in 1 .. n /\ j - 1 = k /\ k \in Nat /\ k \in 0 .. n /\ 0 \in 0 .. n
    BY <1>3, <1>5
  <2> HIDE DEF j
  <2>2. /\ b \in Seq(S) /\ At(b, "MAC") = {} /\ At(b, "WRVEC") = {}
        /\ \A c \in Chan : \E i \in DOMAIN b : Drains(b, i, k, c)
        /\ Words(b, To(k), To(j))
    BY <1>1, <1>4, <2>1
  <2>3. Settles(a, k) /\ Words(a, To(0), To(k))
    BY <1>7
  <2> HIDE DEF b, G
  <2>4. Settles(a \o b, k + 1)
    BY <2>1, <2>2, <2>3, SettlesMore
  <2>5. To(0) \in Nat /\ To(k) \in Nat /\ To(j) \in Nat /\ To(k) <= To(j)
    <3>1. To(k) \in Nat /\ To(k + 1) = To(k) + Nch
      BY <1>2, <2>1
    <3>2. To(0) \in Nat
      BY <1>2, <2>1
    <3> QED BY <1>3, <3>1, <3>2 DEF j
  <2>6. To(0) <= To(k)
    <3>1. k = 0 \/ k = 1
      BY <1>3, <1>5
    <3>2. To(0 + 1) = To(0) + Nch
      BY <1>2, <2>1
    <3>3. 0 + 1 = 1
      OBVIOUS
    <3> QED BY <1>3, <2>5, <3>1, <3>2, <3>3
  <2>7. Words(a \o b, To(0), To(j))
    BY <2>2, <2>3, <2>5, <2>6, WordsConcat
  <2>8. a \o b \in Seq(S)
    BY <2>2, ConcatProperties
  <2>9. k + 1 \in Nat
    BY <2>1
  <2> QED BY <2>4, <2>7, <2>8, <2>9 DEF G, b, j
<1>8. <<Len(r), Flat(r)>> \in G
  <2> HIDE DEF G
  <2> QED BY <1>5, <1>6, <1>7, FlatInduct
<1>9. To(0) = Place(q, g0)
  BY DEF To
<1> QED BY <1>5, <1>8, <1>9 DEF r, S, n, To

(* A pass leaves no latch unpaid and fills exactly the words of its groups. *)
LEMMA PassGood ==
  ASSUME NEW m, Planned(m), NEW q, PieceOf(q), NEW nl \in {1, 2}, NEW g0 \in Nat,
         PassGroups(q, nl, g0) \in 1 .. nl
  PROVE  /\ LowPass(m, q, nl, g0) \in Seq(Shape(nl))
         /\ FedRun(q, LowPass(m, q, nl, g0)) /\ Paid(LowPass(m, q, nl, g0))
         /\ Words(LowPass(m, q, nl, g0), Place(q, g0), Place(q, g0 + PassGroups(q, nl, g0)))
<1> DEFINE a == Flat(LowChunks(m, q, nl, g0))
           b == Flat(LowTakes(q, nl, g0))
           S == Shape(nl)
           n == PassGroups(q, nl, g0)
           lo == Place(q, g0)
           hi == Place(q, g0 + n)
<1>1. a \in Seq(S) /\ FedRun(q, a) /\ Owes(a, n)
  BY ChunksRunGood
<1>2. b \in Seq(S) /\ Settles(b, n) /\ Words(b, lo, hi)
  BY TakesRunGood
<1>3. LowPass(m, q, nl, g0) = a \o b
  BY DEF LowPass
<1>4. lo \in Nat /\ hi \in Nat /\ lo <= hi
  <2>1. ASSUME NEW g \in Nat PROVE Place(q, g) \in Nat /\ Place(q, g + 1) = Place(q, g) + Nch
    BY PlaceIs
  <2>2. /\ lo \in Nat /\ Place(q, g0 + 1) = lo + Nch /\ g0 + 1 \in Nat /\ Nch \in Nat
        /\ Place(q, (g0 + 1) + 1) = Place(q, g0 + 1) + Nch
    BY <2>1, BeatSizes
  <2>3. n \in {1, 2}
    OBVIOUS
  <2>4. (g0 + 1) + 1 = g0 + 2
    OBVIOUS
  <2> QED BY <2>2, <2>3, <2>4
<1> HIDE DEF a, b, S, n, lo, hi
<1>5. a \o b \in Seq(S)
  BY <1>1, <1>2, ConcatProperties
<1>6. Paid(a \o b)
  BY <1>1, <1>2, OwesSettled
<1>7. Words(a \o b, lo, hi)
  <2>1. Words(a, lo, lo)
    BY <1>1, WordsNone DEF Owes
  <2> QED BY <1>1, <1>2, <1>4, <2>1, WordsConcat
<1>8. FedRun(q, a \o b)
  <2>1. FedRun(q, b)
    BY <1>2 DEF FedRun, Sized, Own, Settles
  <2> QED BY <1>1, <1>2, <2>1, FedConcat
<1> QED BY <1>3, <1>5, <1>6, <1>7, <1>8 DEF S, lo, hi, n

LEMMA PlaceOrder ==
  ASSUME NEW q, PieceOf(q), NEW g \in Nat, NEW h \in Nat, g <= h
  PROVE  Place(q, g) \in Nat /\ Place(q, h) \in Nat /\ Place(q, g) <= Place(q, h)
<1>1. q.y \in Nat /\ VWords \in Nat /\ Nch \in Nat
  BY BeatSizes, MatvecAssumption DEF PieceOf
<1>2. Nch * g <= Nch * h
  BY <1>1, Monotone
<1>3. g * Nch = Nch * g /\ h * Nch = Nch * h /\ g * Nch \in Nat /\ h * Nch \in Nat
  BY <1>1, ProductNat, SMT
<1> QED BY <1>1, <1>2, <1>3 DEF Place

(* So do the passes of a piece, ...                                         *)
LEMMA PassesRunGood ==
  ASSUME NEW m, Planned(m), NEW q, PieceOf(q), NEW nl \in {1, 2}
  PROVE  /\ Flat(LowPasses(m, q, nl)) \in Seq(Shape(nl))
         /\ FedRun(q, Flat(LowPasses(m, q, nl))) /\ Paid(Flat(LowPasses(m, q, nl)))
         /\ Words(Flat(LowPasses(m, q, nl)), Place(q, 0), Place(q, q.count))
<1> DEFINE n == Passes(q, nl)
           r == LowPasses(m, q, nl)
           S == Shape(nl)
           Upto(k) == Least(k * nl, q.count)
           G == {x \in Nat \X Seq(S) :
                   FedRun(q, x[2]) /\ Paid(x[2]) /\ Words(x[2], Place(q, 0), Place(q, Upto(x[1])))}
<1>1. n \in Nat \ {0} /\ q.count \in Nat \ {0} /\ nl \in Nat \ {0}
  BY PassesPositive DEF PieceOf
<1>2. ASSUME NEW k \in 0 .. n - 1
      PROVE  /\ LowPass(m, q, nl, k * nl) \in Seq(S)
             /\ FedRun(q, LowPass(m, q, nl, k * nl)) /\ Paid(LowPass(m, q, nl, k * nl))
             /\ Words(LowPass(m, q, nl, k * nl), Place(q, Upto(k)), Place(q, Upto(k + 1)))
             /\ Upto(k) \in Nat /\ Upto(k + 1) \in Nat /\ Upto(k) <= Upto(k + 1)
  <2> DEFINE g == k * nl
             ng == PassGroups(q, nl, g)
  <2>1. g \in Nat /\ g < q.count /\ ng \in 1 .. nl
    BY GroupsIs
  <2>2. (k + 1) * nl = g + nl
    BY <1>1
  <2>3. Upto(k) = g
    BY <1>1, <2>1 DEF Least
  <2>4. Upto(k + 1) = g + ng
    <3>1. ng = Least(nl, q.count - g)
      BY DEF PassGroups
    <3> HIDE DEF g, ng
    <3>2. Upto(k + 1) = Least(g + nl, q.count)
      BY <2>2
    <3> QED BY <1>1, <2>1, <3>1, <3>2 DEF Least
  <2> HIDE DEF g, Upto
  <2>5. /\ LowPass(m, q, nl, g) \in Seq(Shape(nl))
        /\ FedRun(q, LowPass(m, q, nl, g)) /\ Paid(LowPass(m, q, nl, g))
        /\ Words(LowPass(m, q, nl, g), Place(q, g), Place(q, g + PassGroups(q, nl, g)))
    BY <2>1, PassGood
  <2>6. Upto(k) \in Nat /\ Upto(k + 1) \in Nat /\ Upto(k) <= Upto(k + 1)
    BY <1>1, <2>1, <2>3, <2>4
  <2> QED BY <2>3, <2>4, <2>5, <2>6 DEF g
<1>3. /\ r = [k \in 1 .. n |-> LowPass(m, q, nl, (k - 1) * nl)]
      /\ \A k \in 1 .. n : r[k] = LowPass(m, q, nl, (k - 1) * nl)
  BY DEF LowPasses
<1>4. Upto(0) = 0 /\ Upto(n) = q.count
  <2>1. Upto(0) = 0
    BY <1>1 DEF Least
  <2>2. q.count <= nl * n /\ nl * n = n * nl /\ n * nl \in Nat
    <3>1. q.count <= nl * CeilDiv(q.count, nl) /\ nl * CeilDiv(q.count, nl) \in Nat
      BY <1>1, Ceil
    <3> QED BY <1>1, <3>1 DEF Passes
  <2> HIDE DEF n
  <2>3. Upto(n) = q.count
    BY <1>1, <2>2 DEF Least
  <2> QED BY <2>1, <2>3
<1> HIDE DEF r, S, n, Upto
<1>5. r \in Seq(Seq(S)) /\ Len(r) = n
  <2> DEFINE f(k) == LowPass(m, q, nl, (k - 1) * nl)
  <2>1. \A k \in 1 .. n : f(k) \in Seq(S)
    <3> TAKE k \in 1 .. n
    <3>1. k - 1 \in 0 .. n - 1
      BY <1>1
    <3> QED BY <1>2, <3>1
  <2>2. r = [k \in 1 .. n |-> f(k)]
    BY <1>3
  <2> HIDE DEF f
  <2> QED BY <1>1, <2>1, <2>2
<1>6. <<0, <<>>>> \in G
  <2>1. FedRun(q, <<>>) /\ Paid(<<>>)
    BY NothingRuns
  <2>2. Words(<<>>, Place(q, 0), Place(q, Upto(0)))
    BY NothingRuns, WordsNone
  <2>3. <<0, <<>>>> \in Nat \X Seq(S)
    BY EmptySeq
  <2> QED BY <2>1, <2>2, <2>3
<1>7. ASSUME NEW k \in 0 .. Len(r) - 1, NEW a \in Seq(S), <<k, a>> \in G
      PROVE  <<k + 1, a \o r[k + 1]>> \in G
  <2> DEFINE b == r[k + 1]
  <2>1. k + 1 \in 1 .. n /\ (k + 1) - 1 = k /\ k \in 0 .. n - 1 /\ k + 1 \in Nat
    BY <1>1, <1>5
  <2>2. b = LowPass(m, q, nl, k * nl)
    BY <1>3, <2>1
  <2>3. /\ b \in Seq(S) /\ FedRun(q, b) /\ Paid(b) /\ Words(b, Place(q, Upto(k)), Place(q, Upto(k + 1)))
        /\ Upto(k) \in Nat /\ Upto(k + 1) \in Nat /\ Upto(k) <= Upto(k + 1)
    BY <1>2, <2>1, <2>2
  <2>4. FedRun(q, a) /\ Paid(a) /\ Words(a, Place(q, 0), Place(q, Upto(k)))
    BY <1>7
  <2> DEFINE lo == Place(q, 0)
             mid == Place(q, Upto(k))
             hi == Place(q, Upto(k + 1))
  <2>5. mid \in Nat /\ hi \in Nat /\ mid <= hi
    BY <2>3, PlaceOrder
  <2>6. lo \in Nat /\ lo <= mid
    BY <2>3, PlaceOrder
  <2> HIDE DEF b, G, lo, mid, hi
  <2>7. Words(a \o b, lo, hi)
    <3>1. Words(a, lo, mid) /\ Words(b, mid, hi)
      BY <2>3, <2>4 DEF lo, mid, hi
    <3> QED BY <2>3, <2>5, <2>6, <3>1, WordsConcat
  <2>8. FedRun(q, a \o b)
    BY <2>3, <2>4, FedConcat
  <2>9. Paid(a \o b)
    BY <2>3, <2>4, PaidConcat
  <2>10. a \o b \in Seq(S)
    BY <2>3, ConcatProperties
  <2> QED BY <2>1, <2>7, <2>8, <2>9, <2>10 DEF G, b, lo, hi
<1>8. <<Len(r), Flat(r)>> \in G
  <2> HIDE DEF G
  <2> QED BY <1>5, <1>6, <1>7, FlatInduct
<1> QED BY <1>4, <1>5, <1>8 DEF r, S

(* ... and the piece with the vector it loads first.                        *)
LEMMA PartGood ==
  ASSUME NEW m, Planned(m), NEW q, PieceOf(q), NEW nl \in {1, 2}
  PROVE  /\ LowPart(m, q, nl) \in Seq(Shape(nl)) /\ Own(LowPart(m, q, nl)) /\ Paid(LowPart(m, q, nl))
         /\ Words(LowPart(m, q, nl), Place(q, 0), Place(q, q.count))
<1> DEFINE b == Flat(LowPasses(m, q, nl))
           S == Shape(nl)
           lo == Place(q, 0)
           hi == Place(q, q.count)
<1>1. b \in Seq(S) /\ FedRun(q, b) /\ Paid(b) /\ Words(b, lo, hi)
  BY PassesRunGood
<1>2. LowPart(m, q, nl) = LowHoisted(q) \o b
  BY DEF LowPart
<1>3. InSlice(q, 0)
  BY PieceSlice
<1>4. PICK e \in S : Legalise(FillOf(q, 0)) = <<e>> /\ e.op = "WRVEC" /\ e.sz = Size(q, 0)
  BY <1>3, FillEnds
<1>5. lo \in Nat /\ hi \in Nat /\ lo <= hi
  BY PlaceOrder DEF PieceOf
<1> HIDE DEF b, S, lo, hi
<1>6. CASE Hoist(q.off, q.len)
  <2> DEFINE a == <<e>>
  <2>1. LowHoisted(q) = a
    BY <1>4, <1>6 DEF LowHoisted
  <2>2. Own(<<e>> \o b)
    <3>1. Sized(b, e.sz)
      BY <1>1, <1>4, <1>6 DEF FedRun
    <3> QED BY <1>1, <1>4, <3>1, OwnLoaded
  <2>3. a \in Seq(S) /\ DOMAIN a = {1} /\ a[1].op = "WRVEC"
    BY <1>4
  <2>4. At(a, "MAC") = {} /\ At(a, "RD_MAC") = {}
    BY <2>3 DEF At
  <2>5. Own(a \o b)
    BY <2>2
  <2> HIDE DEF a
  <2>6. Paid(a)
    BY <2>4 DEF Paid
  <2>7. Paid(a \o b)
    BY <1>1, <2>3, <2>6, PaidConcat
  <2>8. Words(a, lo, lo)
    BY <2>4, WordsNone
  <2>9. Words(a \o b, lo, hi)
    BY <1>1, <1>5, <2>3, <2>8, WordsConcat
  <2>10. a \o b \in Seq(S)
    BY <1>1, <2>3, ConcatProperties
  <2> QED BY <1>2, <2>1, <2>5, <2>7, <2>9, <2>10 DEF S, lo, hi
<1>7. CASE ~Hoist(q.off, q.len)
  <2>1. LowHoisted(q) = <<>> /\ Own(b)
    BY <1>1, <1>7 DEF LowHoisted, FedRun
  <2>2. <<>> \o b = b
    BY <1>1, ConcatEmptySeq
  <2> QED BY <1>1, <1>2, <2>1, <2>2 DEF S, lo, hi
<1> QED BY <1>6, <1>7

--------------------
(* A program put together that way is what the verifier accepts, and keeps  *)
(* apart what the engine wants kept apart.                                  *)
Sealed(p, nl) ==
  /\ p \in Seq(Shape(nl)) /\ Own(p) /\ Paid(p)
  /\ \A i, j \in At(p, "RD_MAC") : p[i].row = p[j].row => i = j
  /\ p # <<>> /\ p[Len(p)].op = "EOS"

(* EOS behind such pieces seals the program.                                *)
LEMMA EndGood ==
  ASSUME NEW nl \in {1, 2}, NEW b \in Seq(Shape(nl)), Own(b), Paid(b),
         NEW lo \in Nat, NEW hi \in Nat, lo <= hi, Words(b, lo, hi)
  PROVE  Sealed(b \o <<TheEnd>>, nl) /\ Words(b \o <<TheEnd>>, lo, hi)
<1> DEFINE e == TheEnd
           a == <<e>>
           S == Shape(nl)
           c == b \o a
<1>1. e \in S /\ e.op = "EOS"
  <2>1. e \in Finals /\ e.op = "EOS"
    BY TheEndIs
  <2>2. e.t = 0 /\ e.ch = Chan
    BY DEF TheEnd, Encoded
  <2> HIDE DEF e
  <2> QED BY <2>1, <2>2 DEF Shape
<1> HIDE DEF e, S
<1>2. a \in Seq(S) /\ DOMAIN a = {1} /\ a[1] = e /\ Len(a) = 1 /\ b \in Seq(S)
  BY <1>1 DEF S
<1>3. At(a, "MAC") = {} /\ At(a, "RD_MAC") = {} /\ At(a, "WRVEC") = {}
  BY <1>1, <1>2 DEF At
<1> HIDE DEF a
<1>4. Own(a) /\ Paid(a) /\ Words(a, hi, hi)
  BY <1>3 DEF Own, Paid, Words
<1>5. Own(c)
  BY <1>2, <1>4, OwnConcat
<1>6. Paid(c)
  BY <1>2, <1>4, PaidConcat
<1>7. Words(c, lo, hi)
  BY <1>2, <1>4, WordsConcat
<1>8. c \in Seq(S) /\ DOMAIN c = 1 .. Len(b) + Len(a) /\ \A j \in DOMAIN a : c[Len(b) + j] = a[j]
  <2>1. a \in Seq(S) /\ b \in Seq(S)
    BY <1>2
  <2>2. b \o a \in Seq(S) /\ DOMAIN (b \o a) = 1 .. Len(b) + Len(a)
    BY <2>1, ConcatAt
  <2>3. \A j \in DOMAIN a : (b \o a)[Len(b) + j] = a[j]
    BY <2>1, ConcatRight
  <2> QED BY <2>2, <2>3
<1> HIDE DEF c
<1>9. Len(c) = Len(b) + 1 /\ c[Len(c)] = e
  <2>1. Len(b) \in Nat /\ DOMAIN c = 1 .. Len(b) + 1
    BY <1>2, <1>8
  <2>2. Len(c) = Len(b) + 1
    BY <1>8, <2>1
  <2> QED BY <1>2, <1>8, <2>2
<1>10. c # <<>>
  BY <1>2, <1>9
<1>11. Sealed(c, nl)
  BY <1>1, <1>5, <1>6, <1>7, <1>8, <1>9, <1>10 DEF Sealed, Words, S
<1> QED BY <1>7, <1>11 DEF c, a, e

(* The last load before an ISR.                                             *)
LEMMA LastIs ==
  ASSUME NEW S \in SUBSET Int, NEW x \in S, \A y \in S : y <= x
  PROVE  Last(S) = x
<1>1. \E z \in S : \A y \in S : y <= z
  OBVIOUS
<1>2. Last(S) \in S /\ \A y \in S : y <= Last(S)
  BY <1>1, Zenon DEF Last
<1>3. Last(S) <= x /\ x <= Last(S) /\ Last(S) \in Int /\ x \in Int
  BY <1>2
<1> QED BY <1>3

(* A sealed program that fits IMEM is accepted: each rule of pim_prog_verify*)
(* follows from one part of it.                                             *)
LEMMA WholeAccepted ==
  ASSUME NEW nl \in {1, 2}, NEW p, Sealed(p, nl), Len(p) <= ImemWords
  PROVE  Verify(p, nl = 2) /\ Built(p)
<1>1. /\ p \in Seq(Shape(nl)) /\ Own(p) /\ Paid(p)
      /\ \A i, j \in At(p, "RD_MAC") : p[i].row = p[j].row => i = j
      /\ p # <<>> /\ p[Len(p)].op = "EOS"
  BY DEF Sealed
<1>2. DOMAIN p = 1 .. Len(p) /\ Len(p) \in Nat \ {0}
  BY <1>1
<1>3. \A i \in DOMAIN p :
        /\ p[i].t \in 0 .. nl - 1
        /\ IF p[i].op = "RD_MAC" THEN \E c \in Chan : p[i].ch = {c} ELSE p[i].ch = Chan
  <2> TAKE i \in DOMAIN p
  <2>1. p[i] \in Shape(nl)
    BY <1>1
  <2> QED BY <2>1 DEF Shape
<1>4. (nl = 2) \/ OneLatch(p)
  <2>1. CASE nl = 1
    <3>1. \A i \in DOMAIN p : p[i].t \in 0 .. 0
      BY <1>3, <2>1
    <3>2. \A i \in DOMAIN p : p[i].t = 0
      BY <3>1
    <3> QED BY <3>2 DEF OneLatch
  <2> QED BY <2>1
<1>5. VectorMatches(p)
  <2> SUFFICES ASSUME NEW i \in At(p, "MAC")
               PROVE  FillsBefore(p, i) # {} /\ p[Last(FillsBefore(p, i))].sz = p[i].sz
    BY DEF VectorMatches
  <2>1. PICK j \in At(p, "WRVEC") : j < i /\ p[j].sz = p[i].sz /\ \A k \in At(p, "WRVEC") : k < i => k <= j
    BY <1>1 DEF Own
  <2> DEFINE F == FillsBefore(p, i)
  <2>2. j \in F /\ (\A k \in F : k <= j) /\ F \in SUBSET Int
    BY <1>2, <2>1 DEF FillsBefore, At
  <2> HIDE DEF F
  <2>3. Last(F) = j
    BY <2>2, LastIs
  <2> QED BY <2>1, <2>2, <2>3 DEF F
<1>6. \E c \in Chan : TRUE
  BY IsrAssumption
<1>7. Drained(p)
  <2> SUFFICES ASSUME NEW i \in At(p, "MAC") PROVE \E j \in At(p, "RD_MAC") : j > i /\ p[j].t = p[i].t
    BY DEF Drained
  <2>1. PICK c \in Chan : TRUE
    BY <1>6
  <2>2. PICK j \in DOMAIN p : j > i /\ Drains(p, j, p[i].t, c)
    BY <1>1 DEF Paid
  <2> QED BY <2>2 DEF Drains, At
<1>8. OneResultPerWord(p)
  <2> SUFFICES ASSUME NEW i \in At(p, "RD_MAC"), NEW j \in At(p, "RD_MAC"), j < i, p[j].row = p[i].row
               PROVE  FALSE
    BY DEF OneResultPerWord
  <2>1. i = j
    BY <1>1
  <2>2. j \in Int
    BY <1>2 DEF At
  <2> QED BY <2>1, <2>2
<1>9. EndsQuietly(p)
  BY <1>1 DEF EndsQuietly
<1>10. Verify(p, nl = 2)
  <2>1. Len(p) \in 1 .. ImemWords
    BY <1>2, IsrAssumption
  <2> QED BY <1>4, <1>5, <1>7, <1>8, <1>9, <2>1 DEF Verify
<1>11. \A i \in At(p, "MAC"), c \in Chan : \E j \in At(p, "RD_MAC") : j > i /\ c \in p[j].ch
  <2> TAKE i \in At(p, "MAC"), c \in Chan
  <2>1. PICK j \in DOMAIN p : j > i /\ Drains(p, j, p[i].t, c)
    BY <1>1 DEF Paid
  <2> QED BY <2>1 DEF Drains, At
<1>12. Built(p)
  BY <1>1, <1>3, <1>11 DEF Built
<1> QED BY <1>10, <1>12

(* A launch of pim_gemv_ex.                                                 *)
LEMMA GemvGood ==
  ASSUME NEW m, NEW first, NEW count, GemvWanted(m, first, count), NEW nl \in {1, 2}
  PROVE  /\ Sealed(GemvProgram(m, first, count, 0, VWords, nl), nl)
         /\ Words(GemvProgram(m, first, count, 0, VWords, nl), VWords, VWords + count * Nch)
<1> DEFINE q == Whole(m, first, count)
           b == LowPart(m, q, nl)
<1>1. PieceOf(q) /\ Planned(m) /\ q.count \in Nat
  BY WholeIs DEF GemvWanted
<1>2. GemvProgram(m, first, count, 0, VWords, nl) = b \o <<TheEnd>>
  BY GemvAgrees
<1> HIDE DEF q
<1>3. b \in Seq(Shape(nl)) /\ Own(b) /\ Paid(b) /\ Words(b, Place(q, 0), Place(q, q.count))
  BY <1>1, PartGood
<1> DEFINE lo == Place(q, 0)
           hi == Place(q, q.count)
<1>4. lo \in Nat /\ hi \in Nat /\ lo <= hi
  BY <1>1, PlaceOrder
<1> HIDE DEF b, lo, hi
<1>5. Sealed(b \o <<TheEnd>>, nl) /\ Words(b \o <<TheEnd>>, lo, hi)
  BY <1>3, <1>4, EndGood DEF lo, hi
<1>6. lo = VWords /\ hi = VWords + count * Nch
  <2>1. q.y = 0 /\ q.count = count
    BY DEF q, Whole, Piece
  <2>2. VWords \in Nat /\ Nch \in Nat \ {0} /\ count \in Nat
    BY MatvecAssumption, BeatSizes DEF GemvWanted
  <2>3. 0 * Nch = 0 /\ count * Nch \in Nat
    BY <2>2, ProductNat
  <2>4. lo = VWords + 0 + 0 * Nch /\ hi = VWords + 0 + count * Nch
    BY <2>1 DEF lo, hi, Place
  <2> QED BY <2>2, <2>3, <2>4
<1> QED BY <1>2, <1>5, <1>6

--------------------
(* Every reference of a piece stays inside what it refers to.               *)
Fits(b) == b.index + (IF b.op = "RD_MAC" THEN Nch - 1 ELSE 0) < b.room
Roomy == {b \in Blanks : Fits(b)}
Accepted(m, q) == Planned(m) /\ PieceOf(q) /\ ~PartRefused(m, q)

(* Each reference of a piece that was not refused, in turn.                 *)
LEMMA FillRoom ==
  ASSUME NEW q, PieceOf(q), NEW i, InSlice(q, i)
  PROVE  FillOf(q, i) \in Roomy
<1> DEFINE off == q.off
           len == q.len
           b == FillOf(q, i)
<1>1. off \in Nat /\ len \in Nat \ {0} /\ i \in 0 .. SliceChunks(off, len) - 1
  BY DEF PieceOf, InSlice
<1>2. b \in Blanks
  BY FillTyped
<1>3. b.op = "WRVEC" /\ b.index = SliceVecWord(off, len, i) /\ b.room = Beats(off, len)
  BY DEF FillOf, Blank
<1> HIDE DEF off, len, b
<1>4. /\ First(off, i) \in Nat /\ Past(off, len, i) \in Nat
      /\ First(off, i) < Past(off, len, i) /\ Past(off, len, i) <= Hi(off, len)
  BY <1>1, ChunkIs
<1>5. SliceVecWord(off, len, i) = First(off, i) - Lo(off)
  BY <1>1, VecWordIs
<1>6. Lo(off) \in Nat /\ Hi(off, len) \in Nat /\ Beats(off, len) = Hi(off, len) - Lo(off)
  BY <1>1, SliceIs
<1>7. SliceVecWord(off, len, i) \in Int /\ SliceVecWord(off, len, i) < Beats(off, len)
  BY <1>4, <1>5, <1>6
<1>8. Fits(b)
  BY <1>3, <1>7 DEF Fits
<1> QED BY <1>2, <1>8 DEF Roomy, b

LEMMA TakeRoom ==
  ASSUME NEW q, PieceOf(q), NEW g \in 0 .. q.count - 1, NEW t \in Nat
  PROVE  TakeOf(q, g, t) \in Roomy
<1> DEFINE b == TakeOf(q, g, t)
           n == q.count
<1>1. n \in Nat \ {0} /\ Nch \in Nat \ {0}
  BY BeatSizes DEF PieceOf
<1>2. g \in Nat /\ g + 1 <= n
  BY <1>1
<1>3. b \in Blanks
  BY <1>2, TakeTyped
<1>4. b.op = "RD_MAC" /\ b.index = g * Nch /\ b.room = n * Nch
  BY DEF TakeOf, Blank
<1> HIDE DEF b, n
<1>5. Nch * g + Nch <= Nch * n
  BY <1>1, <1>2, NextMultiple
<1>6. g * Nch = Nch * g /\ n * Nch = Nch * n /\ g * Nch \in Nat /\ n * Nch \in Nat
  BY <1>1, <1>2, ProductNat, SMT
<1>7. g * Nch + (Nch - 1) < n * Nch
  BY <1>1, <1>5, <1>6
<1>8. Fits(b)
  BY <1>4, <1>7 DEF Fits
<1> QED BY <1>3, <1>8 DEF Roomy, b

LEMMA ChunkBelow ==
  ASSUME NEW m, NEW q, Accepted(m, q), NEW i, InSlice(q, i)
  PROVE  /\ SlicePart(q.off, q.len, i).chunk \in 0 .. m.nchunks - 1
         /\ m.ngroups \in Nat \ {0} /\ m.nchunks \in Nat \ {0}
<1> DEFINE off == q.off
           len == q.len
           k == m.nred
           h == Hi(off, len)
           H == Hi(0, k)
           c == Lo(off) \div RowBeats + i
<1>1. off \in Nat /\ len \in Nat \ {0} /\ i \in 0 .. SliceChunks(off, len) - 1 /\ Planned(m)
  BY DEF PieceOf, InSlice, Accepted
<1>2. SliceHi(off, len) <= m.nredpad
  <2>1. ~(SliceHi(off, len) > m.nredpad)
    BY DEF Accepted, PartRefused
  <2>2. m.nredpad \in Nat /\ m.nredpad = Epb * H
    BY <1>1, PlannedSizes
  <2>3. SliceHi(off, len) = Epb * h /\ h \in Nat
    BY <1>1, SliceIs
  <2>4. Epb * h \in Nat
    BY <2>3, BeatSizes, ProductNat
  <2> QED BY <2>1, <2>2, <2>3, <2>4
<1>3. /\ m.nredpad = Epb * H /\ k \in Nat \ {0} /\ m.ngroups \in Nat \ {0} /\ m.nchunks \in Nat \ {0}
      /\ SliceChunks(0, k) = m.nchunks /\ Lo(0) = 0
  BY <1>1, PlannedSizes
<1> HIDE DEF off, len, k
<1>4. SliceHi(off, len) = Epb * h /\ h \in Nat /\ Lo(off) \in Nat /\ Lo(off) < h /\ SliceChunks(off, len) \in Nat
  BY <1>1, SliceIs
<1>5. /\ H \in Nat /\ Lo(0) < H /\ 0 \in Nat
      /\ SliceChunks(0, k) = (H - 1) \div RowBeats - Lo(0) \div RowBeats + 1
  BY <1>3, SliceIs
<1>6. Lo(off) \div RowBeats + i <= (h - 1) \div RowBeats
  BY <1>1, ChunkIs
<1>7. SlicePart(off, len, i).chunk = c
  BY <1>1, PartIs
<1> HIDE DEF h, H
<1>8. h <= H
  <2> SUFFICES ASSUME H + 1 <= h PROVE FALSE
    BY <1>4, <1>5
  <2>1. Epb * H + Epb <= Epb * h
    BY <1>4, <1>5, BeatSizes, NextMultiple
  <2>2. Epb * H \in Nat /\ Epb * h \in Nat
    BY <1>4, <1>5, BeatSizes, ProductNat
  <2> QED BY <1>2, <1>3, <1>4, <2>1, <2>2, BeatSizes
<1>9. (h - 1) \div RowBeats <= (H - 1) \div RowBeats
  <2>1. h - 1 \in Nat /\ H - 1 \in Nat /\ h - 1 <= H - 1
    BY <1>3, <1>4, <1>5, <1>8
  <2> QED BY <2>1, BeatSizes, DivMonotone
<1>10. 0 \div RowBeats = 0
  <2>1. (RowBeats * 0 + 0) \div RowBeats = 0
    BY BeatSizes, DivOfSum
  <2>2. RowBeats * 0 + 0 = 0
    BY BeatSizes
  <2> QED BY <2>1, <2>2
<1> DEFINE x == (H - 1) \div RowBeats
           y == (h - 1) \div RowBeats
           z == Lo(off) \div RowBeats
<1>11. x \in Nat /\ y \in Nat /\ z \in Nat
  <2>1. h - 1 \in Nat /\ H - 1 \in Nat
    BY <1>3, <1>4, <1>5, <1>8
  <2> QED BY <1>4, <2>1, BeatSizes, DivMod
<1>12. m.nchunks = x + 1
  <2>1. m.nchunks = x - 0 + 1
    BY <1>3, <1>5, <1>10
  <2> QED BY <1>11, <2>1
<1> HIDE DEF x, y
<1>13. c <= x /\ c \in Nat
  <2>1. i \in Nat /\ c = z + i
    BY <1>1, <1>4
  <2>2. c <= y /\ y <= x
    BY <1>6, <1>9 DEF x, y
  <2> HIDE DEF c, z
  <2> QED BY <1>11, <2>1, <2>2
<1> HIDE DEF c
<1> QED BY <1>3, <1>7, <1>11, <1>12, <1>13 DEF off, len

LEMMA MulRoom ==
  ASSUME NEW m, NEW q, Accepted(m, q), NEW i, InSlice(q, i), NEW g \in 0 .. q.count - 1, NEW t \in Nat
  PROVE  MulOf(m, q, g, i, t) \in Roomy
<1> DEFINE b == MulOf(m, q, g, i, t)
           c == SlicePart(q.off, q.len, i).chunk
           x == m.ngroups
           y == m.nchunks
           u == q.first + g
<1>1. Planned(m) /\ PieceOf(q) /\ q.count \in Nat \ {0} /\ q.first \in Nat /\ ~(q.first + q.count > x)
  BY DEF Accepted, PieceOf, PartRefused
<1>2. c \in 0 .. y - 1 /\ x \in Nat \ {0} /\ y \in Nat \ {0}
  BY ChunkBelow
<1>3. g \in Nat /\ u \in Nat /\ u + 1 <= x
  BY <1>1, <1>2
<1>4. b \in Blanks
  BY <1>1, <1>3, MulTyped
<1>5. b.op = "MAC" /\ b.index = Unit(m, u, c) /\ b.room = x * y
  BY DEF MulOf, Blank
<1>6. Unit(m, u, c) = u * y + c
  BY DEF Unit
<1> HIDE DEF b, c, x, y, u
<1>7. y * u + y <= y * x
  BY <1>2, <1>3, NextMultiple
<1>8. u * y = y * u /\ x * y = y * x /\ u * y \in Nat /\ x * y \in Nat
  BY <1>2, <1>3, ProductNat, SMT
<1>9. u * y + c < x * y
  BY <1>2, <1>7, <1>8
<1>10. b.index + 0 < b.room
  BY <1>2, <1>5, <1>6, <1>8, <1>9
<1>11. Fits(b)
  BY <1>5, <1>10 DEF Fits
<1> QED BY <1>4, <1>11 DEF Roomy, b

LEMMA FlatTyped ==
  ASSUME NEW S, NEW n \in Nat, NEW r, r \in [1 .. n -> Seq(S)]
  PROVE  r \in Seq(Seq(S)) /\ Flat(r) \in Seq(S)
<1>1. r \in Seq(Seq(S))
  OBVIOUS
<1> QED BY <1>1, FlatIsJoined

LEMMA PassRoom ==
  ASSUME NEW m, NEW q, Accepted(m, q), NEW nl \in {1, 2}, NEW g0 \in Nat,
         PassGroups(q, nl, g0) \in 1 .. nl, g0 + PassGroups(q, nl, g0) <= q.count
  PROVE  Pass(m, q, nl, g0) \in Seq(Roomy)
<1> DEFINE n == PassGroups(q, nl, g0)
           c == SliceChunks(q.off, q.len)
           S == Roomy
<1>1. PieceOf(q) /\ q.count \in Nat
  BY DEF Accepted, PieceOf
<1>2. c \in Nat \ {0}
  BY <1>1, PieceSlice
<1>3. n \in Nat
  OBVIOUS
<1>4. ASSUME NEW k \in 1 .. n PROVE g0 + (k - 1) \in 0 .. q.count - 1 /\ k - 1 \in Nat
  BY <1>1
<1>5. ASSUME NEW i, InSlice(q, i) PROVE ChunkRun(m, q, nl, g0, i) \in Seq(Roomy)
  <2> DEFINE r == MacRun(m, q, nl, g0, i)
             f(k) == <<MulOf(m, q, g0 + (k - 1), i, k - 1)>>
  <2>1. \A k \in 1 .. n : f(k) \in Seq(S)
    <3> TAKE k \in 1 .. n
    <3>1. MulOf(m, q, g0 + (k - 1), i, k - 1) \in S
      BY <1>4, <1>5, MulRoom
    <3> QED BY <3>1
  <2>2. r = [k \in 1 .. n |-> f(k)]
    BY DEF MacRun
  <2> HIDE DEF f, n, S, r
  <2>3. r \in [1 .. n -> Seq(S)]
    BY <2>1, <2>2
  <2>4. Flat(r) \in Seq(S)
    BY <1>3, <2>3, FlatTyped
  <2>5. FillRun(q, i) \in Seq(S)
    <3>1. FillOf(q, i) \in S
      BY <1>1, <1>5, FillRoom DEF S
    <3> QED BY <3>1 DEF FillRun
  <2>6. FillRun(q, i) \o Flat(r) \in Seq(S)
    BY <2>4, <2>5, ConcatProperties
  <2>7. ChunkRun(m, q, nl, g0, i) = FillRun(q, i) \o Flat(r)
    BY DEF ChunkRun, FillRun, r
  <2> QED BY <2>6, <2>7 DEF S
<1>6. Flat(ChunkRuns(m, q, nl, g0)) \in Seq(S)
  <2> DEFINE r == ChunkRuns(m, q, nl, g0)
             f(i) == ChunkRun(m, q, nl, g0, i - 1)
  <2>1. \A i \in 1 .. c : f(i) \in Seq(S)
    <3> TAKE i \in 1 .. c
    <3>1. InSlice(q, i - 1)
      BY <1>2 DEF InSlice
    <3> QED BY <1>5, <3>1
  <2>2. r = [i \in 1 .. c |-> f(i)]
    BY DEF ChunkRuns
  <2> HIDE DEF f, c, S, r
  <2>3. r \in [1 .. c -> Seq(S)] /\ c \in Nat
    BY <1>2, <2>1, <2>2
  <2> QED BY <2>3, FlatTyped DEF r
<1>7. Flat(TakeRun(q, nl, g0)) \in Seq(S)
  <2> DEFINE r == TakeRun(q, nl, g0)
             f(k) == <<TakeOf(q, g0 + (k - 1), k - 1)>>
  <2>1. \A k \in 1 .. n : f(k) \in Seq(S)
    <3> TAKE k \in 1 .. n
    <3>1. TakeOf(q, g0 + (k - 1), k - 1) \in S
      BY <1>1, <1>4, TakeRoom
    <3> QED BY <3>1
  <2>2. r = [k \in 1 .. n |-> f(k)]
    BY DEF TakeRun
  <2> HIDE DEF f, n, S, r
  <2>3. r \in [1 .. n -> Seq(S)]
    BY <2>1, <2>2
  <2> QED BY <1>3, <2>3, FlatTyped DEF r
<1>8. Pass(m, q, nl, g0) = Flat(ChunkRuns(m, q, nl, g0)) \o Flat(TakeRun(q, nl, g0))
  BY PassIs
<1> QED BY <1>6, <1>7, <1>8, ConcatProperties

LEMMA PartRoom ==
  ASSUME NEW m, NEW q, Accepted(m, q), NEW nl \in {1, 2}
  PROVE  Flat(PartRuns(m, q, nl)) \in Seq(Roomy)
<1> DEFINE h == Hoisted(q)
           r == PassRuns(m, q, nl)
           n == Passes(q, nl)
           S == Roomy
<1>1. PieceOf(q) /\ Planned(m)
  BY DEF Accepted
<1>2. /\ r \in Seq(Seq(Blanks)) /\ h \in Seq(Blanks) /\ PartRuns(m, q, nl) = <<h>> \o r
  BY <1>1, PartRunsAre
<1>3. n \in Nat \ {0}
  BY <1>1, PassesPositive
<1>4. r \in [1 .. n -> Seq(S)]
  <2> DEFINE f(k) == Pass(m, q, nl, (k - 1) * nl)
  <2>1. \A k \in 1 .. n : f(k) \in Seq(S)
    <3> TAKE k \in 1 .. n
    <3> DEFINE j == k - 1
               g == j * nl
    <3>1. j \in 0 .. Passes(q, nl) - 1
      BY <1>3
    <3> HIDE DEF j
    <3>2. g \in Nat /\ PassGroups(q, nl, g) \in 1 .. nl /\ g + PassGroups(q, nl, g) <= q.count
      BY <1>1, <3>1, GroupsIs
    <3> HIDE DEF g, n, S
    <3>3. Pass(m, q, nl, g) \in Seq(Roomy)
      BY <3>2, PassRoom
    <3> QED BY <3>3 DEF g, j, S
  <2>2. r = [k \in 1 .. n |-> f(k)]
    BY DEF PassRuns
  <2> HIDE DEF f, r, n, S
  <2> QED BY <2>1, <2>2
<1>5. h \in Seq(S)
  <2>1. InSlice(q, 0)
    BY <1>1, PieceSlice
  <2>2. FillOf(q, 0) \in S
    BY <1>1, <2>1, FillRoom
  <2> HIDE DEF S
  <2> QED BY <2>2 DEF Hoisted
<1> HIDE DEF h, r, n, S
<1>6. r \in Seq(Seq(S)) /\ Flat(r) \in Seq(S)
  BY <1>3, <1>4, FlatTyped
<1>7. <<h>> \in Seq(Seq(S)) /\ Flat(<<h>>) = h
  BY <1>5, FlatOne
<1>8. Flat(<<h>> \o r) = Flat(<<h>>) \o Flat(r)
  BY <1>6, <1>7, FlatConcat
<1>9. h \o Flat(r) \in Seq(S)
  BY <1>5, <1>6, ConcatProperties
<1> QED BY <1>2, <1>7, <1>8, <1>9 DEF S

--------------------
(* Sums of what pieces cost.                                                *)
Sums(f, n) == CHOOSE r : r = [i \in 0 .. n |-> IF i = 0 THEN 0 ELSE r[i - 1] + f[i]]

(* Sum is a recursion on a bounded range: it has a solution, ...            *)
LEMMA SumsIs ==
  ASSUME NEW f, NEW N \in Nat
  PROVE  /\ Sum(f, N) = Sums(f, N)[N] /\ Sums(f, N)[0] = 0
         /\ \A k \in 1 .. N : Sums(f, N)[k] = Sums(f, N)[k - 1] + f[k]
<1> DEFINE F(n, r) == r = [k \in 0 .. n |-> IF k = 0 THEN 0 ELSE r[k - 1] + f[k]]
           G == {n \in 0 .. N : \E r : F(n, r)}
<1>1. 0 \in G
  <2> DEFINE r == [k \in 0 .. 0 |-> 0]
  <2>1. F(0, r)
    OBVIOUS
  <2>2. 0 \in 0 .. N
    OBVIOUS
  <2> HIDE DEF F
  <2> QED BY <2>1, <2>2
<1>2. ASSUME NEW n \in 0 .. N - 1, n \in G PROVE n + 1 \in G
  <2>1. PICK r : F(n, r)
    BY <1>2
  <2> DEFINE g == [k \in 0 .. n + 1 |-> IF k = 0 THEN 0 ELSE r[k - 1] + f[k]]
  <2>2. ASSUME NEW k \in 0 .. n PROVE g[k] = r[k]
    <3>1. r[k] = IF k = 0 THEN 0 ELSE r[k - 1] + f[k]
      BY <2>1
    <3> QED BY <3>1
  <2>3. ASSUME NEW k \in 0 .. n + 1 PROVE g[k] = IF k = 0 THEN 0 ELSE g[k - 1] + f[k]
    <3>1. k # 0 => k - 1 \in 0 .. n
      OBVIOUS
    <3>2. k # 0 => g[k - 1] = r[k - 1]
      BY <2>2, <3>1
    <3>3. g[k] = IF k = 0 THEN 0 ELSE r[k - 1] + f[k]
      OBVIOUS
    <3> HIDE DEF g
    <3> QED BY <3>2, <3>3
  <2>4. F(n + 1, g)
    <3> DEFINE h == [k \in 0 .. n + 1 |-> IF k = 0 THEN 0 ELSE g[k - 1] + f[k]]
    <3>1. g = [k \in 0 .. n + 1 |-> g[k]] /\ h = [k \in 0 .. n + 1 |-> h[k]]
      OBVIOUS
    <3>2. \A k \in 0 .. n + 1 : g[k] = h[k]
      BY <2>3
    <3> HIDE DEF g, h
    <3>3. g = h
      BY <3>1, <3>2, Zenon
    <3> QED BY <3>3 DEF h
  <2>5. n + 1 \in 0 .. N
    OBVIOUS
  <2> HIDE DEF F
  <2> QED BY <2>4, <2>5
<1>3. N \in G
  <2> HIDE DEF G
  <2>1. \A n \in 0 .. N : n \in G
    BY <1>1, <1>2, Counting
  <2> QED BY <2>1
<1>4. F(N, Sums(f, N))
  BY <1>3 DEF Sums
<1>5. Sum(f, N) = Sums(f, N)[N]
  BY DEF Sum, Sums
<1> DEFINE j == Sums(f, N)
<1>6. j = [k \in 0 .. N |-> IF k = 0 THEN 0 ELSE j[k - 1] + f[k]]
  BY <1>4
<1> HIDE DEF j
<1>7. \A k \in 0 .. N : j[k] = IF k = 0 THEN 0 ELSE j[k - 1] + f[k]
  BY <1>6
<1>8. 0 \in 0 .. N /\ \A k \in 1 .. N : k \in 0 .. N /\ k # 0
  OBVIOUS
<1> QED BY <1>5, <1>7, <1>8 DEF j

(* ... which one more term extends.                                         *)
LEMMA SumNext ==
  ASSUME NEW f, NEW g, NEW N \in Nat, \A k \in 1 .. N : g[k] = f[k]
  PROVE  Sum(f, 0) = 0 /\ Sum(g, N + 1) = Sum(f, N) + g[N + 1]
<1> DEFINE a == Sums(f, N)
           b == Sums(g, N + 1)
           G == {k \in 0 .. N : a[k] = b[k]}
<1>1. Sum(f, N) = a[N] /\ a[0] = 0 /\ \A k \in 1 .. N : a[k] = a[k - 1] + f[k]
  BY SumsIs
<1>2. Sum(g, N + 1) = b[N + 1] /\ b[0] = 0 /\ \A k \in 1 .. N + 1 : b[k] = b[k - 1] + g[k]
  <2> DEFINE M == N + 1
  <2>1. M \in Nat
    OBVIOUS
  <2> HIDE DEF M
  <2>2. Sum(g, M) = Sums(g, M)[M] /\ Sums(g, M)[0] = 0
        /\ \A k \in 1 .. M : Sums(g, M)[k] = Sums(g, M)[k - 1] + g[k]
    BY <2>1, SumsIs
  <2> QED BY <2>2 DEF M
<1>3. Sum(f, 0) = 0
  BY SumsIs
<1> HIDE DEF a, b
<1>4. 0 \in G
  BY <1>1, <1>2
<1>5. ASSUME NEW k \in 0 .. N - 1, k \in G PROVE k + 1 \in G
  <2>1. k + 1 \in 1 .. N /\ k + 1 \in 0 .. N /\ (k + 1) - 1 = k /\ k + 1 \in 1 .. N + 1
    OBVIOUS
  <2>2. a[k + 1] = a[k] + f[k + 1] /\ b[k + 1] = b[k] + g[k + 1] /\ g[k + 1] = f[k + 1]
    BY <1>1, <1>2, <2>1
  <2> QED BY <1>5, <2>1, <2>2
<1>6. N \in G
  <2> HIDE DEF G
  <2>1. \A k \in 0 .. N : k \in G
    BY <1>4, <1>5, Counting
  <2> QED BY <2>1
<1>7. N + 1 \in 1 .. N + 1 /\ (N + 1) - 1 = N
  OBVIOUS
<1>8. b[N + 1] = b[N] + g[N + 1]
  BY <1>2, <1>7
<1> QED BY <1>1, <1>2, <1>3, <1>6, <1>8

(* What pass 1 counts is what it pushes, and what pass 2 counts is what it  *)
(* makes of that.                                                           *)
LEMMA PartLength ==
  ASSUME NEW m, Planned(m), NEW q, PieceOf(q), NEW nl \in {1, 2}
  PROVE  Len(Flat(PartRuns(m, q, nl))) = Nisr(q.count, q.off, q.len, nl) - 1
<1> DEFINE b == Flat(PartRuns(m, q, nl))
           n == SliceChunks(q.off, q.len)
           c == q.count
<1>1. b \in Seq(Blanks)
  BY PartLow
<1>2. Tally(b, Ops) = PartCost(q, nl, Ops)
  BY PartTally
<1>3. PartCost(q, nl, Ops) = Fills(q, nl) + c * n + c /\ Fills(q, nl) \in Nat \ {0}
  BY PartCosts
<1>4. Nisr(c, q.off, q.len, nl) = 1 + Fills(q, nl) + c * n + c
  BY DEF Nisr, Nwrvec, Fills, Passes
<1>5. n \in Nat /\ c \in Nat
  <2>1. c \in Nat
    BY DEF PieceOf
  <2> QED BY <2>1, PieceSlice
<1> HIDE DEF b, n, c
<1>6. Tally(b, Ops) = Len(b)
  <2>1. \A e \in Blanks : e.op \in Ops
    BY DEF Blanks
  <2> QED BY <1>1, <2>1, TallyAll
<1> DEFINE z == c * n
           y == Fills(q, nl)
           l == Len(b)
           k == Nisr(c, q.off, q.len, nl)
<1>7. z \in Nat
  BY <1>5, ProductNat
<1>8. l = y + z + c /\ k = 1 + y + z + c /\ y \in Nat
  BY <1>2, <1>3, <1>4, <1>6
<1> HIDE DEF z, y, l, k
<1>9. l = k - 1
  BY <1>5, <1>7, <1>8
<1> QED BY <1>9 DEF l, k, b, c

(* pim_lower_isr_count is the length of the program pim_lower_isr makes.    *)
LEMMA LowLength ==
  ASSUME NEW l, l.isr \in Seq(Blanks)
  PROVE  Len(Low(l.isr)) = LowerCount(l)
<1> DEFINE b == l.isr
           p == Low(b)
<1>1. b \in Seq(Blanks)
  OBVIOUS
<1> HIDE DEF b
<1>2. p \in Seq(Finals)
  BY <1>1, BlanksLower, LowIs
<1>3. Tally(p, Ops) = Tally(b, Ops) + Tally(b, {"RD_MAC"} \cap Ops) * (Nch - 1)
  BY <1>1, TallyLow
<1> HIDE DEF p
<1>4. Tally(b, Ops) = Len(b)
  <2>1. \A e \in Blanks : e.op \in Ops
    BY DEF Blanks
  <2> QED BY <1>1, <2>1, TallyAll
<1>5. Tally(p, Ops) = Len(p)
  <2>1. \A e \in Finals : e.op \in Ops
    BY DEF Finals, Final, Blanks
  <2> QED BY <1>2, <2>1, TallyAll
<1>6. {"RD_MAC"} \cap Ops = {"RD_MAC"}
  BY DEF Ops
<1>7. Tally(b, {"RD_MAC"}) = Splits(l, Len(b))
  <2>1. Where(b, {"RD_MAC"}) = {i \in 1 .. Len(b) : b[i].op = "RD_MAC"}
    BY <1>1 DEF Where
  <2> QED BY <2>1 DEF Tally, Splits, b
<1> QED BY <1>3, <1>4, <1>5, <1>6, <1>7 DEF LowerCount, b, p

--------------------
(* The parts as they are stacked, and the program they end up as.           *)
Pieces == [first : Nat, count : Nat \ {0}, off : Nat, len : Nat \ {0}, v : Nat, y : Nat]
Costs(ps) == [k \in DOMAIN ps |-> LET q == ps[k] IN Nisr(q.count, q.off, q.len, nlatch) - 1]

Stacking ==
  /\ lp = [isr |-> lp.isr, atoms |-> lp.atoms] /\ lp.isr \in Seq(Roomy)
  /\ pieces \in Seq(Pieces) /\ FreeVec \in Nat /\ FreeRes \in 0 .. YWords
  /\ Low(lp.isr) \in Seq(Shape(nlatch)) /\ Own(Low(lp.isr)) /\ Paid(Low(lp.isr))
  /\ Words(Low(lp.isr), VWords, VWords + FreeRes)
  /\ Len(lp.isr) = Sum(Costs(pieces), Len(pieces))

Stacked ==
  /\ InRoom(lp) /\ Sealed(prog, nlatch) /\ Words(prog, VWords, VWords + YWords)
  /\ Len(prog) = LowerCount(lp) /\ Len(prog) <= ImemWords
  /\ Len(lp.isr) = 1 + Sum(Costs(pieces), Len(pieces))

StackInv == nlatch \in {1, 2} /\ (author = "parts" => IF prog = <<>> THEN Stacking ELSE Stacked)

LEMMA PieceIs == ASSUME NEW q \in Pieces PROVE PieceOf(q)
BY DEF Pieces, PieceOf

LEMMA RoomyBlanks == ASSUME NEW b \in Seq(Roomy) PROVE b \in Seq(Blanks)
BY DEF Roomy

(* One more piece, ...                                                      *)
LEMMA PartKeeps ==
  ASSUME StackInv, NEW first \in 0 .. Matrix.ngroups - 1, NEW count \in 1 .. Matrix.ngroups,
         NEW off \in Offsets, NEW len \in Lengths, Part(first, count, off, len)
  PROVE  StackInv'
<1> DEFINE q == Piece(first, count, off, len, FreeVec, FreeRes)
           a == lp.isr
           b == Flat(PartRuns(Matrix, q, nlatch))
           N == Len(pieces)
<1>1. /\ author = "parts" /\ prog = <<>> /\ prog' = prog /\ author' = author /\ nlatch' = nlatch
      /\ ~PartRefused(Matrix, q) /\ lp' = PushPart(lp, Matrix, q, nlatch) /\ pieces' = Append(pieces, q)
  BY DEF Part
<1>2. nlatch \in {1, 2} /\ Stacking
  BY <1>1 DEF StackInv
<1>3. /\ lp = [isr |-> lp.isr, atoms |-> lp.atoms] /\ a \in Seq(Roomy)
      /\ pieces \in Seq(Pieces) /\ FreeVec \in Nat /\ FreeRes \in Nat /\ YWords \in Nat
      /\ Low(a) \in Seq(Shape(nlatch)) /\ Own(Low(a)) /\ Paid(Low(a))
      /\ Words(Low(a), VWords, VWords + FreeRes)
      /\ Len(a) = Sum(Costs(pieces), N)
  BY <1>2, MatvecAssumption DEF Stacking
<1>4. Planned(Matrix)
  BY ProgramsAssumption DEF Planned
<1>5. Matrix.ngroups \in Nat \ {0}
  BY <1>4, PlannedSizes
<1>6. q \in Pieces /\ q.v = FreeVec /\ q.y = FreeRes /\ q.count = count /\ q.off = off /\ q.len = len
  <2>1. off \in Nat /\ len \in Nat \ {0} /\ first \in Nat /\ count \in Nat \ {0}
    BY <1>5, ProgramsAssumption
  <2> QED BY <1>3, <2>1 DEF Piece, Pieces
<1> HIDE DEF q
<1>7. PieceOf(q)
  BY <1>6, PieceIs
<1>8. Accepted(Matrix, q)
  BY <1>1, <1>4, <1>7 DEF Accepted
<1>9. lp' = [isr |-> lp'.isr, atoms |-> lp'.atoms] /\ lp'.isr = a \o b
  BY <1>1 DEF PushPart, Flat
<1>10. b \in Seq(Roomy)
  BY <1>2, <1>8, PartRoom
<1>11. Low(b) = LowPart(Matrix, q, nlatch)
  BY <1>2, <1>4, <1>7, PartLow
<1>12. Len(b) = Nisr(q.count, q.off, q.len, nlatch) - 1
  BY <1>2, <1>4, <1>7, PartLength
<1>13. /\ LowPart(Matrix, q, nlatch) \in Seq(Shape(nlatch))
       /\ Own(LowPart(Matrix, q, nlatch)) /\ Paid(LowPart(Matrix, q, nlatch))
       /\ Words(LowPart(Matrix, q, nlatch), Place(q, 0), Place(q, q.count))
  BY <1>2, <1>4, <1>7, PartGood
<1> HIDE DEF a, b
<1>14. a \o b \in Seq(Roomy) /\ Len(a \o b) = Len(a) + Len(b)
  BY <1>3, <1>10, ConcatProperties
<1>15. Low(a \o b) = Low(a) \o Low(b)
  <2>1. a \in Seq(Blanks)
    BY <1>3, RoomyBlanks
  <2>2. b \in Seq(Blanks)
    BY <1>10, RoomyBlanks
  <2> QED BY <2>1, <2>2, BlanksLower, LowConcat
<1> DEFINE x == Low(a)
           y == Low(b)
           S == Shape(nlatch)
           lo == VWords
           mid == VWords + FreeRes
           hi == Place(q, q.count)
<1>16. x \in Seq(S) /\ y \in Seq(S) /\ Own(x) /\ Own(y) /\ Paid(x) /\ Paid(y) /\ Words(x, lo, mid)
  BY <1>3, <1>11, <1>13
<1>17. VWords \in Nat /\ Nch \in Nat \ {0}
  BY MatvecAssumption, BeatSizes
<1>18. Place(q, 0) = mid /\ Place(q, q.count) = VWords + (FreeRes + count * Nch) /\ count * Nch \in Nat
  <2>1. count \in Nat /\ 0 * Nch = 0
    BY <1>5, <1>17
  <2>2. count * Nch \in Nat
    BY <1>17, <2>1, ProductNat
  <2> DEFINE z == count * Nch
             r == FreeRes
  <2>3. Place(q, 0) = VWords + r + 0 /\ Place(q, q.count) = VWords + r + z
    BY <1>6, <2>1 DEF Place
  <2>4. z \in Nat /\ r \in Nat
    BY <1>3, <2>2
  <2> HIDE DEF z, r
  <2>5. VWords + r + 0 = VWords + r /\ VWords + r + z = VWords + (r + z)
    BY <1>17, <2>4
  <2> QED BY <2>2, <2>3, <2>5 DEF z, r
<1>19. Words(y, mid, hi)
  BY <1>11, <1>13, <1>18
<1>20. mid \in Nat /\ hi \in Nat /\ mid <= hi /\ lo \in Nat /\ lo <= mid
  <2>1. q.count \in Nat /\ 0 \in Nat /\ 0 <= q.count
    BY <1>7 DEF PieceOf
  <2>2. Place(q, 0) \in Nat /\ Place(q, q.count) \in Nat /\ Place(q, 0) <= Place(q, q.count)
    BY <1>7, <2>1, PlaceOrder
  <2>3. mid \in Nat /\ hi \in Nat /\ mid <= hi
    BY <1>18, <2>2
  <2>4. lo \in Nat /\ lo <= mid
    BY <1>3, <1>17
  <2> QED BY <2>3, <2>4
<1> HIDE DEF x, y, S, lo, mid, hi
<1>21. Own(x \o y)
  BY <1>16, OwnConcat
<1>22. Paid(x \o y)
  BY <1>16, PaidConcat
<1>23. Words(x \o y, lo, hi)
  BY <1>16, <1>19, <1>20, WordsConcat
<1>24. x \o y \in Seq(S)
  BY <1>16, ConcatProperties
<1>25. /\ pieces' \in Seq(Pieces) /\ Len(pieces') = N + 1 /\ pieces'[N + 1] = q /\ N \in Nat
       /\ DOMAIN pieces = 1 .. N /\ DOMAIN pieces' = 1 .. N + 1 /\ \A k \in 1 .. N : pieces'[k] = pieces[k]
  BY <1>1, <1>3, <1>6
<1>26. pieces' # <<>>
  BY <1>25
<1>27. FreeRes' = FreeRes + count * Nch
  <2>1. FreeRes' = pieces'[Len(pieces')].y + pieces'[Len(pieces')].count * Nch
    BY <1>26 DEF FreeRes
  <2> HIDE DEF N
  <2>2. pieces'[Len(pieces')] = q
    BY <1>25
  <2> QED BY <1>6, <2>1, <2>2
<1>37. FreeRes' <= YWords
  BY <1>6, <1>27 DEF Part, q
<1>28. FreeVec' = FreeVec + Beats(off, len)
  <2>1. FreeVec' = pieces'[Len(pieces')].v + Beats(pieces'[Len(pieces')].off, pieces'[Len(pieces')].len)
    BY <1>26 DEF FreeVec
  <2> HIDE DEF N
  <2>2. pieces'[Len(pieces')] = q
    BY <1>25
  <2> QED BY <1>6, <2>1, <2>2
<1>29. Beats(off, len) \in Nat
  BY <1>6, <1>7, PieceSlice
<1>30. FreeRes' \in 0 .. YWords /\ FreeVec' \in Nat
  <2>1. FreeRes' \in Nat /\ FreeVec' \in Nat
    BY <1>3, <1>18, <1>27, <1>28, <1>29
  <2> QED BY <1>3, <1>37, <2>1
<1>31. hi = VWords + FreeRes'
  BY <1>18, <1>27 DEF hi
<1>32. Sum(Costs(pieces'), N + 1) = Sum(Costs(pieces), N) + (Nisr(q.count, q.off, q.len, nlatch) - 1)
  <2> DEFINE f == Costs(pieces)
             g == Costs(pieces')
  <2> HIDE DEF N
  <2>1. \A k \in 1 .. N : g[k] = f[k]
    BY <1>25 DEF Costs
  <2>2. N + 1 \in DOMAIN pieces'
    BY <1>25
  <2>3. g[N + 1] = Nisr(q.count, q.off, q.len, nlatch) - 1
    BY <1>25, <2>2 DEF Costs
  <2> HIDE DEF f, g
  <2>4. Sum(g, N + 1) = Sum(f, N) + g[N + 1]
    BY <1>25, <2>1, SumNext
  <2> QED BY <2>3, <2>4 DEF f, g
<1>33. Len(lp'.isr) = Sum(Costs(pieces'), N + 1)
  BY <1>3, <1>9, <1>12, <1>14, <1>32
<1>34. Costs(pieces)' = Costs(pieces')
  BY <1>1 DEF Costs
<1>35. Low(lp'.isr) = x \o y
  BY <1>9, <1>15 DEF x, y
<1>36. Stacking'
  <2>1. Words(Low(lp'.isr), VWords, VWords + FreeRes')
    BY <1>23, <1>31, <1>35 DEF lo
  <2>2. Low(lp'.isr) \in Seq(Shape(nlatch')) /\ Own(Low(lp'.isr)) /\ Paid(Low(lp'.isr))
    BY <1>1, <1>21, <1>22, <1>24, <1>35 DEF S
  <2>3. Len(lp'.isr) = Sum(Costs(pieces)', Len(pieces'))
    BY <1>25, <1>33, <1>34
  <2>4. lp'.isr \in Seq(Roomy)
    BY <1>9, <1>14
  <2> QED BY <1>9, <1>25, <1>30, <2>1, <2>2, <2>3, <2>4 DEF Stacking
<1> QED BY <1>1, <1>2, <1>36 DEF StackInv

LEMMA EndFits == EndOfProgram \in Roomy
<1>1. Fits(EndOfProgram)
  <2>1. EndOfProgram.op = "EOS" /\ EndOfProgram.index = 0 /\ EndOfProgram.room = 1
    BY DEF EndOfProgram, Blank
  <2> QED BY <2>1 DEF Fits
<1> QED BY <1>1, EndTyped DEF Roomy

(* ... the end of the program, ...                                          *)
LEMMA EosKeeps ==
  ASSUME StackInv, Eos
  PROVE  StackInv'
<1> DEFINE a == lp.isr
           e == EndOfProgram
           c == lp'.isr
           N == Len(pieces)
           f == Costs(pieces)
<1>1. /\ author = "parts" /\ prog = <<>> /\ LowerCount(PushEos(lp)) <= ImemWords
      /\ lp' = PushEos(lp) /\ prog' = Lower(lp')
      /\ author' = author /\ nlatch' = nlatch /\ pieces' = pieces
  BY DEF Eos
<1>2. nlatch \in {1, 2} /\ Stacking
  BY <1>1 DEF StackInv
<1>3. /\ lp = [isr |-> lp.isr, atoms |-> lp.atoms] /\ a \in Seq(Roomy)
      /\ FreeRes \in 0 .. YWords /\ YWords \in Nat /\ VWords \in Nat
      /\ Low(a) \in Seq(Shape(nlatch)) /\ Own(Low(a)) /\ Paid(Low(a))
      /\ Words(Low(a), VWords, VWords + FreeRes)
      /\ Len(a) = Sum(f, N)
  BY <1>2, MatvecAssumption DEF Stacking
<1>4. a \in Seq(Blanks)
  BY <1>3, RoomyBlanks
<1>5. lp' = [isr |-> Append(a, e), atoms |-> lp.atoms]
  BY <1>1, <1>3 DEF PushEos
<1>6. c = Append(a, e)
  BY <1>5
<1>7. e \in Roomy
  BY EndFits
<1>8. Lower(PushEos(lp)) = Low(a) \o <<TheEnd>>
  BY <1>3, <1>4, LowerEnd
<1>9. prog' = Low(a) \o <<TheEnd>>
  BY <1>1, <1>8
<1> DEFINE x == Low(a)
           lo == VWords
           hi == VWords + FreeRes
<1>10. lo \in Nat /\ hi \in Nat /\ lo <= hi
  BY <1>3, MatvecAssumption
<1>11. x \in Seq(Shape(nlatch)) /\ Own(x) /\ Paid(x) /\ Words(x, lo, hi)
  BY <1>3
<1> HIDE DEF x, lo, hi, a, e, c, N, f
<1>12. Sealed(x \o <<TheEnd>>, nlatch) /\ Words(x \o <<TheEnd>>, lo, hi)
  BY <1>2, <1>10, <1>11, EndGood
<1>23. Words(prog', VWords, VWords + YWords)
  <2>1. Words(prog', lo, hi)
    BY <1>9, <1>12 DEF x
  <2>2. lo = VWords /\ hi = VWords + FreeRes
    BY DEF lo, hi
  <2> DEFINE top == VWords + YWords
  <2>3. lo \in Nat /\ hi \in Nat /\ top \in Nat /\ hi <= top
    BY <1>3, <1>10, <2>2
  <2> HIDE DEF top
  <2>4. Words(prog', lo, top)
    BY <2>1, <2>3, WordsWider
  <2> QED BY <2>2, <2>4 DEF top
<1>13. Sealed(prog', nlatch')
  BY <1>1, <1>9, <1>12 DEF x
<1>14. c \in Seq(Roomy) /\ Len(c) = Len(a) + 1
  BY <1>3, <1>6, <1>7
<1>15. InRoom(lp')
  <2> SUFFICES ASSUME NEW i \in DOMAIN c PROVE Fits(c[i])
    BY DEF InRoom, Fits, c
  <2>1. c[i] \in Roomy
    BY <1>14
  <2> QED BY <2>1 DEF Roomy
<1>16. Len(prog') = LowerCount(lp')
  <2>1. c \in Seq(Blanks)
    BY <1>14, RoomyBlanks
  <2>2. Len(Low(lp'.isr)) = LowerCount(lp')
    BY <2>1, LowLength DEF c
  <2>3. Lower(lp') = Low(lp'.isr)
    BY LowerIsLow
  <2> QED BY <1>1, <2>2, <2>3
<1>17. Len(prog') <= ImemWords
  BY <1>1, <1>16
<1>18. Costs(pieces)' = f /\ Len(pieces') = N
  BY <1>1 DEF Costs, f, N
<1>19. Len(lp'.isr) = 1 + Sum(f, N)
  BY <1>3, <1>14 DEF c
<1>20. InRoom(lp)'
  BY <1>15 DEF InRoom
<1>21. Stacked'
  <2>1. Len(lp'.isr) = 1 + Sum(Costs(pieces)', Len(pieces'))
    BY <1>18, <1>19
  <2> QED BY <1>13, <1>16, <1>17, <1>20, <1>23, <2>1 DEF Stacked, LowerCount, Splits
<1>22. prog' # <<>>
  BY <1>13 DEF Sealed
<1> QED BY <1>1, <1>2, <1>21, <1>22 DEF StackInv

(* ... and whatever else is done.                                           *)
LEMMA StackInvHolds == Spec => []StackInv
<1>1. Init => StackInv
  <2> SUFFICES ASSUME Init PROVE StackInv
    OBVIOUS
  <2>1. nlatch \in {1, 2} /\ prog = <<>> /\ lp = NoProgram /\ pieces = <<>>
    BY DEF Init
  <2>2. lp = [isr |-> lp.isr, atoms |-> lp.atoms] /\ lp.isr = <<>>
    BY <2>1 DEF NoProgram
  <2>3. Low(lp.isr) = <<>>
    BY <2>2, LowNone
  <2>4. FreeVec = 0 /\ FreeRes = 0
    BY <2>1 DEF FreeVec, FreeRes
  <2>11. 0 \in 0 .. YWords
    BY MatvecAssumption
  <2> DEFINE b == Low(lp.isr)
             f == Costs(pieces)
  <2> HIDE DEF b, f
  <2>5. At(b, "MAC") = {} /\ At(b, "RD_MAC") = {} /\ At(b, "WRVEC") = {}
    BY <2>3 DEF At, b
  <2>6. Own(b) /\ Paid(b) /\ Words(b, VWords, VWords + FreeRes)
    BY <2>5 DEF Own, Paid, Words
  <2>7. Sum(f, 0) = 0
    <3>1. 0 \in Nat /\ \A k \in 1 .. 0 : f[k] = f[k]
      OBVIOUS
    <3> QED BY <3>1, SumNext
  <2>8. Len(lp.isr) = Sum(f, Len(pieces))
    <3>1. Len(pieces) = 0 /\ Len(lp.isr) = 0
      BY <2>1, <2>2
    <3> QED BY <2>7, <3>1
  <2>9. b \in Seq(Shape(nlatch)) /\ lp.isr \in Seq(Roomy) /\ pieces \in Seq(Pieces)
    <3>1. <<>> \in Seq(Shape(nlatch)) /\ <<>> \in Seq(Roomy) /\ <<>> \in Seq(Pieces)
      BY EmptySeq
    <3> QED BY <2>1, <2>2, <2>3, <3>1 DEF b
  <2>10. Stacking
    BY <2>2, <2>4, <2>6, <2>8, <2>9, <2>11 DEF Stacking, b, f
  <2> QED BY <2>1, <2>10 DEF StackInv
<1>2. StackInv /\ LaunchInv /\ [Next]_vars => StackInv'
  <2> SUFFICES ASSUME StackInv, LaunchInv, [Next]_vars PROVE StackInv'
    OBVIOUS
  <2>1. ASSUME author # "parts", author' = author, nlatch' = nlatch PROVE StackInv'
    BY <2>1 DEF StackInv
  <2>2. ASSUME author' = author, nlatch' = nlatch, prog' = prog, lp' = lp, pieces' = pieces PROVE StackInv'
    <3>1. Costs(pieces)' = Costs(pieces) /\ FreeVec' = FreeVec /\ FreeRes' = FreeRes
      BY <2>2 DEF Costs, FreeVec, FreeRes
    <3>2. Stacking' = Stacking /\ Stacked' = Stacked
      BY <2>2, <3>1 DEF Stacking, Stacked
    <3> QED BY <2>2, <3>2 DEF StackInv
  <2>3. CASE UNCHANGED vars
    BY <2>2, <2>3 DEF vars
  <2>4. ASSUME NEW i \in Alphabet, Push(i) PROVE StackInv'
    BY <2>1, <2>4 DEF Push
  <2>5. CASE Judge
    BY <2>2, <2>5 DEF Judge
  <2>6. ASSUME NEW m \in Weights, NEW upload, NEW cap \in Limits, Call(m, upload, cap) PROVE StackInv'
    BY <2>1, <2>6 DEF Call
  <2>7. CASE Launch
    <3>1. author = "gemv"
      BY <2>7 DEF Launch, LaunchInv
    <3> QED BY <2>1, <2>7, <3>1 DEF Launch
  <2>8. CASE Eos
    BY <2>8, EosKeeps
  <2> QED BY <2>3, <2>4, <2>5, <2>6, <2>7, <2>8, PartKeeps DEF Next
<1> QED BY <1>1, <1>2, LaunchInvHolds, PTL DEF Spec

(* The builders only build what the engine accepts: a program stacked from  *)
(* whatever pieces and lowered, and the program of every launch of          *)
(* pim_gemv_ex, whatever tensor, limit and number of latches, passes        *)
(* pim_prog_verify, stays inside the buffers it refers to, keeps apart the  *)
(* result words and drains every latch it adds to (Built), and is exactly   *)
(* as long as pim_matvec_nisr, pim_lower_isr_count, pim_gemv_nisr and       *)
(* pim_gemv_nwrvec told the caller.                                         *)
THEOREM BuildersPassVerify == Spec => []PassesVerify
<1>1. StackInv /\ LaunchInv => PassesVerify
  <2> SUFFICES ASSUME StackInv, LaunchInv PROVE PassesVerify
    OBVIOUS
  <2>1. nlatch \in {1, 2}
    BY DEF StackInv
  <2>2. ASSUME Ended
        PROVE  /\ InRoom(lp) /\ Verify(prog, nlatch = 2) /\ Built(prog)
               /\ Len(prog) = LowerCount(lp)
               /\ Len(lp.isr) = 1 + Sum([k \in DOMAIN pieces |->
                    LET q == pieces[k] IN Nisr(q.count, q.off, q.len, nlatch) - 1], Len(pieces))
    <3>1. Stacked
      BY <2>2 DEF Ended, StackInv
    <3>2. Sealed(prog, nlatch) /\ Len(prog) <= ImemWords
      BY <3>1 DEF Stacked
    <3>3. Verify(prog, nlatch = 2) /\ Built(prog)
      BY <2>1, <3>2, WholeAccepted
    <3> QED BY <3>1, <3>3 DEF Stacked, Costs
  <2>3. ASSUME author = "gemv", prog # <<>>
        PROVE  LET count == Cardinality(At(prog, "RD_MAC")) \div Nch
               IN  /\ verdict = "accepted" /\ Len(prog) <= call.cap
                   /\ Built(prog) /\ Len(prog) = GemvNisr(call.m, count, nlatch)
                   /\ Cardinality(At(prog, "WRVEC")) = GemvNwrvec(call.m, count, nlatch)
    <3> DEFINE m == call.m
               cap == call.cap
               gpl == GroupsPerLaunch(m, nlatch, cap)
               first == call.g0 - gpl
    <3>1. /\ m \in Weights /\ cap \in Limits /\ first \in Nat /\ verdict = Verdict(prog)
          /\ \E count \in 1 .. gpl : prog = GemvProgram(m, first, count, 0, VWords, nlatch)
      BY <2>3 DEF LaunchInv, Ran, Groups
    <3>2. Planned(m) /\ cap \in Nat /\ cap <= ImemWords
      BY <3>1, WeightsPlanned
    <3>3. gpl \in Nat /\ \A count \in 1 .. gpl : GemvNisr(m, count, nlatch) <= cap
      BY <2>1, <3>2, LaunchSize
    <3> HIDE DEF m, cap, gpl, first
    <3>4. PICK count \in 1 .. gpl : prog = GemvProgram(m, first, count, 0, VWords, nlatch)
      BY <3>1
    <3>5. GemvWanted(m, first, count)
      BY <3>1, <3>2 DEF GemvWanted
    <3>6. /\ Cardinality(At(prog, "RD_MAC")) = count * Nch /\ (count * Nch) \div Nch = count
          /\ Len(prog) = GemvNisr(m, count, nlatch)
          /\ Cardinality(At(prog, "WRVEC")) = GemvNwrvec(m, count, nlatch)
      BY <2>1, <3>4, <3>5, GemvTally
    <3>7. Sealed(prog, nlatch)
      BY <2>1, <3>4, <3>5, GemvGood
    <3>8. GemvNisr(m, count, nlatch) <= cap
      BY <3>3, <3>4
    <3>9. Len(prog) <= cap /\ Len(prog) <= ImemWords
      <4>1. prog \in Seq(Shape(nlatch))
        BY <3>7 DEF Sealed
      <4>2. Len(prog) \in Nat
        BY <4>1
      <4> QED BY <3>2, <3>6, <3>8, <4>2, IsrAssumption
    <3>10. Verify(prog, nlatch = 2) /\ Built(prog)
      BY <2>1, <3>7, <3>9, WholeAccepted
    <3>11. verdict = "accepted"
      BY <3>1, <3>10 DEF Verdict
    <3>12. Cardinality(At(prog, "RD_MAC")) \div Nch = count
      BY <3>6
    <3> QED BY <3>6, <3>9, <3>10, <3>11, <3>12 DEF m, cap
  <2> QED BY <2>2, <2>3 DEF PassesVerify
<1> QED BY <1>1, StackInvHolds, LaunchInvHolds, PTL

--------------------
(* The machine as it works through a program.                               *)

(* AfterFrom is the machine it starts with, and then the one before retired *)
(* once more.                                                               *)
Retirings(z, p) ==
  CHOOSE f : f = [k \in 0 .. Len(p) |-> IF k = 0 THEN z ELSE Retire(f[k - 1], p, k)]

LEMMA AfterIs ==
  ASSUME NEW z, NEW p, Len(p) \in Nat
  PROVE  /\ AfterFrom(z, p, 0) = z
         /\ \A k \in 1 .. Len(p) : AfterFrom(z, p, k) = Retire(AfterFrom(z, p, k - 1), p, k)
<1> DEFINE N == Len(p)
           F(n, r) == r = [k \in 0 .. n |-> IF k = 0 THEN z ELSE Retire(r[k - 1], p, k)]
           G == {n \in 0 .. N : \E r : F(n, r)}
<1>0. N \in Nat
  OBVIOUS
<1> HIDE DEF N
<1>1. 0 \in G
  <2> DEFINE r == [k \in 0 .. 0 |-> z]
  <2>1. F(0, r)
    OBVIOUS
  <2>2. 0 \in 0 .. N
    BY <1>0
  <2> HIDE DEF F
  <2> QED BY <2>1, <2>2
<1>2. ASSUME NEW n \in 0 .. N - 1, n \in G PROVE n + 1 \in G
  <2>1. PICK r : F(n, r)
    BY <1>2
  <2> DEFINE g == [k \in 0 .. n + 1 |-> IF k = 0 THEN z ELSE Retire(r[k - 1], p, k)]
  <2>2. ASSUME NEW k \in 0 .. n PROVE g[k] = r[k]
    <3>1. r[k] = IF k = 0 THEN z ELSE Retire(r[k - 1], p, k)
      BY <2>1
    <3>2. k \in 0 .. n + 1
      OBVIOUS
    <3> QED BY <3>1, <3>2, Zenon
  <2>3. ASSUME NEW k \in 0 .. n + 1 PROVE g[k] = IF k = 0 THEN z ELSE Retire(g[k - 1], p, k)
    <3>1. k # 0 => k - 1 \in 0 .. n
      OBVIOUS
    <3>2. k # 0 => g[k - 1] = r[k - 1]
      BY <2>2, <3>1
    <3>3. g[k] = IF k = 0 THEN z ELSE Retire(r[k - 1], p, k)
      BY Zenon
    <3> HIDE DEF g
    <3> QED BY <3>2, <3>3, Zenon
  <2>4. F(n + 1, g)
    <3> DEFINE h == [k \in 0 .. n + 1 |-> IF k = 0 THEN z ELSE Retire(g[k - 1], p, k)]
    <3>1. g = [k \in 0 .. n + 1 |-> g[k]] /\ h = [k \in 0 .. n + 1 |-> h[k]]
      OBVIOUS
    <3>2. \A k \in 0 .. n + 1 : g[k] = h[k]
      BY <2>3, Zenon
    <3> HIDE DEF g, h
    <3>3. g = h
      BY <3>1, <3>2, Zenon
    <3> QED BY <3>3 DEF h
  <2>5. n + 1 \in 0 .. N
    BY <1>0
  <2> HIDE DEF F
  <2> QED BY <2>4, <2>5
<1>3. N \in G
  <2> HIDE DEF G
  <2>1. \A n \in 0 .. N : n \in G
    BY <1>0, <1>1, <1>2, Counting
  <2> QED BY <1>0, <2>1
<1> DEFINE j == Retirings(z, p)
<1>4. j = [k \in 0 .. N |-> IF k = 0 THEN z ELSE Retire(j[k - 1], p, k)]
  <2>1. \E r : F(N, r)
    BY <1>3
  <2> QED BY <2>1, Zenon DEF Retirings, N
<1>5. \A k : AfterFrom(z, p, k) = j[k]
  BY Zenon DEF AfterFrom, Retirings
<1> HIDE DEF j
<1>6. \A k \in 0 .. N : j[k] = IF k = 0 THEN z ELSE Retire(j[k - 1], p, k)
  BY <1>4, Zenon
<1>7. 0 \in 0 .. N /\ \A k \in 1 .. N : k \in 0 .. N /\ k # 0
  BY <1>0
<1>8. j[0] = z
  BY <1>6, <1>7
<1>9. \A k \in 1 .. N : j[k] = Retire(j[k - 1], p, k)
  BY <1>6, <1>7, Zenon
<1> QED BY <1>5, <1>8, <1>9, Zenon DEF N

(* What the machine wants of a program, besides the drains.                 *)
Sound(p) ==
  /\ Len(p) \in Nat /\ DOMAIN p = 1 .. Len(p)
  /\ \A i \in DOMAIN p :
       /\ p[i].op \in Ops /\ p[i].t \in Latches
       /\ p[i].op = "WRVEC" => p[i].ch = Chan
       /\ p[i].op = "RD_MAC" => p[i].row \in Word /\ \E c \in Chan : p[i].ch = {c}
  /\ VectorMatches(p)
  /\ \A i, j \in At(p, "RD_MAC") : p[i].row = p[j].row => i = j

(* What a latch holds after the first r: the MACs since its last drain,     *)
(* each on the vector loaded last.                                          *)
Clears(p, k, t, c) == k \in At(p, "RD_MAC") /\ p[k].t = t /\ c \in p[k].ch
Since(p, c, t, r) ==
  {i \in At(p, "MAC") : i <= r /\ p[i].t = t /\ c \in p[i].ch /\ ~\E k \in 1 .. r : i < k /\ Clears(p, k, t, c)}
Held(p, c, t, r) == {<<i, Last(FillsBefore(p, i))>> : i \in Since(p, c, t, r)}
Fill(p, i) == IF FillsBefore(p, i) = {} THEN 0 ELSE Last(FillsBefore(p, i))

Exact(z, p, r) ==
  /\ \A c \in Chan : z.gb[c] = Fill(p, r + 1) /\ z.skid[c] = FALSE
  /\ \A c \in Chan, t \in Latches : z.latch[<<c, t>>] = Held(p, c, t, r)
  /\ \A j \in At(p, "RD_MAC") : j <= r => z.gpr[p[j].row] = Meant(p, j)

MachineOK(z) ==
  /\ z = [gb |-> z.gb, skid |-> z.skid, latch |-> z.latch, gpr |-> z.gpr]
  /\ z.gb = [c \in Chan |-> z.gb[c]] /\ z.skid = [c \in Chan |-> z.skid[c]]
  /\ z.latch = [x \in Chan \X Latches |-> z.latch[x]] /\ z.gpr = [w \in Word |-> z.gpr[w]]

(* A set of places has a last one.                                          *)
LEMMA LastOf ==
  ASSUME NEW n \in Nat, NEW S \in SUBSET (1 .. n), S # {}
  PROVE  Last(S) \in S /\ \A y \in S : y <= Last(S)
<1> DEFINE T == {k \in Nat : \A y \in S : y <= k}
<1>1. n \in T
  OBVIOUS
<1>2. PICK m \in T : \A k \in T : <<k, m>> \notin OpToRel(<, Nat)
  <2>1. T # {} /\ T \subseteq Nat
    BY <1>1
  <2> HIDE DEF T
  <2> QED BY <2>1, NatLessThanWellFounded, WFMin, Zenon
<1>3. m \in Nat /\ (\A y \in S : y <= m) /\ \A k \in T : ~(k < m)
  BY <1>2, Zenon DEF OpToRel
<1>4. m \in S
  <2> SUFFICES ASSUME m \notin S PROVE FALSE
    OBVIOUS
  <2>1. PICK y \in S : TRUE
    OBVIOUS
  <2>2. y <= m /\ y \in 1 .. n
    BY <1>3, <2>1
  <2>3. m - 1 \in Nat /\ m - 1 < m
    BY <1>3, <2>2
  <2>4. ASSUME NEW x \in S PROVE x <= m - 1
    <3>1. x <= m /\ x # m /\ x \in Nat
      BY <1>3
    <3> HIDE DEF T
    <3> QED BY <1>3, <3>1
  <2> QED BY <1>3, <2>3, <2>4
<1>5. \E x \in S : \A y \in S : y <= x
  BY <1>3, <1>4
<1> QED BY <1>5 DEF Last

LEMMA FillIs ==
  ASSUME NEW p, Sound(p), NEW i \in 1 .. Len(p) + 1
  PROVE  /\ FillsBefore(p, i) \subseteq 1 .. i - 1
         /\ FillsBefore(p, i) = {} => Fill(p, i) = 0
         /\ FillsBefore(p, i) # {} =>
              Fill(p, i) = Last(FillsBefore(p, i)) /\ Fill(p, i) \in FillsBefore(p, i)
         /\ Fill(p, i) \in 0 .. i - 1
<1>1. Len(p) \in Nat /\ DOMAIN p = 1 .. Len(p)
  BY DEF Sound
<1>2. FillsBefore(p, i) \subseteq 1 .. i - 1
  BY <1>1 DEF FillsBefore, At
<1>3. i - 1 \in Nat
  BY <1>1
<1>4. CASE FillsBefore(p, i) = {}
  BY <1>2, <1>3, <1>4 DEF Fill
<1>5. CASE FillsBefore(p, i) # {}
  <2>1. Last(FillsBefore(p, i)) \in FillsBefore(p, i)
    BY <1>2, <1>3, <1>5, LastOf
  <2>2. Fill(p, i) = Last(FillsBefore(p, i))
    BY <1>5 DEF Fill
  <2>3. Fill(p, i) \in 0 .. i - 1
    BY <1>2, <2>1, <2>2
  <2> QED BY <1>2, <1>5, <2>1, <2>2, <2>3
<1> QED BY <1>4, <1>5

(* The vector in the buffers changes at a load ...                          *)
LEMMA SameFill ==
  ASSUME NEW p, Sound(p), NEW n \in 1 .. Len(p), p[n].op # "WRVEC"
  PROVE  FillsBefore(p, n + 1) = FillsBefore(p, n) /\ Fill(p, n + 1) = Fill(p, n)
<1>1. \A j \in At(p, "WRVEC") : j \in Nat /\ j # n
  BY DEF At, Sound
<1>2. \A j \in At(p, "WRVEC") : j < n + 1 <=> j < n
  BY <1>1
<1>3. FillsBefore(p, n + 1) = FillsBefore(p, n)
  BY <1>2 DEF FillsBefore
<1> QED BY <1>3 DEF Fill

(* ... and only there.                                                      *)
LEMMA NewFill ==
  ASSUME NEW p, Sound(p), NEW n \in 1 .. Len(p), p[n].op = "WRVEC"
  PROVE  Fill(p, n + 1) = n
<1>1. n \in FillsBefore(p, n + 1) /\ n + 1 \in 1 .. Len(p) + 1 /\ n \in Nat
  BY DEF FillsBefore, At, Sound
<1>2. FillsBefore(p, n + 1) \subseteq 1 .. (n + 1) - 1
  BY <1>1, FillIs
<1>3. FillsBefore(p, n + 1) \subseteq 1 .. n
  BY <1>1, <1>2
<1>4. Last(FillsBefore(p, n + 1)) \in 1 .. n /\ n <= Last(FillsBefore(p, n + 1))
  BY <1>1, <1>3, LastOf
<1> QED BY <1>1, <1>4 DEF Fill

(* A latch keeps what it holds, ...                                         *)
LEMMA SinceSame ==
  ASSUME NEW p, Sound(p), NEW n \in 1 .. Len(p), NEW c, NEW t,
         p[n].op # "MAC" \/ p[n].t # t \/ c \notin p[n].ch, ~Clears(p, n, t, c)
  PROVE  Held(p, c, t, n) = Held(p, c, t, n - 1)
<1>1. \A i \in At(p, "MAC") : i \in Nat /\ (p[i].t = t /\ c \in p[i].ch => i # n)
  BY DEF At, Sound
<1>2. \A i \in At(p, "MAC") : p[i].t = t /\ c \in p[i].ch => (i <= n <=> i <= n - 1)
  BY <1>1
<1>3. \A k : k \in 1 .. n /\ Clears(p, k, t, c) <=> k \in 1 .. n - 1 /\ Clears(p, k, t, c)
  <2> TAKE k
  <2>1. k \in 1 .. n <=> k \in 1 .. n - 1 \/ k = n
    OBVIOUS
  <2> QED BY <2>1
<1>4. Since(p, c, t, n) = Since(p, c, t, n - 1)
  BY <1>2, <1>3, Zenon DEF Since
<1> QED BY <1>4 DEF Held

(* ... gains a product ...                                                  *)
LEMMA SinceMac ==
  ASSUME NEW p, Sound(p), NEW n \in 1 .. Len(p), NEW c, p[n].op = "MAC", c \in p[n].ch
  PROVE  Held(p, c, p[n].t, n) = Held(p, c, p[n].t, n - 1) \cup {<<n, Last(FillsBefore(p, n))>>}
<1> DEFINE t == p[n].t
<1>1. n \in At(p, "MAC") /\ n <= n /\ \A i \in At(p, "MAC") : i \in Nat
  BY DEF At, Sound
<1>2. \A i \in At(p, "MAC") : i <= n <=> i <= n - 1 \/ i = n
  BY <1>1
<1>3. \A k : k \in 1 .. n /\ Clears(p, k, t, c) <=> k \in 1 .. n - 1 /\ Clears(p, k, t, c)
  <2> TAKE k
  <2>1. k \in 1 .. n <=> k \in 1 .. n - 1 \/ k = n
    OBVIOUS
  <2>2. ~Clears(p, n, t, c)
    BY DEF Clears, At
  <2> QED BY <2>1, <2>2
<1>4. \A k \in 1 .. n : ~(n < k)
  OBVIOUS
<1>5. Since(p, c, t, n) = Since(p, c, t, n - 1) \cup {n}
  BY <1>1, <1>2, <1>3, <1>4, Zenon DEF Since
<1> QED BY <1>5 DEF Held

(* ... and is empty after a drain.                                          *)
LEMMA SinceDrain ==
  ASSUME NEW p, Sound(p), NEW n \in 1 .. Len(p), NEW c, NEW t, Clears(p, n, t, c)
  PROVE  Held(p, c, t, n) = {}
<1>1. \A i \in At(p, "MAC") : i \in Nat /\ i # n
  BY DEF At, Clears, Sound
<1>2. \A i \in At(p, "MAC") : i <= n => i < n
  BY <1>1
<1>3. n \in 1 .. n
  OBVIOUS
<1>4. Since(p, c, t, n) = {}
  BY <1>2, <1>3 DEF Since
<1> QED BY <1>4 DEF Held

(* What the author meant a drain to return is what its latch holds when it  *)
(* comes.                                                                   *)
LEMMA MeantIs ==
  ASSUME NEW p, Sound(p), NEW j \in At(p, "RD_MAC"), NEW d \in Chan, p[j].ch = {d}
  PROVE  Meant(p, j) = Held(p, d, p[j].t, j - 1)
<1> DEFINE t == p[j].t
<1>1. (CHOOSE x \in p[j].ch : TRUE) = d
  OBVIOUS
<1>2. j \in 1 .. Len(p) /\ DOMAIN p = 1 .. Len(p) /\ Len(p) \in Nat
  BY DEF Sound, At
<1>3. \A i \in At(p, "MAC") : i \in DOMAIN p /\ i \in Nat
  BY <1>2 DEF Sound, At
<1>4. \A k \in At(p, "RD_MAC") : k \in 1 .. Len(p)
  BY <1>2 DEF At
<1>5. \A i \in Nat : i < j <=> i <= j - 1
  BY <1>2
<1> DEFINE Mine(i) == d \in p[i].ch /\ p[i].t = t
           S == {i \in At(p, "MAC") : i < j /\ Mine(i)
                   /\ ~\E k \in At(p, "RD_MAC") : i < k /\ k < j /\ Mine(k)}
<1>6. \A k : k \in At(p, "RD_MAC") /\ k < j /\ Mine(k) <=> k \in 1 .. j - 1 /\ Clears(p, k, t, d)
  <2> TAKE k
  <2>1. ASSUME k \in At(p, "RD_MAC") PROVE k < j <=> k \in 1 .. j - 1
    BY <1>2, <1>4, <2>1
  <2> QED BY <2>1 DEF Clears
<1>7. S = Since(p, d, t, j - 1)
  <2>1. \A i \in At(p, "MAC") : Mine(i) <=> p[i].t = t /\ d \in p[i].ch
    OBVIOUS
  <2>2. \A i \in At(p, "MAC") : i < j <=> i <= j - 1
    BY <1>3, <1>5
  <2> QED BY <1>6, <2>1, <2>2, Zenon DEF Since
<1>8. \A i \in At(p, "MAC") : {k \in FillsBefore(p, i) : d \in p[k].ch} = FillsBefore(p, i)
  <2> TAKE i \in At(p, "MAC")
  <2>1. \A k \in FillsBefore(p, i) : k \in DOMAIN p /\ p[k].op = "WRVEC"
    BY DEF FillsBefore, At
  <2>2. \A k \in FillsBefore(p, i) : d \in p[k].ch
    BY <2>1 DEF Sound
  <2> QED BY <2>2
<1>9. Meant(p, j) = {<<i, Last({k \in FillsBefore(p, i) : d \in p[k].ch})>> : i \in S}
  BY <1>1 DEF Meant
<1>10. \A i \in Since(p, d, t, j - 1) : i \in At(p, "MAC")
  BY DEF Since
<1> HIDE DEF S
<1>11. Meant(p, j) = {<<i, Last({k \in FillsBefore(p, i) : d \in p[k].ch})>> : i \in Since(p, d, t, j - 1)}
  BY <1>7, <1>9
<1> QED BY <1>8, <1>10, <1>11 DEF Held

--------------------
(* One instruction, retired by a machine that is exact up to it.            *)

(* A load fills the buffer of every channel.                                *)
LEMMA Loads ==
  ASSUME NEW p, Sound(p), NEW n \in 1 .. Len(p), p[n].op = "WRVEC", NEW z, MachineOK(z),
         Exact(z, p, n - 1)
  PROVE  MachineOK(Retire(z, p, n)) /\ Exact(Retire(z, p, n), p, n)
<1>1. n \in DOMAIN p /\ p[n].ch = Chan /\ n \in Nat /\ (n - 1) + 1 = n
  BY DEF Sound
<1> DEFINE y == [z EXCEPT !.gb = [c \in Chan |-> IF c \in p[n].ch THEN n ELSE z.gb[c]]]
<1>2. Retire(z, p, n) = y
  BY DEF Retire
<1>3. z = [gb |-> z.gb, skid |-> z.skid, latch |-> z.latch, gpr |-> z.gpr]
  BY DEF MachineOK
<1>4. y = [gb |-> [c \in Chan |-> n], skid |-> z.skid, latch |-> z.latch, gpr |-> z.gpr]
  BY <1>1, <1>3
<1> HIDE DEF y
<1>5. y.gb = [c \in Chan |-> n] /\ y.skid = z.skid /\ y.latch = z.latch /\ y.gpr = z.gpr
  BY <1>4
<1>6. MachineOK(y)
  BY <1>4, <1>5 DEF MachineOK
<1>7. \A c \in Chan, t \in Latches : Held(p, c, t, n) = Held(p, c, t, n - 1)
  <2> TAKE c \in Chan, t \in Latches
  <2>1. ~Clears(p, n, t, c)
    BY DEF Clears, At
  <2> QED BY <2>1, SinceSame
<1>8. Fill(p, n + 1) = n
  BY <1>1, NewFill
<1>9. \A j \in At(p, "RD_MAC") : j <= n => j <= n - 1
  BY <1>1 DEF At
<1>10. Exact(y, p, n)
  BY <1>5, <1>7, <1>8, <1>9, Zenon DEF Exact
<1> QED BY <1>2, <1>6, <1>10

(* An accumulation multiplies what was loaded: the beats are the vector's.  *)
LEMMA Multiplies ==
  ASSUME NEW p, Sound(p), NEW n \in 1 .. Len(p), p[n].op = "MAC", NEW z, MachineOK(z),
         Exact(z, p, n - 1)
  PROVE  MachineOK(Retire(z, p, n)) /\ Exact(Retire(z, p, n), p, n)
<1> DEFINE u == p[n].t
<1>1. /\ n \in DOMAIN p /\ u \in Latches /\ n \in Nat
      /\ (n - 1) + 1 = n /\ n \in 1 .. Len(p) + 1 /\ n \in At(p, "MAC")
  BY DEF Sound, At
<1>2. FillsBefore(p, n) # {} /\ p[Last(FillsBefore(p, n))].sz = p[n].sz
  BY <1>1 DEF Sound, VectorMatches
<1>3. Fill(p, n) = Last(FillsBefore(p, n)) /\ Fill(p, n) \in FillsBefore(p, n)
  BY <1>1, <1>2, FillIs
<1>4. Fill(p, n) # 0 /\ p[Fill(p, n)].sz = p[n].sz
  <2>1. Fill(p, n) \in 1 .. Len(p)
    BY <1>1, <1>3 DEF FillsBefore, At, Sound
  <2> QED BY <1>2, <1>3, <2>1
<1>5. \A c \in Chan : z.gb[c] = Fill(p, n) /\ z.skid[c] = FALSE
  BY <1>1 DEF Exact
<1>6. \A c \in Chan : Aligned(z, p, n, c)
  BY <1>4, <1>5 DEF Aligned
<1>7. LatchOf(p[n]) = u
  BY <1>1 DEF LatchOf
<1> HIDE DEF u
<1> DEFINE sum == [x \in DOMAIN z.latch |->
               IF x[1] \in p[n].ch /\ x[2] = LatchOf(p[n])
               THEN z.latch[x] \cup {IF Aligned(z, p, n, x[1]) THEN <<n, z.gb[x[1]]>> ELSE Foreign}
               ELSE z.latch[x]]
           left == [c \in Chan |-> z.skid[c] \/ (c \in p[n].ch /\ ~Aligned(z, p, n, c))]
           y == [z EXCEPT !.latch = sum, !.skid = left]
<1>8. Retire(z, p, n) = y
  BY DEF Retire
<1>9. /\ z = [gb |-> z.gb, skid |-> z.skid, latch |-> z.latch, gpr |-> z.gpr]
      /\ DOMAIN z.latch = Chan \X Latches
  BY DEF MachineOK
<1>10. \A c \in Chan, t \in Latches : sum[<<c, t>>] =
         IF c \in p[n].ch /\ t = u THEN z.latch[<<c, t>>] \cup {<<n, Fill(p, n)>>} ELSE z.latch[<<c, t>>]
  <2> TAKE c \in Chan, t \in Latches
  <2>1. <<c, t>> \in DOMAIN z.latch
    BY <1>9
  <2> QED BY <1>5, <1>6, <1>7, <2>1
<1>11. \A c \in Chan : left[c] = FALSE
  BY <1>5, <1>6, Zenon
<1>12. sum = [x \in Chan \X Latches |-> sum[x]] /\ left = [c \in Chan |-> left[c]]
  BY <1>9
<1> HIDE DEF sum, left
<1>13. y = [gb |-> z.gb, skid |-> left, latch |-> sum, gpr |-> z.gpr]
  <2>1. z = [gb |-> z.gb, skid |-> z.skid, latch |-> z.latch, gpr |-> z.gpr]
    BY <1>9
  <2>2. y = [z EXCEPT !.latch = sum, !.skid = left]
    OBVIOUS
  <2> HIDE DEF y
  <2> QED BY <2>1, <2>2
<1> HIDE DEF y
<1>14. y.gb = z.gb /\ y.skid = left /\ y.latch = sum /\ y.gpr = z.gpr
  BY <1>13
<1>15. MachineOK(y)
  <2>1. z.gb = [c \in Chan |-> z.gb[c]] /\ z.gpr = [w \in Word |-> z.gpr[w]]
    BY DEF MachineOK
  <2> QED BY <1>12, <1>13, <1>14, <2>1, Zenon DEF MachineOK
<1>16. \A c \in Chan, t \in Latches : Held(p, c, t, n) =
         IF c \in p[n].ch /\ t = u THEN Held(p, c, t, n - 1) \cup {<<n, Fill(p, n)>>} ELSE Held(p, c, t, n - 1)
  <2> TAKE c \in Chan, t \in Latches
  <2>1. CASE c \in p[n].ch /\ t = u
    <3>1. Held(p, c, u, n) = Held(p, c, u, n - 1) \cup {<<n, Last(FillsBefore(p, n))>>}
      BY <2>1, SinceMac DEF u
    <3> QED BY <1>3, <2>1, <3>1
  <2>2. CASE ~(c \in p[n].ch /\ t = u)
    <3>1. ~Clears(p, n, t, c)
      BY DEF Clears, At
    <3>2. p[n].op # "MAC" \/ p[n].t # t \/ c \notin p[n].ch
      BY <2>2 DEF u
    <3>3. Held(p, c, t, n) = Held(p, c, t, n - 1)
      BY <3>1, <3>2, SinceSame
    <3> QED BY <2>2, <3>3
  <2> QED BY <2>1, <2>2
<1>17. Fill(p, n + 1) = Fill(p, n)
  BY <1>1, SameFill
<1>18. \A j \in At(p, "RD_MAC") : j <= n => j <= n - 1
  <2>1. \A j \in At(p, "RD_MAC") : j \in Nat /\ j # n
    BY DEF At, Sound
  <2> QED BY <1>1, <2>1
<1>19. \A c \in Chan, t \in Latches : z.latch[<<c, t>>] = Held(p, c, t, n - 1)
  BY DEF Exact
<1>20. \A c \in Chan, t \in Latches : y.latch[<<c, t>>] = Held(p, c, t, n)
  <2> TAKE c \in Chan, t \in Latches
  <2>1. z.latch[<<c, t>>] = Held(p, c, t, n - 1)
    BY <1>19
  <2>2. sum[<<c, t>>] =
         IF c \in p[n].ch /\ t = u THEN z.latch[<<c, t>>] \cup {<<n, Fill(p, n)>>} ELSE z.latch[<<c, t>>]
    BY <1>10
  <2>3. Held(p, c, t, n) =
         IF c \in p[n].ch /\ t = u THEN Held(p, c, t, n - 1) \cup {<<n, Fill(p, n)>>} ELSE Held(p, c, t, n - 1)
    BY <1>16
  <2> QED BY <1>14, <2>1, <2>2, <2>3, Zenon
<1>21. \A j \in At(p, "RD_MAC") : j <= n => y.gpr[p[j].row] = Meant(p, j)
  BY <1>14, <1>18, Zenon DEF Exact
<1>22. Exact(y, p, n)
  BY <1>5, <1>11, <1>14, <1>17, <1>20, <1>21, Zenon DEF Exact
<1> QED BY <1>8, <1>15, <1>22

(* A drain takes one latch of one channel into a word of its own.           *)
LEMMA Collects ==
  ASSUME NEW p, Sound(p), NEW n \in 1 .. Len(p), p[n].op = "RD_MAC", NEW z, MachineOK(z),
         Exact(z, p, n - 1)
  PROVE  MachineOK(Retire(z, p, n)) /\ Exact(Retire(z, p, n), p, n)
<1> DEFINE u == p[n].t
<1>1. /\ n \in DOMAIN p /\ u \in Latches /\ n \in Nat /\ p[n].row \in Word
      /\ (n - 1) + 1 = n /\ n \in At(p, "RD_MAC")
  BY DEF Sound, At
<1>2. PICK d \in Chan : p[n].ch = {d}
  BY <1>1 DEF Sound
<1>3. LatchOf(p[n]) = u /\ (CHOOSE c \in p[n].ch : TRUE) = d
  BY <1>1, <1>2 DEF LatchOf
<1> HIDE DEF u
<1> DEFINE x == <<CHOOSE c \in p[n].ch : TRUE, LatchOf(p[n])>>
           word == [z.gpr EXCEPT ![p[n].row] = z.latch[x]]
           empty == [y \in DOMAIN z.latch |-> IF y[1] \in p[n].ch /\ y[2] = x[2] THEN {} ELSE z.latch[y]]
           o == [z EXCEPT !.gpr[p[n].row] = z.latch[x],
                       !.latch = [y \in DOMAIN z.latch |->
                          IF y[1] \in p[n].ch /\ y[2] = x[2] THEN {} ELSE z.latch[y]]]
<1>4. Retire(z, p, n) = o
  BY DEF Retire
<1>5. /\ z = [gb |-> z.gb, skid |-> z.skid, latch |-> z.latch, gpr |-> z.gpr]
      /\ DOMAIN z.latch = Chan \X Latches /\ z.gpr = [w \in Word |-> z.gpr[w]]
  BY DEF MachineOK
<1>6. x = <<d, u>>
  BY <1>3
<1>7. \A c \in Chan, t \in Latches : empty[<<c, t>>] = IF c = d /\ t = u THEN {} ELSE z.latch[<<c, t>>]
  <2> TAKE c \in Chan, t \in Latches
  <2>1. <<c, t>> \in DOMAIN z.latch
    BY <1>5
  <2> HIDE DEF x
  <2>2. x[2] = u
    BY <1>6
  <2> QED BY <1>2, <2>1, <2>2
<1>8. empty = [y \in Chan \X Latches |-> empty[y]]
  BY <1>5
<1>9. word = [w \in Word |-> word[w]] /\ word[p[n].row] = z.latch[<<d, u>>]
      /\ \A w \in Word : w # p[n].row => word[w] = z.gpr[w]
  <2> HIDE DEF x
  <2> QED BY <1>1, <1>5, <1>6
<1>10. o = [gb |-> z.gb, skid |-> z.skid, latch |-> empty, gpr |-> word]
  <2>1. o = [z EXCEPT !.gpr = word, !.latch = empty]
    <3> HIDE DEF x
    <3> QED BY <1>5
  <2> HIDE DEF o, empty, word
  <2> QED BY <1>5, <2>1
<1> HIDE DEF x, word, empty, o
<1>11. o.gb = z.gb /\ o.skid = z.skid /\ o.latch = empty /\ o.gpr = word
  BY <1>10
<1>12. MachineOK(o)
  <2>1. z.gb = [c \in Chan |-> z.gb[c]] /\ z.skid = [c \in Chan |-> z.skid[c]]
    BY DEF MachineOK
  <2> QED BY <1>8, <1>9, <1>10, <1>11, <2>1, Zenon DEF MachineOK
<1>13. Fill(p, n + 1) = Fill(p, n)
  BY <1>1, SameFill
<1>14. /\ \A c \in Chan : z.gb[c] = Fill(p, n) /\ z.skid[c] = FALSE
       /\ \A c \in Chan, t \in Latches : z.latch[<<c, t>>] = Held(p, c, t, n - 1)
       /\ \A j \in At(p, "RD_MAC") : j <= n - 1 => z.gpr[p[j].row] = Meant(p, j)
  BY <1>1 DEF Exact
<1>15. ASSUME NEW c \in Chan, NEW t \in Latches
       PROVE  o.latch[<<c, t>>] = Held(p, c, t, n)
  <2>1. CASE c = d /\ t = u
    <3>1. Clears(p, n, t, c)
      BY <1>1, <1>2, <2>1 DEF Clears, u
    <3>2. Held(p, c, t, n) = {}
      BY <3>1, SinceDrain
    <3> QED BY <1>7, <1>11, <2>1, <3>2
  <2>2. CASE ~(c = d /\ t = u)
    <3>1. ~Clears(p, n, t, c)
      BY <1>2, <2>2 DEF Clears, u
    <3>2. Held(p, c, t, n) = Held(p, c, t, n - 1)
      BY <3>1, SinceSame
    <3>3. z.latch[<<c, t>>] = Held(p, c, t, n - 1)
      BY <1>14
    <3> QED BY <1>7, <1>11, <2>2, <3>2, <3>3
  <2> QED BY <2>1, <2>2
<1>16. ASSUME NEW j \in At(p, "RD_MAC"), j <= n
       PROVE  o.gpr[p[j].row] = Meant(p, j)
  <2>1. CASE j = n
    <3>1. Meant(p, n) = Held(p, d, p[n].t, n - 1)
      BY <1>1, <1>2, MeantIs
    <3>2. z.latch[<<d, u>>] = Held(p, d, u, n - 1)
      BY <1>1, <1>14
    <3> QED BY <1>9, <1>11, <2>1, <3>1, <3>2 DEF u
  <2>2. CASE j # n
    <3>1. p[j].row # p[n].row
      BY <1>1, <1>16, <2>2 DEF Sound
    <3>2. j <= n - 1 /\ p[j].row \in Word
      <4>1. j \in DOMAIN p /\ j \in Nat /\ p[j].op = "RD_MAC"
        BY <1>1 DEF At, Sound
      <4> QED BY <1>1, <1>16, <2>2, <4>1 DEF Sound
    <3>3. z.gpr[p[j].row] = Meant(p, j)
      BY <1>14, <1>16, <3>2, Zenon
    <3> QED BY <1>9, <1>11, <3>1, <3>2, <3>3
  <2> QED BY <2>1, <2>2
<1>17. Exact(o, p, n)
  BY <1>11, <1>13, <1>14, <1>15, <1>16, Zenon DEF Exact
<1> QED BY <1>4, <1>12, <1>17

(* EOS does nothing.                                                        *)
LEMMA Ends ==
  ASSUME NEW p, Sound(p), NEW n \in 1 .. Len(p), p[n].op = "EOS", NEW z, MachineOK(z),
         Exact(z, p, n - 1)
  PROVE  MachineOK(Retire(z, p, n)) /\ Exact(Retire(z, p, n), p, n)
<1>1. n \in DOMAIN p /\ n \in Nat /\ (n - 1) + 1 = n
  BY DEF Sound
<1>2. Retire(z, p, n) = z
  BY DEF Retire
<1>3. \A c \in Chan, t \in Latches : Held(p, c, t, n) = Held(p, c, t, n - 1)
  <2> TAKE c \in Chan, t \in Latches
  <2>1. ~Clears(p, n, t, c)
    BY DEF Clears, At
  <2> QED BY <2>1, SinceSame
<1>4. Fill(p, n + 1) = Fill(p, n)
  BY <1>1, SameFill
<1>5. \A j \in At(p, "RD_MAC") : j <= n => j <= n - 1
  BY <1>1 DEF At
<1>6. Fill(p, (n - 1) + 1) = Fill(p, n)
  BY <1>1
<1>7. Exact(z, p, n)
  BY <1>3, <1>4, <1>5, <1>6, Zenon DEF Exact
<1> QED BY <1>2, <1>7

LEMMA Steps ==
  ASSUME NEW p, Sound(p), NEW n \in 1 .. Len(p), NEW z, MachineOK(z),
         Exact(z, p, n - 1)
  PROVE  MachineOK(Retire(z, p, n)) /\ Exact(Retire(z, p, n), p, n)
<1>1. n \in DOMAIN p
  BY DEF Sound
<1>2. p[n].op \in Ops
  BY <1>1 DEF Sound
<1> QED BY <1>2, Loads, Multiplies, Collects, Ends DEF Ops

(* A clean machine begins exact.                                            *)
LEMMA Begins ==
  ASSUME NEW p, Sound(p)
  PROVE  MachineOK(Clean) /\ Exact(Clean, p, 0)
<1> DEFINE L == [x \in Chan \X Latches |-> {}]
<1>1. /\ Clean.gb = [c \in Chan |-> 0] /\ Clean.skid = [c \in Chan |-> FALSE]
      /\ Clean.latch = [x \in Chan \X Latches |-> {}] /\ Clean.gpr = [w \in Word |-> {Foreign}]
      /\ Clean = [gb |-> Clean.gb, skid |-> Clean.skid, latch |-> Clean.latch, gpr |-> Clean.gpr]
  BY DEF Clean, Machine
<1>2. MachineOK(Clean)
  BY <1>1 DEF MachineOK
<1>3. Len(p) \in Nat /\ DOMAIN p = 1 .. Len(p) /\ 1 \in 1 .. Len(p) + 1 /\ 0 + 1 = 1
  BY DEF Sound
<1>4. Fill(p, 1) = 0
  <2>1. Fill(p, 1) \in 0 .. 1 - 1
    BY <1>3, FillIs
  <2> QED BY <2>1
<1>5. \A op : \A j \in At(p, op) : ~(j <= 0)
  BY <1>3 DEF At
<1>6. \A c \in Chan, t \in Latches : Held(p, c, t, 0) = {}
  BY <1>5 DEF Held, Since
<1>7. \A c \in Chan, t \in Latches : Clean.latch[<<c, t>>] = {}
  BY <1>1
<1>8. \A c \in Chan : Clean.gb[c] = 0 /\ Clean.skid[c] = FALSE
  BY <1>1
<1>9. Exact(Clean, p, 0)
  BY <1>3, <1>4, <1>5, <1>6, <1>7, <1>8, Zenon DEF Exact
<1> QED BY <1>2, <1>9

(* ... and stays exact all the way.                                         *)
LEMMA StaysExact ==
  ASSUME NEW p, Sound(p), NEW n \in 0 .. Len(p)
  PROVE  MachineOK(AfterFrom(Clean, p, n)) /\ Exact(AfterFrom(Clean, p, n), p, n)
<1> DEFINE N == Len(p)
           G == {k \in 0 .. N : MachineOK(AfterFrom(Clean, p, k)) /\ Exact(AfterFrom(Clean, p, k), p, k)}
<1>1. N \in Nat
  BY DEF Sound
<1>2. /\ AfterFrom(Clean, p, 0) = Clean
      /\ \A k \in 1 .. N : AfterFrom(Clean, p, k) = Retire(AfterFrom(Clean, p, k - 1), p, k)
  BY <1>1, AfterIs
<1>3. 0 \in G
  <2>1. MachineOK(Clean) /\ Exact(Clean, p, 0)
    BY Begins
  <2>2. 0 \in 0 .. N
    BY <1>1
  <2> HIDE DEF N
  <2> QED BY <1>2, <2>1, <2>2
<1>4. ASSUME NEW k \in 0 .. N - 1, k \in G PROVE k + 1 \in G
  <2> DEFINE j == k + 1
             z == AfterFrom(Clean, p, k)
  <2>1. j \in 1 .. N /\ j \in 0 .. N /\ j - 1 = k
    BY <1>1
  <2>2. MachineOK(z) /\ Exact(z, p, k)
    BY <1>4
  <2>3. AfterFrom(Clean, p, j) = Retire(z, p, j)
    BY <1>2, <2>1
  <2> HIDE DEF z, j
  <2>4. Exact(z, p, j - 1)
    BY <2>1, <2>2
  <2>5. MachineOK(Retire(z, p, j)) /\ Exact(Retire(z, p, j), p, j)
    BY <2>1, <2>2, <2>4, Steps DEF N
  <2>6. j \in G
    <3> HIDE DEF N
    <3> QED BY <2>1, <2>3, <2>5
  <2> QED BY <2>6 DEF j
<1> HIDE DEF G
<1>5. \A k \in 0 .. N : k \in G
  <2> HIDE DEF N
  <2> QED BY <1>1, <1>3, <1>4, Counting
<1> QED BY <1>5 DEF G

(* What pim_prog_verify does not look at, and the hand that wrote a program *)
(* answers for: that a vector goes to every channel, that each channel of a *)
(* MAC is drained, not only the latch, and that a word is not used again    *)
(* behind the verifier's back.                                              *)
Careful(p) ==
  /\ \A i \in At(p, "WRVEC") : p[i].ch = Chan
  /\ \A i \in At(p, "MAC") : \A c \in p[i].ch : \E k \in At(p, "RD_MAC") : k > i /\ Clears(p, k, p[i].t, c)
  /\ \A i, j \in At(p, "RD_MAC") : p[i].row = p[j].row => i = j

(* When done rises every drain has its answer, and when the last ISR has    *)
(* retired the latches hold nothing.                                        *)
LEMMA SoundAnswers ==
  ASSUME NEW p, Sound(p), Careful(p), Len(p) # 0, EndsQuietly(p)
  PROVE  /\ Answered(AtDone(p), p)
         /\ LET rest == AtRest(p) IN \A x \in DOMAIN rest.latch : rest.latch[x] = {}
<1> DEFINE N == Len(p)
           done == AfterFrom(Clean, p, N - 1)
           rest == AfterFrom(Clean, p, N)
<1>1. N \in Nat \ {0} /\ DOMAIN p = 1 .. N /\ N - 1 \in 0 .. N /\ N \in 0 .. N
  BY DEF Sound
<1> HIDE DEF N
<1>2. Exact(done, p, N - 1)
  BY <1>1, StaysExact DEF N
<1>3. MachineOK(rest) /\ Exact(rest, p, N)
  BY <1>1, StaysExact DEF N
<1> HIDE DEF done, rest
<1>4. \A k \in At(p, "RD_MAC") : k \in 1 .. N /\ k <= N - 1
  <2> TAKE k \in At(p, "RD_MAC")
  <2>1. k \in 1 .. N /\ p[k].op = "RD_MAC"
    BY <1>1 DEF At
  <2>2. k # N
    BY <2>1 DEF EndsQuietly, N
  <2> QED BY <1>1, <2>1, <2>2
<1>5. Answered(done, p)
  BY <1>2, <1>4 DEF Exact, Answered
<1>6. ASSUME NEW c \in Chan, NEW t \in Latches PROVE rest.latch[<<c, t>>] = {}
  <2>1. \A i \in At(p, "MAC") : p[i].t = t /\ c \in p[i].ch =>
          \E k \in 1 .. N : i < k /\ Clears(p, k, t, c)
    <3> SUFFICES ASSUME NEW i \in At(p, "MAC"), p[i].t = t, c \in p[i].ch
                 PROVE  \E k \in 1 .. N : i < k /\ Clears(p, k, t, c)
      OBVIOUS
    <3>1. PICK k \in At(p, "RD_MAC") : k > i /\ Clears(p, k, t, c)
      BY DEF Careful
    <3>2. i \in Nat
      BY <1>1 DEF At
    <3> QED BY <1>4, <3>1, <3>2
  <2>2. Since(p, c, t, N) = {}
    BY <2>1, Zenon DEF Since
  <2>3. Held(p, c, t, N) = {}
    BY <2>2 DEF Held
  <2> QED BY <1>3, <2>3 DEF Exact
<1>7. \A x \in DOMAIN rest.latch : rest.latch[x] = {}
  <2> TAKE x \in DOMAIN rest.latch
  <2>1. DOMAIN rest.latch = Chan \X Latches
    BY <1>3 DEF MachineOK
  <2>2. PICK c \in Chan, t \in Latches : x = <<c, t>>
    BY <2>1
  <2>3. rest.latch[<<c, t>>] = {}
    BY <1>6
  <2> QED BY <2>2, <2>3
<1> QED BY <1>5, <1>7 DEF AtDone, AtRest, done, rest, N

--------------------
(* The programs that are run.                                               *)

LEMMA VerifiedEnds ==
  ASSUME NEW p, NEW allowT, Verify(p, allowT)
  PROVE  p # <<>> /\ Len(p) # 0 /\ VectorMatches(p) /\ EndsQuietly(p)
<1>1. Len(p) \in 1 .. ImemWords
  BY DEF Verify
<1>2. Len(p) # 0
  BY <1>1
<1>3. p # <<>>
  BY <1>2
<1> QED BY <1>2, <1>3 DEF Verify

(* The image decodes the latches the programs are built for.                *)
Decodes(nl) == nl = 1 \/ Latches = {0, 1}

(* What the builders make is sound.                                         *)
LEMMA SealedSound ==
  ASSUME NEW nl \in {1, 2}, Decodes(nl), NEW p, Sealed(p, nl), Words(p, VWords, VWords + YWords), VectorMatches(p)
  PROVE  Sound(p) /\ Careful(p)
<1>1. /\ p \in Seq(Shape(nl)) /\ Paid(p)
      /\ \A i, j \in At(p, "RD_MAC") : p[i].row = p[j].row => i = j
  BY DEF Sealed
<1>2. DOMAIN p = 1 .. Len(p) /\ Len(p) \in Nat
  BY <1>1
<1>3. \A j \in At(p, "RD_MAC") : p[j].row \in Word
  <2> TAKE j \in At(p, "RD_MAC")
  <2>1. p[j].row \in VWords .. (VWords + YWords) - 1
    BY DEF Words
  <2> QED BY <2>1, MatvecAssumption
<1>4. ASSUME NEW i \in DOMAIN p
      PROVE  /\ p[i].op \in Ops /\ p[i].t \in Latches
             /\ p[i].op # "RD_MAC" => p[i].ch = Chan
             /\ p[i].op = "RD_MAC" => p[i].row \in Word /\ \E c \in Chan : p[i].ch = {c}
  <2> DEFINE e == p[i]
  <2>1. e \in Shape(nl)
    BY <1>1
  <2>2. e \in Finals /\ e.t \in 0 .. nl - 1
        /\ IF e.op = "RD_MAC" THEN \E c \in Chan : e.ch = {c} ELSE e.ch = Chan
    BY <2>1 DEF Shape
  <2>3. e.op \in Ops
    <3>1. PICK b \in Blanks : e.op = b.op
      BY <2>2 DEF Finals, Final
    <3> QED BY <3>1 DEF Blanks
  <2>4. e.t \in Latches
    BY <2>2, IsrAssumption DEF Decodes
  <2>5. e.op = "RD_MAC" => e.row \in Word
    <3> SUFFICES ASSUME e.op = "RD_MAC" PROVE e.row \in Word
      OBVIOUS
    <3>1. i \in At(p, "RD_MAC")
      BY DEF At
    <3> QED BY <1>3, <3>1
  <2> QED BY <2>2, <2>3, <2>4, <2>5
<1>5. Sound(p)
  BY <1>1, <1>2, <1>4 DEF Sound
<1>6. \A i \in At(p, "WRVEC") : p[i].ch = Chan
  BY <1>4 DEF At
<1>7. ASSUME NEW i \in At(p, "MAC"), NEW c \in p[i].ch
      PROVE  \E k \in At(p, "RD_MAC") : k > i /\ Clears(p, k, p[i].t, c)
  <2>1. p[i].ch = Chan
    BY <1>4 DEF At
  <2>2. PICK j \in DOMAIN p : j > i /\ Drains(p, j, p[i].t, c)
    BY <1>1, <2>1 DEF Paid
  <2> QED BY <2>2 DEF Drains, Clears, At
<1> QED BY <1>1, <1>5, <1>6, <1>7 DEF Careful

(* So is a program by hand, when the hand was careful.                      *)
LEMMA HandSound ==
  ASSUME NEW p \in Seq(Alphabet), Verify(p, TRUE), Careful(p), Latches = {0, 1}
  PROVE  Sound(p)
<1>1. DOMAIN p = 1 .. Len(p) /\ Len(p) \in Nat
  OBVIOUS
<1>2. VectorMatches(p)
  BY VerifiedEnds
<1>3. ASSUME NEW i \in DOMAIN p
      PROVE  /\ p[i].op \in Ops /\ p[i].t \in Latches
             /\ p[i].op = "RD_MAC" => p[i].row \in Word /\ \E c \in Chan : p[i].ch = {c}
  <2>1. p[i] \in Alphabet
    OBVIOUS
  <2>2. p[i] \in Isr /\ Legal(p[i])
    BY <2>1, ProgramsAssumption
  <2>3. p[i].ch \in SUBSET Chan /\ p[i].row \in Word /\ p[i].op \in Ops /\ p[i].t \in Latches
    BY <2>2 DEF Isr
  <2>4. p[i].op = "RD_MAC" => \E c \in Chan : p[i].ch = {c}
    <3> SUFFICES ASSUME p[i].op = "RD_MAC" PROVE \E c \in Chan : p[i].ch = {c}
      OBVIOUS
    <3>1. Cardinality(p[i].ch) = 1
      BY <2>2 DEF Legal
    <3>2. IsFiniteSet(Chan)
      <4>1. 0 \in Int /\ Nch - 1 \in Int
        BY BeatSizes
      <4>2. IsFiniteSet(0 .. Nch - 1)
        BY <4>1, FS_Interval
      <4> QED BY <4>2, MatvecAssumption
    <3>3. IsFiniteSet(p[i].ch)
      BY <2>3, <3>2, FS_Subset
    <3>4. \E c : p[i].ch = {c}
      BY <3>1, <3>3, FS_Singleton
    <3> QED BY <2>3, <3>4
  <2> QED BY <2>3, <2>4
<1>4. \A i \in DOMAIN p : p[i].op = "WRVEC" => p[i].ch = Chan
  BY DEF Careful, At
<1>5. \A i, j \in At(p, "RD_MAC") : p[i].row = p[j].row => i = j
  BY DEF Careful
<1> QED BY <1>1, <1>2, <1>3, <1>4, <1>5 DEF Sound

(* Only a program there is has been judged.                                 *)
JudgeInv ==
  /\ author \in {"hand", "parts", "gemv"}
  /\ verdict = "accepted" => prog # <<>>
  /\ author = "hand" => /\ nlatch = 2 /\ prog \in Seq(Alphabet)
                        /\ verdict = "accepted" => Verify(prog, TRUE)

LEMMA JudgeInvHolds == Spec => []JudgeInv
<1>1. Init => JudgeInv
  <2> SUFFICES ASSUME Init PROVE JudgeInv
    OBVIOUS
  <2>1. <<>> \in Seq(Alphabet)
    BY EmptySeq
  <2> QED BY <2>1 DEF Init, JudgeInv
<1>2. JudgeInv /\ LaunchInv /\ [Next]_vars => JudgeInv'
  <2> SUFFICES ASSUME JudgeInv, LaunchInv, [Next]_vars PROVE JudgeInv'
    OBVIOUS
  <2>1. CASE UNCHANGED vars
    BY <2>1 DEF vars, JudgeInv
  <2>2. ASSUME NEW i \in Alphabet, Push(i) PROVE JudgeInv'
    <3>1. author = "hand" /\ verdict = "none" /\ prog' = Append(prog, i)
          /\ author' = author /\ nlatch' = nlatch /\ verdict' = verdict
      BY <2>2 DEF Push
    <3>2. prog' \in Seq(Alphabet)
      BY <3>1 DEF JudgeInv
    <3> QED BY <3>1, <3>2 DEF JudgeInv
  <2>3. CASE Judge
    <3>1. /\ verdict' = (IF Verify(prog, nlatch = 2) THEN "accepted" ELSE "refused")
          /\ prog' = prog /\ author' = author /\ nlatch' = nlatch
      BY <2>3 DEF Judge, Verdict
    <3>2. verdict' = "accepted" => Verify(prog, nlatch = 2)
      BY <3>1
    <3>3. verdict' = "accepted" => prog # <<>>
      BY <3>2, VerifiedEnds
    <3>4. nlatch = 2 => ((nlatch = 2) = TRUE)
      OBVIOUS
    <3>5. nlatch = 2 /\ verdict' = "accepted" => Verify(prog, TRUE)
      BY <3>2, <3>4
    <3> QED BY <3>1, <3>3, <3>5 DEF JudgeInv
  <2>4. ASSUME NEW first \in 0 .. Matrix.ngroups - 1, NEW count \in 1 .. Matrix.ngroups,
               NEW off \in Offsets, NEW len \in Lengths, Part(first, count, off, len)
        PROVE  JudgeInv'
    BY <2>4 DEF Part, JudgeInv
  <2>5. CASE Eos
    <3>1. author = "parts" /\ prog = <<>> /\ verdict' = verdict /\ author' = author
      BY <2>5 DEF Eos
    <3>2. author' # "hand" /\ author' \in {"hand", "parts", "gemv"}
      BY <3>1
    <3>3. verdict' # "accepted"
      BY <3>1 DEF JudgeInv
    <3> QED BY <3>2, <3>3 DEF JudgeInv
  <2>6. ASSUME NEW m \in Weights, NEW upload \in {"permuted", "eager", "rows"}, NEW cap \in Limits,
               Call(m, upload, cap)
        PROVE  JudgeInv'
    BY <2>6 DEF Call, JudgeInv
  <2>7. CASE Launch
    <3> DEFINE p == prog'
    <3>1. verdict' = (IF Verify(p, nlatch = 2) THEN "accepted" ELSE "refused") /\ author' = author
      BY <2>7 DEF Launch, Verdict
    <3>2. verdict' = "accepted" => Verify(p, nlatch = 2)
      BY <3>1
    <3> HIDE DEF p
    <3>3. verdict' = "accepted" => p # <<>>
      BY <3>2, VerifiedEnds
    <3>4. author = "gemv"
      BY <2>7 DEF Launch, LaunchInv
    <3> QED BY <3>1, <3>3, <3>4 DEF JudgeInv, p
  <2> QED BY <2>1, <2>2, <2>3, <2>4, <2>5, <2>6, <2>7 DEF Next
<1> QED BY <1>1, <1>2, LaunchInvHolds, PTL DEF Spec

(* The answers of every program whose hand, if one wrote it, was careful.   *)
CarefulAnswers == Decodes(nlatch) /\ (author = "hand" => Careful(prog)) => AnswersAtDone

LEMMA CarefulAnswersHold == Spec => []CarefulAnswers
<1>1. StackInv /\ LaunchInv /\ JudgeInv => CarefulAnswers
  <2> SUFFICES ASSUME StackInv, LaunchInv, JudgeInv, verdict = "accepted", Decodes(nlatch),
                      author = "hand" => Careful(prog)
               PROVE  /\ Answered(AtDone(prog), prog)
                      /\ LET rest == AtRest(prog) IN \A x \in DOMAIN rest.latch : rest.latch[x] = {}
    BY DEF CarefulAnswers, AnswersAtDone
  <2> DEFINE p == prog
  <2>1. p # <<>> /\ author \in {"hand", "parts", "gemv"} /\ nlatch \in {1, 2}
    BY DEF JudgeInv, StackInv
  <2>2. Sound(p) /\ Careful(p) /\ Len(p) # 0 /\ EndsQuietly(p)
    <3>1. CASE author = "hand"
      <4>1. p \in Seq(Alphabet) /\ Verify(p, TRUE)
        BY <3>1 DEF JudgeInv
      <4>2. Careful(p)
        BY <3>1
      <4>5. Latches = {0, 1}
        BY <3>1 DEF JudgeInv, Decodes
      <4> HIDE DEF p
      <4>3. Sound(p)
        BY <4>1, <4>2, <4>5, HandSound
      <4> QED BY <4>1, <4>2, <4>3, VerifiedEnds
    <3>2. CASE author = "parts"
      <4>1. Sealed(p, nlatch) /\ Words(p, VWords, VWords + YWords) /\ Len(p) <= ImemWords
        BY <2>1, <3>2 DEF StackInv, Stacked
      <4> HIDE DEF p
      <4>2. Verify(p, nlatch = 2)
        BY <2>1, <4>1, WholeAccepted
      <4>3. VectorMatches(p) /\ Len(p) # 0 /\ EndsQuietly(p)
        BY <4>2, VerifiedEnds
      <4>4. Sound(p) /\ Careful(p)
        BY <2>1, <4>1, <4>3, SealedSound
      <4> QED BY <4>3, <4>4
    <3>3. CASE author = "gemv"
      <4> DEFINE m == call.m
                 gpl == Groups(call)
                 first == call.g0 - gpl
      <4>1. /\ m \in Weights /\ call.cap \in Limits /\ first \in Nat /\ gpl * Nch <= YWords
            /\ verdict = Verdict(p)
            /\ \E count \in 1 .. gpl : p = GemvProgram(m, first, count, 0, VWords, nlatch)
        BY <2>1, <3>3 DEF LaunchInv, Ran
      <4>2. Planned(m) /\ gpl \in Nat
        <5>1. Planned(m) /\ call.cap \in Nat /\ call.cap <= ImemWords
          BY <4>1, WeightsPlanned
        <5>2. gpl \in Nat
          BY <2>1, <5>1, LaunchSize DEF Groups
        <5> QED BY <5>1, <5>2
      <4>3. Verify(p, nlatch = 2)
        BY <4>1 DEF Verdict
      <4> HIDE DEF m, gpl, first
      <4>4. PICK count \in 1 .. gpl : p = GemvProgram(m, first, count, 0, VWords, nlatch)
        BY <4>1
      <4>5. GemvWanted(m, first, count)
        BY <4>1, <4>2 DEF GemvWanted
      <4>6. Sealed(p, nlatch) /\ Words(p, VWords, VWords + count * Nch)
        BY <2>1, <4>4, <4>5, GemvGood
      <4>7. VWords \in Nat /\ YWords \in Nat /\ Nch \in Nat \ {0} /\ count \in Nat
        BY <4>2, MatvecAssumption, BeatSizes
      <4>8. count * Nch \in Nat /\ count * Nch <= YWords
        <5>1. count * Nch \in Nat /\ gpl * Nch \in Nat
          BY <4>2, <4>7, ProductNat
        <5>2. count * Nch <= gpl * Nch
          BY <4>2, <4>4, <4>7, Monotone
        <5> QED BY <4>1, <4>7, <5>1, <5>2
      <4> DEFINE mid == VWords + count * Nch
                 top == VWords + YWords
      <4>9. mid \in Nat /\ top \in Nat /\ mid <= top
        <5> DEFINE k == count * Nch
        <5>1. k \in Nat /\ k <= YWords
          BY <4>8
        <5> HIDE DEF k
        <5> QED BY <4>7, <5>1 DEF k
      <4>10. Words(p, VWords, mid)
        BY <4>6
      <4> HIDE DEF p, mid, top
      <4>11. Words(p, VWords, top)
        BY <4>7, <4>9, <4>10, WordsWider
      <4>12. VectorMatches(p) /\ Len(p) # 0 /\ EndsQuietly(p)
        BY <4>3, VerifiedEnds
      <4>13. Words(p, VWords, VWords + YWords)
        BY <4>11 DEF top
      <4>14. Sound(p) /\ Careful(p)
        BY <2>1, <4>6, <4>12, <4>13, SealedSound
      <4> QED BY <4>12, <4>14
    <3> QED BY <2>1, <3>1, <3>2, <3>3
  <2> HIDE DEF p
  <2>3. /\ Answered(AtDone(p), p)
        /\ LET rest == AtRest(p) IN \A x \in DOMAIN rest.latch : rest.latch[x] = {}
    BY <2>2, SoundAnswers
  <2> QED BY <2>3 DEF p
<1> QED BY <1>1, StackInvHolds, LaunchInvHolds, JudgeInvHolds, PTL

(* When done rises on an accepted program, every result word holds exactly  *)
(* the sum its drain was meant to return, and when it is through no latch   *)
(* holds anything: for every piece stacked by parts and every launch of     *)
(* pim_gemv_ex whatever the sizes and limits, and for the programs by hand  *)
(* as far as the hand that wrote them was careful where pim_prog_verify     *)
(* does not look.  A program of two latches needs an image that decodes     *)
(* both.                                                                    *)
HandCareful == \A p \in Seq(Alphabet) : Verify(p, TRUE) => Careful(p)

THEOREM AnswersStayRight == HandCareful => (Spec => [](Decodes(nlatch) => AnswersAtDone))
<1> SUFFICES ASSUME HandCareful PROVE Spec => [](Decodes(nlatch) => AnswersAtDone)
  OBVIOUS
<1>1. JudgeInv /\ CarefulAnswers => (Decodes(nlatch) => AnswersAtDone)
  <2> SUFFICES ASSUME JudgeInv, CarefulAnswers, Decodes(nlatch) PROVE AnswersAtDone
    OBVIOUS
  <2>1. CASE verdict = "accepted" /\ author = "hand"
    BY <2>1 DEF JudgeInv, CarefulAnswers, HandCareful
  <2>2. CASE author # "hand"
    BY <2>2 DEF CarefulAnswers
  <2>3. CASE verdict # "accepted"
    BY <2>3 DEF AnswersAtDone
  <2> QED BY <2>1, <2>2, <2>3
<1>2. Spec => []CarefulAnswers
  BY CarefulAnswersHold
<1> QED BY <1>1, <1>2, JudgeInvHolds, PTL

--------------------
(* Where a program may be cut.                                              *)

(* A run that is not to be cut: what it accumulates it drains, and one of   *)
(* its sums is not out before its last ISR.                                 *)
Tied(y) ==
  /\ Paid(y) /\ \A i \in At(y, "MAC") : y[i].ch = Chan
  /\ \A i \in At(y, "MAC"), j \in At(y, "RD_MAC") : i < j
  /\ \E t \in {0, 1}, c \in Chan :
       /\ \E i \in At(y, "MAC") : y[i].t = t
       /\ \A k \in At(y, "RD_MAC") : y[k].t = t /\ c \in y[k].ch => k = Len(y)

(* What is in one of the rows is in the whole.                              *)
LEMMA FlatHas ==
  ASSUME NEW S, NEW r \in Seq(Seq(S)), NEW i \in 1 .. Len(r), NEW j \in DOMAIN r[i]
  PROVE  \E k \in DOMAIN Flat(r) : Flat(r)[k] = r[i][j]
<1> DEFINE G == {x \in Nat \X Seq(S) :
                   \A g \in 1 .. x[1] : \A h \in DOMAIN r[g] : \E k \in DOMAIN x[2] : x[2][k] = r[g][h]}
<1>1. <<0, <<>>>> \in G
  <2>1. <<0, <<>>>> \in Nat \X Seq(S)
    BY EmptySeq
  <2> QED BY <2>1
<1>2. ASSUME NEW n \in 0 .. Len(r) - 1, NEW a \in Seq(S), <<n, a>> \in G
      PROVE  <<n + 1, a \o r[n + 1]>> \in G
  <2> DEFINE b == r[n + 1]
             c == a \o b
  <2>1. n + 1 \in 1 .. Len(r) /\ n + 1 \in Nat /\ b \in Seq(S) /\ n \in Nat
    OBVIOUS
  <2>2. \A g \in 1 .. n : \A h \in DOMAIN r[g] : \E k \in DOMAIN a : a[k] = r[g][h]
    BY <1>2
  <2> HIDE DEF b, G, c
  <2>3. /\ c \in Seq(S)
        /\ \A k \in DOMAIN a : k \in DOMAIN c /\ c[k] = a[k]
        /\ \A h \in DOMAIN b : Len(a) + h \in DOMAIN c /\ c[Len(a) + h] = b[h]
    <3>1. b \in Seq(S) /\ a \in Seq(S)
      BY <2>1
    <3>2. a \o b \in Seq(S) /\ \A k \in DOMAIN a : k \in DOMAIN (a \o b) /\ (a \o b)[k] = a[k]
      BY <3>1, ConcatAt
    <3>3. \A h \in DOMAIN b : Len(a) + h \in DOMAIN (a \o b) /\ (a \o b)[Len(a) + h] = b[h]
      BY <3>1, ConcatRight
    <3> QED BY <3>2, <3>3 DEF c
  <2>4. ASSUME NEW g \in 1 .. n + 1, NEW h \in DOMAIN r[g] PROVE \E k \in DOMAIN c : c[k] = r[g][h]
    <3>1. CASE g = n + 1
      <4>1. h \in DOMAIN b /\ r[g][h] = b[h]
        BY <3>1 DEF b
      <4> QED BY <2>3, <4>1
    <3>2. CASE g # n + 1
      <4>1. g \in 1 .. n
        BY <2>1, <3>2
      <4>2. PICK k \in DOMAIN a : a[k] = r[g][h]
        BY <2>2, <4>1
      <4> QED BY <2>3, <4>2
    <3> QED BY <3>1, <3>2
  <2>5. <<n + 1, c>> \in G
    <3> DEFINE x == <<n + 1, c>>
    <3>1. x \in Nat \X Seq(S) /\ x[1] = n + 1 /\ x[2] = c
      BY <2>1, <2>3
    <3> HIDE DEF x
    <3>2. \A g \in 1 .. x[1] : \A h \in DOMAIN r[g] : \E k \in DOMAIN x[2] : x[2][k] = r[g][h]
      BY <2>4, <3>1
    <3> QED BY <3>1, <3>2 DEF G, x
  <2> QED BY <2>5 DEF c, b
<1>3. <<Len(r), Flat(r)>> \in G
  <2> HIDE DEF G
  <2> QED BY <1>1, <1>2, FlatInduct
<1> QED BY <1>3

(* The drains of a pass end with the last channel of its last latch.        *)
LEMMA TakesTied ==
  ASSUME NEW q, PieceOf(q), NEW nl \in {1, 2}, NEW g0 \in Nat, PassGroups(q, nl, g0) \in 1 .. nl
  PROVE  \A k \in DOMAIN Flat(LowTakes(q, nl, g0)) :
           LET e == Flat(LowTakes(q, nl, g0))[k]
           IN  e.t = PassGroups(q, nl, g0) - 1 /\ Nch - 1 \in e.ch => k = Len(Flat(LowTakes(q, nl, g0)))
<1> DEFINE n == PassGroups(q, nl, g0)
           r == LowTakes(q, nl, g0)
           S == Shape(nl)
           b == Flat(r)
           last == r[n]
<1>1. n \in 1 .. nl /\ n - 1 \in 0 .. n - 1 /\ nl \in Nat /\ n \in Nat
  OBVIOUS
<1>2. /\ r = [k \in 1 .. n |-> Legalise(TakeOf(q, g0 + (k - 1), k - 1))]
      /\ \A k \in 1 .. n : r[k] = Legalise(TakeOf(q, g0 + (k - 1), k - 1))
  BY DEF LowTakes
<1> HIDE DEF n, r, S
<1>3. ASSUME NEW k \in 1 .. n
      PROVE  /\ r[k] \in Seq(S) /\ Len(r[k]) = Nch
             /\ \A c \in 1 .. Nch : r[k][c].t = k - 1 /\ r[k][c].ch = {c - 1}
  <2> DEFINE t == k - 1
             o == TakeOf(q, g0 + t, t)
  <2>1. t \in 0 .. nl - 1 /\ g0 + t \in Nat
    BY <1>1
  <2>2. r[k] = Legalise(o)
    BY <1>2
  <2> HIDE DEF t
  <2>3. Legalise(o) \in Seq(S)
    BY <2>1, TakeEnds DEF S
  <2>4. o.op = "RD_MAC" /\ o.t = t
    BY DEF TakeOf, Blank
  <2> HIDE DEF o
  <2>5. Legalise(o) = [c \in 1 .. Nch |-> Final(o, c - 1, {c - 1})]
    BY <2>4 DEF Legalise
  <2>6. Nch \in Nat
    BY BeatSizes
  <2>7. Len(Legalise(o)) = Nch
    BY <2>5, <2>6
  <2>8. \A c \in 1 .. Nch : Legalise(o)[c].t = t /\ Legalise(o)[c].ch = {c - 1}
    BY <2>4, <2>5 DEF Final
  <2> QED BY <2>2, <2>3, <2>7, <2>8 DEF t
<1>4. r \in Seq(Seq(S)) /\ Len(r) = n
  BY <1>1, <1>2, <1>3
<1> DEFINE a == Joined(r)[n - 1]
<1>5. a \in Seq(S) /\ last \in Seq(S) /\ b = a \o last
  <2>1. n - 1 \in 0 .. Len(r) - 1 /\ (n - 1) + 1 = n
    BY <1>1, <1>4
  <2>2. Joined(r)[n - 1] \in Seq(S) /\ r[(n - 1) + 1] \in Seq(S)
        /\ Joined(r)[(n - 1) + 1] = Joined(r)[n - 1] \o r[(n - 1) + 1]
    BY <1>4, <2>1, JoinedNext
  <2>3. Flat(r) = Joined(r)[Len(r)]
    BY <1>4, FlatIsJoined
  <2> QED BY <1>4, <2>1, <2>2, <2>3
<1>6. \A k \in DOMAIN a : a[k].t # n - 1
  <2>1. CASE n = 1
    <3>1. Joined(r)[0] = <<>>
      BY <1>4, JoinedIs
    <3>2. n - 1 = 0
      BY <2>1
    <3>3. a = <<>>
      BY <3>1, <3>2
    <3> HIDE DEF a
    <3> QED BY <3>3
  <2>2. CASE n # 1
    <3>1. n = 2 /\ 1 \in 1 .. Len(r) /\ 0 \in 0 .. Len(r)
      BY <1>1, <1>4, <2>2
    <3>2. Joined(r)[0] = <<>> /\ Joined(r)[1] = Joined(r)[1 - 1] \o r[1]
      BY <1>4, <3>1, JoinedIs
    <3>3. /\ r[1] \in Seq(S) /\ Len(r[1]) = Nch
          /\ \A c \in 1 .. Nch : r[1][c].t = 1 - 1 /\ r[1][c].ch = {c - 1}
      BY <1>3, <1>4, <3>1
    <3>6. <<>> \o r[1] = r[1]
      BY <3>3, ConcatEmptySeq
    <3>7. n - 1 = 1 /\ 1 - 1 = 0
      BY <3>1
    <3>4. a = r[1]
      BY <3>2, <3>6, <3>7
    <3>5. \A k \in DOMAIN a : k \in 1 .. Nch
      BY <3>3, <3>4
    <3> QED BY <3>1, <3>3, <3>4, <3>5
  <2> QED BY <2>1, <2>2
<1>7. Len(last) = Nch /\ \A c \in 1 .. Nch : last[c].t = n - 1 /\ last[c].ch = {c - 1}
  BY <1>1, <1>3
<1> HIDE DEF b, a, last
<1>8. ASSUME NEW k \in DOMAIN b, b[k].t = n - 1, Nch - 1 \in b[k].ch PROVE k = Len(b)
  <2> HIDE DEF S
  <2>8. /\ \A i \in DOMAIN a : i \in DOMAIN (a \o last) /\ (a \o last)[i] = a[i] /\ i <= Len(a)
        /\ \A i \in DOMAIN (a \o last) : i \in DOMAIN a \/ (i > Len(a) /\ \E j \in DOMAIN last : i = Len(a) + j)
    BY <1>5, ConcatAt
  <2>9. \A i \in DOMAIN last : Len(a) + i \in DOMAIN (a \o last) /\ (a \o last)[Len(a) + i] = last[i]
    BY <1>5, ConcatRight
  <2>1. /\ \A i \in DOMAIN a : (a \o last)[i] = a[i]
        /\ \A i \in DOMAIN last : (a \o last)[Len(a) + i] = last[i]
        /\ \A i \in DOMAIN (a \o last) : i \in DOMAIN a \/ (i > Len(a) /\ \E j \in DOMAIN last : i = Len(a) + j)
    BY <2>8, <2>9
  <2>2. k \notin DOMAIN a
    BY <1>5, <1>6, <1>8, <2>1
  <2>3. PICK j \in DOMAIN last : k = Len(a) + j
    BY <1>5, <2>1, <2>2
  <2>4. j \in 1 .. Nch /\ Nch \in Nat
    BY <1>5, <1>7, BeatSizes
  <2>5. b[k] = last[j]
    BY <1>5, <2>1, <2>3
  <2>6. Nch - 1 = j - 1
    BY <1>7, <1>8, <2>4, <2>5
  <2>7. Len(b) = Len(a) + Len(last)
    BY <1>5
  <2> QED BY <1>7, <2>3, <2>4, <2>6, <2>7
<1> QED BY <1>8 DEF b, r, n

LEMMA PassTied ==
  ASSUME NEW m, Planned(m), NEW q, PieceOf(q), NEW nl \in {1, 2}, NEW g0 \in Nat,
         PassGroups(q, nl, g0) \in 1 .. nl
  PROVE  Tied(LowPass(m, q, nl, g0))
<1> DEFINE a == Flat(LowChunks(m, q, nl, g0))
           b == Flat(LowTakes(q, nl, g0))
           S == Shape(nl)
           n == PassGroups(q, nl, g0)
           y == a \o b
           u == n - 1
           d == Nch - 1
<1>1. a \in Seq(S) /\ Owes(a, n)
  BY ChunksRunGood
<1>2. b \in Seq(S) /\ Settles(b, n)
  BY TakesRunGood
<1>3. \A k \in DOMAIN b : b[k].t = u /\ d \in b[k].ch => k = Len(b)
  BY TakesTied
<1>4. LowPass(m, q, nl, g0) = y /\ Paid(y)
  <2>1. Paid(LowPass(m, q, nl, g0))
    BY PassGood
  <2> QED BY <2>1 DEF LowPass
<1>5. u \in {0, 1} /\ d \in Chan /\ n \in 1 .. nl /\ u \in 0 .. nl - 1 /\ n \in Nat /\ n = u + 1
  <2>1. Nch \in Nat \ {0} /\ Chan = 0 .. Nch - 1
    BY BeatSizes, MatvecAssumption
  <2> QED BY <2>1
<1>6. \E i \in At(a, "MAC") : a[i].t = u
  <2> DEFINE r == LowMacs(m, q, nl, g0, 0)
             e0 == MulOf(m, q, g0 + u, 0, u)
  <2>1. InSlice(q, 0) /\ SliceChunks(q.off, q.len) \in Nat \ {0}
    BY PieceSlice
  <2>2. ASSUME NEW k \in 1 .. n
        PROVE  \E e \in S : r[k] = <<e>> /\ e.op = "MAC" /\ e.t = k - 1
    <3> DEFINE t == k - 1
    <3>1. t \in 0 .. nl - 1 /\ g0 + t \in Nat
      BY <1>5
    <3>2. r[k] = Legalise(MulOf(m, q, g0 + t, 0, t))
      BY DEF LowMacs
    <3> HIDE DEF t
    <3>3. \E e \in Shape(nl) : Legalise(MulOf(m, q, g0 + t, 0, t)) = <<e>> /\ e.op = "MAC" /\ e.t = t
      BY <2>1, <3>1, MulEnds
    <3> QED BY <3>2, <3>3 DEF t
  <2>3. r \in Seq(Seq(S)) /\ Len(r) = n
    <3>2. r = [k \in 1 .. n |-> r[k]]
      BY DEF LowMacs
    <3> HIDE DEF r, n, S
    <3>1. \A k \in 1 .. n : r[k] \in Seq(S)
      <4> TAKE k \in 1 .. n
      <4>1. PICK e \in S : r[k] = <<e>>
        BY <2>2
      <4> QED BY <4>1
    <3>3. n \in Nat
      BY <1>5
    <3> QED BY <3>1, <3>2, <3>3
  <2> HIDE DEF r
  <2>4. n \in 1 .. n
    BY <1>5
  <2>5. PICK e \in S : r[n] = <<e>> /\ e.op = "MAC" /\ e.t = u
    BY <2>2, <2>4
  <2>6. 1 \in DOMAIN r[n] /\ r[n][1] = e
    BY <2>5
  <2>7. PICK i1 \in DOMAIN Flat(r) : Flat(r)[i1] = e
    <3> HIDE DEF n, S
    <3>1. n \in 1 .. Len(r)
      BY <2>3, <2>4
    <3> QED BY <2>3, <2>6, <3>1, FlatHas
  <2> DEFINE f == LowFill(q, 0)
             z == LowChunk(m, q, nl, g0, 0)
  <2>8. f \in Seq(S) /\ Flat(r) \in Seq(S)
    <3>1. Flat(r) \in Seq(S)
      BY <2>3, FlatIsJoined
    <3>2. CASE Hoist(q.off, q.len)
      BY <3>1, <3>2, EmptySeq DEF LowFill
    <3>3. CASE ~Hoist(q.off, q.len)
      <4>1. PICK g \in Shape(nl) : Legalise(FillOf(q, 0)) = <<g>>
        BY <2>1, FillEnds
      <4>2. f = <<g>>
        BY <3>3, <4>1 DEF LowFill
      <4>3. g \in S
        OBVIOUS
      <4> HIDE DEF f, r, S
      <4>4. f \in Seq(S)
        BY <4>2, <4>3
      <4> QED BY <3>1, <4>4
    <3> QED BY <3>2, <3>3
  <2>9. z = f \o Flat(r)
    BY DEF LowChunk, r
  <2> HIDE DEF f, z
  <2>10. PICK i2 \in DOMAIN z : z[i2] = e
    <3> HIDE DEF S
    <3>1. Len(f) + i1 \in DOMAIN (f \o Flat(r)) /\ (f \o Flat(r))[Len(f) + i1] = Flat(r)[i1]
      BY <2>8, ConcatAt
    <3> QED BY <2>7, <2>9, <3>1
  <2> DEFINE w == LowChunks(m, q, nl, g0)
             sc == SliceChunks(q.off, q.len)
  <2>11. /\ w = [i \in 1 .. sc |-> w[i]] /\ w[1] = z
         /\ \A i \in 1 .. sc : w[i] = LowChunk(m, q, nl, g0, i - 1)
    <3>1. 1 \in 1 .. sc /\ 1 - 1 = 0
      BY <2>1
    <3> QED BY <3>1 DEF LowChunks, z
  <2>12. \A i \in 1 .. sc : w[i] \in Seq(S)
    <3> TAKE i \in 1 .. sc
    <3>1. InSlice(q, i - 1)
      BY <2>1 DEF InSlice
    <3>2. LowChunk(m, q, nl, g0, i - 1) \in Seq(Shape(nl))
      BY <3>1, ChunkRunGood
    <3> QED BY <2>11, <3>2
  <2>13. w \in Seq(Seq(S)) /\ 1 \in 1 .. Len(w)
    <3> DEFINE g(i) == LowChunk(m, q, nl, g0, i - 1)
    <3>1. w = [i \in 1 .. sc |-> g(i)]
      BY DEF LowChunks
    <3>2. \A i \in 1 .. sc : g(i) \in Seq(S)
      BY <2>11, <2>12
    <3>3. sc \in Nat \ {0}
      BY <2>1
    <3> HIDE DEF w, S, sc, g
    <3> QED BY <3>1, <3>2, <3>3
  <2> HIDE DEF w, S, sc
  <2>14. i2 \in DOMAIN w[1]
    BY <2>11
  <2>15. \E k \in DOMAIN Flat(w) : Flat(w)[k] = w[1][i2]
    BY <2>13, <2>14, FlatHas
  <2>16. PICK k \in DOMAIN a : a[k] = e
    BY <2>10, <2>11, <2>15 DEF w
  <2> QED BY <2>5, <2>16 DEF At
<1> HIDE DEF a, b, S, n, u, d
<1>7. /\ \A i \in At(a, "MAC") : i \in At(y, "MAC") /\ i \in DOMAIN a /\ y[i] = a[i]
      /\ \A i \in At(y, "MAC") : i \in At(a, "MAC") \/ \E j \in At(b, "MAC") : i = Len(a) + j
  BY <1>1, <1>2, AtConcat DEF Spliced
<1>8. /\ \A i \in At(y, "RD_MAC") : i \in At(a, "RD_MAC") \/ \E j \in At(b, "RD_MAC") : i = Len(a) + j
      /\ \A j \in At(b, "RD_MAC") : j \in DOMAIN b /\ y[Len(a) + j] = b[j]
  BY <1>1, <1>2, AtConcat DEF Spliced
<1>9. At(a, "RD_MAC") = {} /\ At(b, "MAC") = {}
  BY <1>1, <1>2 DEF Owes, Settles
<1>10. /\ DOMAIN a = 1 .. Len(a) /\ Len(a) \in Nat /\ DOMAIN b = 1 .. Len(b) /\ Len(b) \in Nat
       /\ Len(y) = Len(a) + Len(b)
  BY <1>1, <1>2
<1> HIDE DEF y
<1>11. \A i \in At(y, "MAC") : i \in DOMAIN a /\ i \in At(a, "MAC")
  BY <1>7, <1>9
<1>12. \A k \in At(y, "RD_MAC") : \E j \in DOMAIN b : k = Len(a) + j /\ y[k] = b[j]
  BY <1>8, <1>9
<1>13. \A i \in At(y, "MAC"), j \in At(y, "RD_MAC") : i < j
  <2> TAKE i \in At(y, "MAC"), j \in At(y, "RD_MAC")
  <2>1. i \in DOMAIN a
    BY <1>11
  <2>2. PICK k \in DOMAIN b : j = Len(a) + k
    BY <1>12
  <2> QED BY <1>10, <2>1, <2>2
<1>14. \A i \in At(y, "MAC") : y[i].ch = Chan
  <2> TAKE i \in At(y, "MAC")
  <2>1. i \in At(a, "MAC") /\ i \in DOMAIN a /\ y[i] = a[i]
    BY <1>7, <1>11
  <2>2. a[i] \in S /\ a[i].op = "MAC"
    BY <1>1, <2>1 DEF At
  <2> QED BY <2>1, <2>2 DEF S, Shape
<1>15. \E i \in At(y, "MAC") : y[i].t = u
  BY <1>6, <1>7
<1>16. \A k \in At(y, "RD_MAC") : y[k].t = u /\ d \in y[k].ch => k = Len(y)
  <2> TAKE k \in At(y, "RD_MAC")
  <2>1. PICK j \in DOMAIN b : k = Len(a) + j /\ y[k] = b[j]
    BY <1>12
  <2> QED BY <1>3, <1>10, <2>1
<1>17. Tied(y)
  BY <1>4, <1>5, <1>13, <1>14, <1>15, <1>16 DEF Tied
<1> QED BY <1>4, <1>17

(* The latches are empty where nothing is held.                             *)
LEMMA EmptyIs ==
  ASSUME NEW p, Sound(p), NEW n \in 0 .. Len(p)
  PROVE  /\ DOMAIN AfterFrom(Clean, p, n).latch = Chan \X Latches
         /\ \A c \in Chan, t \in Latches :
              AfterFrom(Clean, p, n).latch[<<c, t>>] = {} <=> Since(p, c, t, n) = {}
<1> DEFINE z == AfterFrom(Clean, p, n)
<1>1. MachineOK(z) /\ Exact(z, p, n)
  BY StaysExact
<1> HIDE DEF z
<1>2. DOMAIN z.latch = Chan \X Latches
  BY <1>1 DEF MachineOK
<1>3. \A c \in Chan, t \in Latches : z.latch[<<c, t>>] = Held(p, c, t, n)
  BY <1>1 DEF Exact
<1>4. \A c \in Chan, t \in Latches : Held(p, c, t, n) = {} <=> Since(p, c, t, n) = {}
  BY DEF Held
<1> QED BY <1>2, <1>3, <1>4 DEF z

Empty(p, n) == LET l == AfterFrom(Clean, p, n).latch IN \A x \in DOMAIN l : l[x] = {}

LEMMA EmptyWhen ==
  ASSUME NEW p, Sound(p), NEW n \in 0 .. Len(p)
  PROVE  Empty(p, n) <=> \A c \in Chan, t \in Latches : Since(p, c, t, n) = {}
<1> DEFINE l == AfterFrom(Clean, p, n).latch
<1>1. /\ DOMAIN l = Chan \X Latches
      /\ \A c \in Chan, t \in Latches : l[<<c, t>>] = {} <=> Since(p, c, t, n) = {}
  BY EmptyIs
<1>2. Empty(p, n) <=> \A x \in DOMAIN l : l[x] = {}
  BY DEF Empty
<1> HIDE DEF l
<1>3. (\A x \in DOMAIN l : l[x] = {}) <=> \A c \in Chan, t \in Latches : l[<<c, t>>] = {}
  <2>1. ASSUME \A c \in Chan, t \in Latches : l[<<c, t>>] = {}, NEW x \in DOMAIN l PROVE l[x] = {}
    <3>1. PICK c \in Chan, t \in Latches : x = <<c, t>>
      BY <1>1
    <3> QED BY <2>1, <3>1
  <2>2. \A c \in Chan, t \in Latches : <<c, t>> \in DOMAIN l
    BY <1>1
  <2> QED BY <2>1, <2>2
<1> QED BY <1>1, <1>2, <1>3

(* After a run that pays what it owes nothing is held; ...                  *)
LEMMA PaidEmpty ==
  ASSUME NEW S, NEW x \in Seq(S), NEW y \in Seq(S), Sound(x \o y), Paid(x)
  PROVE  Empty(x \o y, Len(x))
<1> DEFINE p == x \o y
           n == Len(x)
<1>1. p \in Seq(S) /\ DOMAIN p = 1 .. Len(x) + Len(y) /\ Len(p) = Len(x) + Len(y)
      /\ Len(x) \in Nat /\ Len(y) \in Nat /\ DOMAIN x = 1 .. Len(x) /\ n \in 0 .. Len(p)
  OBVIOUS
<1>2. \A i \in DOMAIN x : i \in DOMAIN p /\ p[i] = x[i] /\ i <= Len(x)
  BY ConcatAt
<1>3. Sound(p)
  OBVIOUS
<1> HIDE DEF p, n
<1>4. ASSUME NEW c \in Chan, NEW t \in Latches, NEW i \in At(p, "MAC"), i <= n, p[i].t = t
      PROVE  \E k \in 1 .. n : i < k /\ Clears(p, k, t, c)
  <2>1. i \in DOMAIN x /\ p[i] = x[i] /\ i \in At(x, "MAC")
    <3>1. i \in DOMAIN p /\ p[i].op = "MAC"
      BY DEF At
    <3>2. i \in DOMAIN x
      BY <1>1, <1>4, <3>1 DEF n
    <3> QED BY <1>2, <3>1, <3>2 DEF At
  <2>2. PICK k \in DOMAIN x : k > i /\ Drains(x, k, x[i].t, c)
    BY <2>1 DEF Paid
  <2>3. p[k] = x[k] /\ k \in DOMAIN p /\ k \in 1 .. n
    BY <1>1, <1>2 DEF n
  <2>4. Clears(p, k, t, c)
    BY <1>4, <2>1, <2>2, <2>3 DEF Drains, Clears, At
  <2>5. i \in Int /\ k \in Int
    BY <1>1, <2>1
  <2> QED BY <2>2, <2>3, <2>4, <2>5
<1>5. \A c \in Chan, t \in Latches : Since(p, c, t, n) = {}
  BY <1>4 DEF Since
<1>6. Empty(p, n)
  BY <1>1, <1>3, <1>5, EmptyWhen
<1> QED BY <1>6 DEF p, n

(* ... and inside one that is not to be cut something is, from its first    *)
(* accumulation to its last drain.                                          *)
LEMMA TiedHolds ==
  ASSUME NEW S, NEW x \in Seq(S), NEW y \in Seq(S), NEW z \in Seq(S),
         Sound((x \o y) \o z), Tied(y),
         NEW i \in At(y, "MAC"), NEW n \in i .. Len(y) - 1
  PROVE  ~Empty((x \o y) \o z, Len(x) + n)
<1> DEFINE w == x \o y
           p == w \o z
           l == Len(x)
           r == l + n
<1>1. /\ Len(w) = l + Len(y) /\ Len(p) = (l + Len(y)) + Len(z) /\ w \in Seq(S) /\ p \in Seq(S)
      /\ l \in Nat /\ Len(y) \in Nat /\ Len(z) \in Nat /\ DOMAIN y = 1 .. Len(y) /\ DOMAIN x = 1 .. l
      /\ DOMAIN w = 1 .. l + Len(y)
  OBVIOUS
<1>2. \A j \in DOMAIN y : l + j \in DOMAIN w /\ w[l + j] = y[j]
  BY ConcatRight
<1>3. \A j \in DOMAIN w : j \in DOMAIN p /\ p[j] = w[j] /\ j <= Len(w)
  BY <1>1, ConcatAt
<1>4. \A j \in DOMAIN y : l + j \in DOMAIN p /\ p[l + j] = y[j]
  BY <1>2, <1>3
<1>5. Sound(p)
  OBVIOUS
<1> HIDE DEF w, p, l, r
<1>6. DOMAIN p = 1 .. (l + Len(y)) + Len(z)
  BY <1>1
<1>7. i \in DOMAIN y /\ y[i].op = "MAC" /\ i \in Nat /\ n \in Nat /\ i <= n /\ n < Len(y)
  BY <1>1 DEF At
<1>8. r \in 0 .. Len(p) /\ r \in Nat
  BY <1>1, <1>7 DEF r
<1>9. PICK t \in {0, 1}, c \in Chan :
        /\ \E j \in At(y, "MAC") : y[j].t = t
        /\ \A k \in At(y, "RD_MAC") : y[k].t = t /\ c \in y[k].ch => k = Len(y)
  BY DEF Tied
(* A MAC of the run that nothing has cleared yet.                           *)
<1>10. ASSUME NEW j \in At(y, "MAC"), NEW u \in Latches, NEW d \in Chan, y[j].t = u, j <= n,
              \A k \in At(y, "RD_MAC") : k <= n => ~(y[k].t = u /\ d \in y[k].ch)
       PROVE  Since(p, d, u, r) # {}
  <2>1. j \in DOMAIN y /\ y[j].op = "MAC" /\ y[j].ch = Chan /\ j \in Nat
    BY <1>1 DEF At, Tied
  <2>2. l + j \in DOMAIN p /\ p[l + j] = y[j]
    BY <1>4, <2>1
  <2>6. l + j <= r
    BY <1>1, <1>7, <1>10, <2>1 DEF r
  <2>3. l + j \in At(p, "MAC") /\ l + j <= r /\ p[l + j].t = u /\ d \in p[l + j].ch
    <3> DEFINE h == l + j
    <3>1. h \in DOMAIN p /\ p[h].op = "MAC" /\ p[h].t = u /\ d \in p[h].ch
      BY <1>10, <2>1, <2>2
    <3> HIDE DEF h
    <3>2. h \in At(p, "MAC")
      BY <3>1 DEF At
    <3> QED BY <2>6, <3>1, <3>2 DEF h
  <2>4. ASSUME NEW k \in 1 .. r, l + j < k, Clears(p, k, u, d) PROVE FALSE
    <3> DEFINE h == k - l
    <3>1. h \in DOMAIN y /\ k = l + h /\ h <= n
      BY <1>1, <1>7, <2>1, <2>4 DEF r
    <3> HIDE DEF h
    <3>2. p[k] = y[h]
      BY <1>4, <3>1
    <3>3. h \in At(y, "RD_MAC") /\ y[h].t = u /\ d \in y[h].ch
      BY <2>4, <3>1, <3>2 DEF Clears, At
    <3> QED BY <1>10, <3>1, <3>3
  <2>5. l + j \in Since(p, d, u, r)
    BY <2>3, <2>4 DEF Since
  <2> QED BY <2>5
<1>11. \E d \in Chan, u \in Latches : Since(p, d, u, r) # {}
  <2>1. CASE \E k \in At(y, "RD_MAC") : k <= n
    <3>1. PICK k \in At(y, "RD_MAC") : k <= n
      BY <2>1
    <3>2. PICK j \in At(y, "MAC") : y[j].t = t
      BY <1>9
    <3>3. j < k
      BY <3>1, <3>2 DEF Tied
    <3>4. j \in Nat /\ k \in Nat
      BY <1>1 DEF At
    <3>5. j <= n
      BY <1>7, <3>1, <3>3, <3>4
    <3>6. \A h \in At(y, "RD_MAC") : h <= n => ~(y[h].t = t /\ c \in y[h].ch)
      <4> SUFFICES ASSUME NEW h \in At(y, "RD_MAC"), h <= n, y[h].t = t, c \in y[h].ch PROVE FALSE
        OBVIOUS
      <4>1. h = Len(y)
        BY <1>9
      <4> QED BY <1>1, <1>7, <4>1
    <3>7. t \in Latches
      <4>1. j \in DOMAIN y
        BY DEF At
      <4>2. l + j \in DOMAIN p /\ p[l + j].t = t
        BY <1>4, <3>2, <4>1
      <4> QED BY <1>5, <4>2 DEF Sound
    <3>8. Since(p, c, t, r) # {}
      BY <1>10, <3>2, <3>5, <3>6, <3>7
    <3> QED BY <3>7, <3>8
  <2>2. CASE ~\E k \in At(y, "RD_MAC") : k <= n
    <3>1. PICK u \in Latches : p[l + i].t = u
      <4>1. l + i \in DOMAIN p
        BY <1>4, <1>7
      <4> QED BY <1>5, <4>1 DEF Sound
    <3>2. y[i].t = u
      BY <1>4, <1>7, <3>1
    <3>3. Since(p, c, u, r) # {}
      BY <1>7, <1>10, <2>2, <3>2
    <3> QED BY <3>3
  <2> QED BY <2>1, <2>2
<1>12. ~Empty(p, r)
  BY <1>5, <1>8, <1>11, EmptyWhen
<1> QED BY <1>12 DEF p, w, r, l

(* Where the sequences of a part start, one behind the other.               *)
Befores(n0, r) ==
  CHOOSE f : f = [k \in 1 .. Len(r) + 1 |-> IF k = 1 THEN n0 ELSE f[k - 1] + Len(r[k - 1])]

LEMMA BeforeIs ==
  ASSUME NEW S, NEW n0 \in Nat, NEW r \in Seq(Seq(S)), NEW k \in 0 .. Len(r)
  PROVE  Befores(n0, r)[k + 1] = n0 + Len(Joined(r)[k])
<1> DEFINE N == Len(r)
           F(f) == f = [i \in 1 .. N + 1 |-> IF i = 1 THEN n0 ELSE f[i - 1] + Len(r[i - 1])]
           g == [i \in 1 .. N + 1 |-> n0 + Len(Joined(r)[i - 1])]
           f == Befores(n0, r)
<1>1. N \in Nat /\ k \in 0 .. N
  OBVIOUS
<1>2. Len(Joined(r)[0]) = 0
  <2>1. Joined(r)[0] = <<>>
    BY JoinedIs
  <2> QED BY <2>1
<1>3. ASSUME NEW i \in 0 .. N - 1
      PROVE  Len(Joined(r)[i + 1]) = Len(Joined(r)[i]) + Len(r[i + 1]) /\ Len(Joined(r)[i]) \in Nat
             /\ Len(r[i + 1]) \in Nat
  <2> DEFINE a == Joined(r)[i]
             b == r[i + 1]
  <2>1. a \in Seq(S) /\ b \in Seq(S) /\ Joined(r)[i + 1] = a \o b
    BY JoinedNext
  <2> HIDE DEF a, b
  <2>2. Len(a \o b) = Len(a) + Len(b) /\ Len(a) \in Nat /\ Len(b) \in Nat
    BY <2>1
  <2> QED BY <2>1, <2>2 DEF a, b
<1> HIDE DEF N
<1>4. F(g)
  <2> DEFINE h == [i \in 1 .. N + 1 |-> IF i = 1 THEN n0 ELSE g[i - 1] + Len(r[i - 1])]
  <2>1. ASSUME NEW i \in 1 .. N + 1 PROVE g[i] = h[i]
    <3>1. CASE i = 1
      <4>1. g[i] = n0 + Len(Joined(r)[i - 1]) /\ i - 1 = 0 /\ h[i] = n0
        BY <3>1
      <4>2. g[i] = n0 + 0
        BY <1>2, <4>1
      <4> QED BY <4>1, <4>2
    <3>2. CASE i # 1
      <4> DEFINE j == i - 1
                 d == i - 2
      <4>1. j \in 1 .. N + 1 /\ d \in 0 .. N - 1 /\ d + 1 = j /\ j - 1 = d
        BY <1>1, <3>2
      <4>2. g[i] = n0 + Len(Joined(r)[j]) /\ h[i] = g[j] + Len(r[j])
        BY <3>2
      <4>3. g[j] = n0 + Len(Joined(r)[d])
        BY <4>1
      <4> HIDE DEF g, h, j, d
      <4>4. Len(Joined(r)[d + 1]) = Len(Joined(r)[d]) + Len(r[d + 1]) /\ Len(Joined(r)[d]) \in Nat
            /\ Len(r[d + 1]) \in Nat
        BY <1>3, <4>1
      <4> DEFINE u == Len(Joined(r)[d])
                 v == Len(r[j])
                 w == Len(Joined(r)[j])
      <4>5. w = u + v /\ u \in Nat /\ v \in Nat /\ g[i] = n0 + w /\ h[i] = (n0 + u) + v
        BY <4>1, <4>2, <4>3, <4>4
      <4> HIDE DEF u, v, w
      <4> QED BY <4>5
    <3> QED BY <3>1, <3>2
  <2>2. g = [i \in 1 .. N + 1 |-> g[i]] /\ h = [i \in 1 .. N + 1 |-> h[i]]
    OBVIOUS
  <2> HIDE DEF g, h
  <2>3. g = h
    BY <2>1, <2>2, Zenon
  <2> QED BY <2>3 DEF h
<1>5. f = CHOOSE e : F(e)
  BY DEF Befores, N
<1> HIDE DEF F, g, f
<1>6. F(f)
  BY <1>4, <1>5
<1>7. \A i \in 1 .. N + 1 : f[i] = IF i = 1 THEN n0 ELSE f[i - 1] + Len(r[i - 1])
  BY <1>6 DEF F
<1> DEFINE G == {i \in 0 .. N : f[i + 1] = n0 + Len(Joined(r)[i])}
<1>8. 0 \in G
  <2>1. 1 \in 1 .. N + 1 /\ 0 \in 0 .. N /\ 0 + 1 = 1 /\ n0 + 0 = n0
    BY <1>1
  <2>2. f[1] = n0
    BY <1>7, <2>1
  <2> QED BY <1>2, <2>1, <2>2
<1>9. ASSUME NEW i \in 0 .. N - 1, i \in G PROVE i + 1 \in G
  <2> DEFINE j == i + 1
             d == j + 1
  <2>1. j \in 0 .. N /\ d \in 1 .. N + 1 /\ d # 1 /\ d - 1 = j
    BY <1>1
  <2>2. f[j] = n0 + Len(Joined(r)[i])
    BY <1>9
  <2>3. Len(Joined(r)[j]) = Len(Joined(r)[i]) + Len(r[j]) /\ Len(Joined(r)[i]) \in Nat /\ Len(r[j]) \in Nat
    BY <1>3
  <2> HIDE DEF G, j, d
  <2>4. f[d] = f[j] + Len(r[j])
    BY <1>7, <2>1
  <2> DEFINE u == Len(Joined(r)[i])
             v == Len(r[j])
             w == Len(Joined(r)[j])
  <2>5. w = u + v /\ u \in Nat /\ v \in Nat /\ f[d] = (n0 + u) + v
    BY <2>2, <2>3, <2>4
  <2> HIDE DEF u, v
  <2>6. f[d] = n0 + w
    BY <2>5
  <2> QED BY <2>1, <2>6 DEF G, j, d, w
<1>10. k \in G
  <2> HIDE DEF G
  <2>1. \A i \in 0 .. N : i \in G
    BY <1>1, <1>8, <1>9, Counting
  <2> QED BY <1>1, <2>1
<1> QED BY <1>10 DEF f

Regroup(a, b, c) == (a \o b) \o c = a \o (b \o c)
LEMMA Regrouped ==
  ASSUME NEW S, NEW a \in Seq(S), NEW b \in Seq(S), NEW c \in Seq(S)
  PROVE  Regroup(a, b, c)
BY ConcatAssociative DEF Regroup

(* The first of them are a prefix of all of them.                           *)
LEMMA JoinedSplit ==
  ASSUME NEW S, NEW r \in Seq(Seq(S)), NEW k \in 0 .. Len(r)
  PROVE  \E z \in Seq(S) : Flat(r) = Joined(r)[k] \o z
<1> DEFINE N == Len(r)
           G == {n \in 0 .. N : \A i \in 0 .. n : \E z \in Seq(S) : Joined(r)[n] = Joined(r)[i] \o z}
<1>1. N \in Nat /\ k \in 0 .. N
  OBVIOUS
<1>2. \A i \in 0 .. N : Joined(r)[i] \in Seq(S)
  BY JoinedIs
<1>3. ASSUME NEW n \in 0 .. N PROVE \E z \in Seq(S) : Joined(r)[n] = Joined(r)[n] \o z
  <2>1. Joined(r)[n] \o <<>> = Joined(r)[n]
    BY <1>2, ConcatEmptySeq
  <2>2. <<>> \in Seq(S)
    BY EmptySeq
  <2> QED BY <2>1, <2>2
<1>4. 0 \in G
  <2>1. 0 \in 0 .. N /\ \A i \in 0 .. 0 : i = 0
    BY <1>1
  <2>2. \E z \in Seq(S) : Joined(r)[0] = Joined(r)[0] \o z
    BY <1>3, <2>1
  <2> QED BY <2>1, <2>2
<1>5. ASSUME NEW n \in 0 .. N - 1, n \in G PROVE n + 1 \in G
  <2> DEFINE m == n + 1
             b == r[n + 1]
  <2>1. m \in 0 .. N /\ n \in 0 .. N
    BY <1>1
  <2>2. b \in Seq(S) /\ Joined(r)[m] = Joined(r)[n] \o b
    BY JoinedNext
  <2>3. \A i \in 0 .. n : \E z \in Seq(S) : Joined(r)[n] = Joined(r)[i] \o z
    BY <1>5
  <2>4. \A i \in 0 .. m : i \in 0 .. n \/ i = m
    BY <1>1
  <2> HIDE DEF m, b
  <2>5. ASSUME NEW i \in 0 .. m PROVE \E z \in Seq(S) : Joined(r)[m] = Joined(r)[i] \o z
    <3>1. CASE i = m
      BY <1>3, <2>1, <3>1
    <3>2. CASE i \in 0 .. n
      <4>1. PICK z \in Seq(S) : Joined(r)[n] = Joined(r)[i] \o z
        BY <2>3, <3>2
      <4> DEFINE a == Joined(r)[i]
      <4>2. a \in Seq(S)
        <5>1. i \in 0 .. N
          BY <2>1, <3>2
        <5> QED BY <1>2, <5>1
      <4>3. Joined(r)[m] = (a \o z) \o b
        BY <2>2, <4>1
      <4> HIDE DEF a
      <4>4. (a \o z) \o b = a \o (z \o b)
        <5>1. a \in Seq(S) /\ z \in Seq(S) /\ b \in Seq(S)
          BY <2>2, <4>2
        <5>2. Regroup(a, z, b)
          BY <5>1, Regrouped
        <5> QED BY <5>2 DEF Regroup
      <4>5. z \o b \in Seq(S)
        BY <2>2, <4>1, ConcatProperties
      <4> QED BY <4>3, <4>4, <4>5 DEF a
    <3> QED BY <2>4, <3>1, <3>2
  <2> QED BY <2>1, <2>5 DEF m
<1>6. N \in G
  <2> HIDE DEF G
  <2>1. \A i \in 0 .. N : i \in G
    BY <1>1, <1>4, <1>5, Counting
  <2> QED BY <1>1, <2>1
<1>7. Flat(r) = Joined(r)[N]
  BY FlatIsJoined
<1> QED BY <1>1, <1>6, <1>7

(* An atom: a run that is not to be cut, behind one that owes nothing.      *)
Piecewise(isr, A, B, C) ==
  isr = (A \o B) \o C /\ Paid(Low(A)) /\ Tied(Low(B))
Atom(isr, a) ==
  \E A, B, C \in Seq(Blanks) :
    Piecewise(isr, A, B, C) /\ a = <<Len(A) + 1, Len(A) + Len(B)>>

LEMMA LowPaid ==
  ASSUME NEW a \in Seq(Blanks), NEW b \in Seq(Blanks), Paid(Low(a)), Paid(Low(b))
  PROVE  Paid(Low(a \o b))
<1>1. Low(a \o b) = Low(a) \o Low(b)
  BY BlanksLower, LowConcat
<1>2. Low(a) \in Seq(Finals) /\ Low(b) \in Seq(Finals)
  BY BlanksLower, LowIs
<1>3. Paid(Low(a) \o Low(b))
  BY <1>2, PaidConcat
<1> QED BY <1>1, <1>3

(* Every pass of a piece is one.                                            *)
LEMMA PartAtoms ==
  ASSUME NEW m, Planned(m), NEW q, PieceOf(q), NEW nl \in {1, 2},
         NEW k \in 1 .. Passes(q, nl)
  PROVE  LET r == PartRuns(m, q, nl)
         IN  /\ r \in Seq(Seq(Blanks)) /\ Len(r) = Passes(q, nl) + 1
             /\ \E C \in Seq(Blanks) : Piecewise(Flat(r), Joined(r)[k], r[k + 1], C)
<1> DEFINE n == Passes(q, nl)
           r == PartRuns(m, q, nl)
           h == Hoisted(q)
           x == PassRuns(m, q, nl)
           G == {j \in 0 .. n + 1 : Paid(Low(Joined(r)[j]))}
<1>1. n \in Nat \ {0} /\ k \in 1 .. n /\ k \in 0 .. n + 1
  BY PassesPositive
<1>2. /\ x \in Seq(Seq(Blanks)) /\ Len(x) = n
      /\ \A j \in 1 .. n : Low(x[j]) = LowPass(m, q, nl, (j - 1) * nl)
      /\ h \in Seq(Blanks) /\ Low(h) = LowHoisted(q) /\ r = <<h>> \o x
  BY PartRunsAre
<1>3. ASSUME NEW j \in 1 .. n PROVE Paid(Low(x[j])) /\ Tied(Low(x[j]))
  <2> DEFINE i == j - 1
             g0 == i * nl
  <2>1. i \in 0 .. Passes(q, nl) - 1
    BY <1>1
  <2>2. Low(x[j]) = LowPass(m, q, nl, g0)
    BY <1>2
  <2> HIDE DEF i, x
  <2>3. g0 \in Nat /\ PassGroups(q, nl, g0) \in 1 .. nl
    BY <2>1, GroupsIs
  <2> HIDE DEF g0
  <2>4. Tied(LowPass(m, q, nl, g0))
    BY <2>3, PassTied
  <2> QED BY <2>2, <2>4 DEF Tied
<1>4. Paid(Low(h))
  <2>1. At(LowHoisted(q), "MAC") = {}
    <3>1. CASE Hoist(q.off, q.len)
      <4>1. InSlice(q, 0)
        BY PieceSlice
      <4>2. PICK e : Legalise(FillOf(q, 0)) = <<e>> /\ e.op = "WRVEC"
        <5>1. \E e \in Shape(nl) : Legalise(FillOf(q, 0)) = <<e>> /\ e.op = "WRVEC" /\ e.sz = Size(q, 0)
          BY <4>1, FillEnds
        <5> QED BY <5>1
      <4>3. LowHoisted(q) = <<e>>
        BY <3>1, <4>2 DEF LowHoisted
      <4> QED BY <4>2, <4>3 DEF At
    <3>2. CASE ~Hoist(q.off, q.len)
      BY <3>2 DEF LowHoisted, At
    <3> QED BY <3>1, <3>2
  <2> QED BY <1>2, <2>1 DEF Paid
<1> HIDE DEF n, r, h, x
<1>5. /\ r \in Seq(Seq(Blanks)) /\ Len(r) = n + 1 /\ r[1] = h
      /\ \A j \in 1 .. n : r[j + 1] = x[j]
  <2>1. <<h>> \in Seq(Seq(Blanks)) /\ Len(<<h>>) = 1 /\ <<h>>[1] = h /\ DOMAIN <<h>> = {1}
    BY <1>2
  <2>2. r \in Seq(Seq(Blanks)) /\ Len(r) = Len(<<h>>) + Len(x)
    BY <1>2, <2>1, ConcatProperties
  <2> DEFINE v == <<h>>
             S == Seq(Blanks)
  <2>8. v \in Seq(S) /\ x \in Seq(S)
    BY <1>2, <2>1
  <2>7. v \in Seq(S) /\ x \in Seq(S) /\ Len(v) = 1 /\ v[1] = h /\ DOMAIN v = {1} /\ r = v \o x
    BY <1>2, <2>1
  <2> HIDE DEF v, S
  <2>3. \A i \in DOMAIN v : i \in DOMAIN (v \o x) /\ (v \o x)[i] = v[i]
    BY <2>7, ConcatAt
  <2>4. \A j \in DOMAIN x : Len(v) + j \in DOMAIN (v \o x) /\ (v \o x)[Len(v) + j] = x[j]
    BY <2>8, ConcatRight
  <2>5. r[1] = h
    BY <2>3, <2>7
  <2>6. ASSUME NEW j \in 1 .. n PROVE r[j + 1] = x[j]
    <3>1. j \in DOMAIN x /\ 1 + j = j + 1
      BY <1>1, <1>2
    <3>2. r[1 + j] = x[j]
      BY <2>4, <2>7, <3>1
    <3> QED BY <3>1, <3>2
  <2> QED BY <1>1, <1>2, <2>1, <2>2, <2>5, <2>6
<1>6. \A j \in 1 .. n + 1 : Paid(Low(r[j]))
  <2> TAKE j \in 1 .. n + 1
  <2>1. CASE j = 1
    BY <1>4, <1>5, <2>1
  <2>2. CASE j # 1
    <3> DEFINE i == j - 1
    <3>1. i \in 1 .. n /\ i + 1 = j
      BY <1>1, <2>2
    <3> HIDE DEF i
    <3>2. r[j] = x[i]
      BY <1>5, <3>1
    <3> QED BY <1>3, <3>1, <3>2
  <2> QED BY <2>1, <2>2
<1>7. 0 \in G
  <2>1. Joined(r)[0] = <<>>
    BY <1>5, JoinedIs
  <2>2. Paid(<<>>)
    BY NothingRuns
  <2>3. 0 \in 0 .. n + 1
    BY <1>1
  <2> QED BY <2>1, <2>2, <2>3, LowNone
<1>8. ASSUME NEW j \in 0 .. (n + 1) - 1, j \in G PROVE j + 1 \in G
  <2> DEFINE i == j + 1
             a == Joined(r)[j]
             b == r[j + 1]
  <2>1. i \in 1 .. n + 1 /\ i \in 0 .. n + 1 /\ j \in 0 .. Len(r) - 1
    BY <1>1, <1>5
  <2>2. a \in Seq(Blanks) /\ b \in Seq(Blanks) /\ Joined(r)[j + 1] = a \o b
    BY <1>5, <2>1, JoinedNext
  <2>3. Paid(Low(a)) /\ Paid(Low(b))
    BY <1>6, <1>8, <2>1
  <2> HIDE DEF i, a, b, G
  <2>4. Paid(Low(a \o b))
    BY <2>2, <2>3, LowPaid
  <2>5. Joined(r)[i] = a \o b
    BY <2>2 DEF i
  <2> QED BY <2>1, <2>4, <2>5 DEF G, i
<1>9. Paid(Low(Joined(r)[k]))
  <2> HIDE DEF G
  <2> DEFINE M == n + 1
  <2>1. M \in Nat
    BY <1>1
  <2>2. \A j \in 0 .. M - 1 : j \in G => j + 1 \in G
    BY <1>8
  <2> HIDE DEF M
  <2>3. \A j \in 0 .. M : j \in G
    BY <1>7, <2>1, <2>2, Counting
  <2>4. k \in G
    BY <1>1, <2>3 DEF M
  <2> QED BY <2>4 DEF G
<1>10. Tied(Low(r[k + 1]))
  BY <1>1, <1>3, <1>5
<1>11. \E C \in Seq(Blanks) : Flat(r) = (Joined(r)[k] \o r[k + 1]) \o C
  <2> DEFINE j == k + 1
  <2>1. k \in 0 .. Len(r) - 1 /\ j \in 0 .. Len(r)
    BY <1>1, <1>5
  <2>2. Joined(r)[k + 1] = Joined(r)[k] \o r[k + 1]
    BY <1>5, <2>1, JoinedNext
  <2> HIDE DEF j
  <2>3. \E z \in Seq(Blanks) : Flat(r) = Joined(r)[j] \o z
    BY <1>5, <2>1, JoinedSplit
  <2> QED BY <2>2, <2>3 DEF j
<1> QED BY <1>5, <1>9, <1>10, <1>11 DEF Piecewise, n, r

(* Atoms stay what they are when more is pushed, ...                        *)
LEMMA AtomStays ==
  ASSUME NEW isr \in Seq(Blanks), NEW a, Atom(isr, a), NEW y \in Seq(Blanks)
  PROVE  Atom(isr \o y, a)
<1>1. PICK A, B, C \in Seq(Blanks) :
        Piecewise(isr, A, B, C) /\ a = <<Len(A) + 1, Len(A) + Len(B)>>
  BY DEF Atom
<1> DEFINE x == A \o B
           z == C \o y
<1>2. A \in Seq(Blanks) /\ B \in Seq(Blanks) /\ C \in Seq(Blanks)
  BY <1>1
<1>3. x \in Seq(Blanks)
  BY <1>2, ConcatProperties
<1>4. z \in Seq(Blanks)
  BY <1>2, ConcatProperties
<1>5. isr = x \o C
  BY <1>1 DEF Piecewise
<1> HIDE DEF x
<1>6. isr \o y = x \o z
  <2>1. (x \o C) \o y = x \o (C \o y)
    <3>1. x \in Seq(Blanks) /\ C \in Seq(Blanks) /\ y \in Seq(Blanks)
      BY <1>2, <1>3
    <3>2. Regroup(x, C, y)
      BY <3>1, Regrouped
    <3> QED BY <3>2 DEF Regroup
  <2> QED BY <1>5, <2>1
<1>7. Piecewise(isr \o y, A, B, z)
  BY <1>1, <1>6 DEF Piecewise, x
<1> HIDE DEF z
<1> QED BY <1>1, <1>2, <1>4, <1>7 DEF Atom

(* ... and where they are, behind what was pushed before.                   *)
LEMMA AtomBehind ==
  ASSUME NEW x \in Seq(Blanks), Paid(Low(x)),
         NEW y, NEW A \in Seq(Blanks), NEW B \in Seq(Blanks), NEW C \in Seq(Blanks), Piecewise(y, A, B, C)
  PROVE  Atom(x \o y, <<(Len(x) + Len(A)) + 1, Len(x) + (Len(A) + Len(B))>>)
<1> DEFINE u == A \o B
           v == x \o A
<1>1. u \in Seq(Blanks) /\ Len(A) \in Nat /\ Len(B) \in Nat /\ Len(x) \in Nat
  BY ConcatProperties
<1>2. v \in Seq(Blanks) /\ Len(v) = Len(x) + Len(A)
  BY ConcatProperties
<1>3. y = u \o C /\ Paid(Low(A)) /\ Tied(Low(B))
  BY DEF Piecewise
<1>4. x \o u = v \o B
  <2>1. Regroup(x, A, B)
    BY Regrouped
  <2> QED BY <2>1 DEF Regroup
<1>5. Paid(Low(v))
  BY <1>3, LowPaid
<1> HIDE DEF u, v
<1>6. x \o y = (x \o u) \o C
  <2>1. (x \o u) \o C = x \o (u \o C)
    <3>1. x \in Seq(Blanks) /\ u \in Seq(Blanks) /\ C \in Seq(Blanks)
      BY <1>1
    <3>2. Regroup(x, u, C)
      BY <3>1, Regrouped
    <3> QED BY <3>2 DEF Regroup
  <2> QED BY <1>3, <2>1
<1>7. Piecewise(x \o y, v, B, C)
  BY <1>3, <1>4, <1>5, <1>6 DEF Piecewise
<1> DEFINE l == Len(x)
           i == Len(A)
           j == Len(B)
           w == <<(l + i) + 1, l + (i + j)>>
<1>8. w = <<Len(v) + 1, Len(v) + Len(B)>>
  <2>1. l \in Nat /\ i \in Nat /\ j \in Nat /\ Len(v) = l + i /\ Len(B) = j
    BY <1>1, <1>2
  <2> HIDE DEF l, i, j
  <2>2. (l + i) + j = l + (i + j)
    BY <2>1
  <2> QED BY <2>1, <2>2
<1> HIDE DEF w
<1>9. Atom(x \o y, w)
  BY <1>2, <1>7, <1>8 DEF Atom
<1> QED BY <1>9 DEF w

(* What the atoms of a logical program are.                                 *)
Atomic(l) ==
  /\ l.atoms \in Seq(Nat \X Nat)
  /\ \A k \in DOMAIN l.atoms : Atom(l.isr, l.atoms[k])

LEMMA AtomsOfPart ==
  ASSUME NEW m, Planned(m), NEW q, PieceOf(q), NEW nl \in {1, 2},
         NEW l, l.isr \in Seq(Blanks), Paid(Low(l.isr)), Atomic(l)
  PROVE  Atomic(PushPart(l, m, q, nl))
<1> DEFINE x == l.isr
           o == l.atoms
           r == PartRuns(m, q, nl)
           y == Flat(r)
           n == Len(r) - 1
           f == Befores(Len(x), r)
           w == [k \in 1 .. n |-> <<f[k + 1] + 1, f[k + 2]>>]
           z == PushPart(l, m, q, nl)
           J == Joined(r)
<1>1. z.isr = x \o y /\ z.atoms = o \o w
  BY Zenon DEF PushPart, Befores, Flat
<1>2. y \in Seq(Blanks) /\ x \in Seq(Blanks) /\ Len(x) \in Nat
  BY PartLow
<1>3. /\ r \in Seq(Seq(Blanks)) /\ n \in Nat /\ Len(r) = n + 1
      /\ \A k \in 1 .. n : \E C \in Seq(Blanks) : Piecewise(y, J[k], r[k + 1], C)
  <2>1. Passes(q, nl) \in Nat \ {0}
    BY PassesPositive
  <2>2. 1 \in 1 .. Passes(q, nl)
    BY <2>1
  <2>3. r \in Seq(Seq(Blanks)) /\ Len(r) = Passes(q, nl) + 1
    BY <2>2, PartAtoms
  <2>4. n = Passes(q, nl)
    BY <2>1, <2>3
  <2>5. \A k \in 1 .. Passes(q, nl) : \E C \in Seq(Blanks) : Piecewise(y, J[k], r[k + 1], C)
    BY PartAtoms
  <2> QED BY <2>1, <2>3, <2>4, <2>5
<1>4. \A k \in 0 .. n + 1 : f[k + 1] = Len(x) + Len(J[k])
  <2> TAKE k \in 0 .. n + 1
  <2>1. k \in 0 .. Len(r)
    BY <1>3
  <2> DEFINE e == Len(x)
  <2>2. e \in Nat
    BY <1>2
  <2> HIDE DEF r, e, n
  <2>3. Befores(e, r)[k + 1] = e + Len(Joined(r)[k])
    BY <1>3, <2>1, <2>2, BeforeIs
  <2> QED BY <2>3 DEF e
<1>5. o \in Seq(Nat \X Nat) /\ \A k \in DOMAIN o : Atom(x, o[k])
  BY DEF Atomic
<1>6. w = [k \in 1 .. n |-> w[k]] /\ \A k \in 1 .. n : w[k] = <<f[k + 1] + 1, f[k + 2]>>
  OBVIOUS
<1> HIDE DEF x, o, y, n, f, w, z, r
<1>7. ASSUME NEW k \in 1 .. n PROVE w[k] \in Nat \X Nat /\ Atom(x \o y, w[k])
  <2> DEFINE A == J[k]
             B == r[k + 1]
             i == k + 1
  <2>1. k \in 0 .. n + 1 /\ i \in 0 .. n + 1 /\ i + 1 = k + 2 /\ k \in 0 .. Len(r) - 1
    BY <1>3
  <2>2. A \in Seq(Blanks) /\ B \in Seq(Blanks) /\ J[k + 1] = A \o B
    BY <1>3, <2>1, JoinedNext
  <2>3. PICK C \in Seq(Blanks) : Piecewise(y, A, B, C)
    BY <1>3
  <2>4. f[k + 1] = Len(x) + Len(A)
    BY <1>4, <2>1
  <2> HIDE DEF i, J
  <2>5. f[i + 1] = Len(x) + Len(J[i])
    BY <1>4, <2>1
  <2>6. J[i] = A \o B
    BY <2>2 DEF i
  <2> HIDE DEF A, B
  <2>7. Len(A \o B) = Len(A) + Len(B) /\ Len(A) \in Nat /\ Len(B) \in Nat
    BY <2>2
  <2>8. w[k] = <<(Len(x) + Len(A)) + 1, Len(x) + (Len(A) + Len(B))>>
    BY <1>6, <2>1, <2>4, <2>5, <2>6, <2>7
  <2>9. Paid(Low(x))
    BY DEF x
  <2>10. Atom(x \o y, <<(Len(x) + Len(A)) + 1, Len(x) + (Len(A) + Len(B))>>)
    BY <1>2, <2>2, <2>3, <2>9, AtomBehind
  <2>11. w[k] \in Nat \X Nat
    BY <1>2, <2>7, <2>8
  <2> QED BY <2>8, <2>10, <2>11
<1>8. w \in Seq(Nat \X Nat) /\ Len(w) = n
  <2> DEFINE g(k) == w[k]
             S == Nat \X Nat
  <2>1. \A k \in 1 .. n : g(k) \in S
    BY <1>7
  <2>2. w = [k \in 1 .. n |-> g(k)]
    BY <1>6
  <2> HIDE DEF g, S
  <2>3. w \in Seq(S) /\ Len(w) = n
    BY <1>3, <2>1, <2>2
  <2> QED BY <2>3 DEF S
<1>9. o \o w \in Seq(Nat \X Nat)
  BY <1>5, <1>8, ConcatProperties
<1>10. ASSUME NEW k \in DOMAIN (o \o w) PROVE Atom(x \o y, (o \o w)[k])
  <2> DEFINE S == Nat \X Nat
  <2>8. o \in Seq(S) /\ w \in Seq(S)
    BY <1>5, <1>8
  <2> HIDE DEF S
  <2>9. /\ \A i \in DOMAIN o : (o \o w)[i] = o[i]
        /\ \A i \in DOMAIN (o \o w) : i \in DOMAIN o \/ (i > Len(o) /\ \E j \in DOMAIN w : i = Len(o) + j)
    BY <2>8, ConcatAt
  <2>10. \A j \in DOMAIN w : Len(o) + j \in DOMAIN (o \o w) /\ (o \o w)[Len(o) + j] = w[j]
    BY <2>8, ConcatRight
  <2>1. /\ \A i \in DOMAIN o : (o \o w)[i] = o[i]
        /\ k \in DOMAIN o \/ (k > Len(o) /\ \E j \in DOMAIN w : k = Len(o) + j)
    BY <2>9
  <2>2. \A j \in DOMAIN w : (o \o w)[Len(o) + j] = w[j]
    BY <2>10
  <2>3. CASE k \in DOMAIN o
    <3>1. Atom(x, o[k])
      BY <1>5, <2>3
    <3>2. Atom(x \o y, o[k])
      BY <1>2, <3>1, AtomStays
    <3> QED BY <2>1, <2>3, <3>2
  <2>4. ASSUME NEW j \in DOMAIN w, k = Len(o) + j PROVE Atom(x \o y, (o \o w)[k])
    <3>1. j \in 1 .. n /\ (o \o w)[k] = w[j]
      BY <1>8, <2>2, <2>4
    <3> QED BY <1>7, <3>1
  <2> QED BY <2>1, <2>3, <2>4
<1>11. Atomic(z)
  BY <1>1, <1>9, <1>10 DEF Atomic
<1> QED BY <1>11 DEF z

(* Where pass 2 puts what follows a run: behind what it makes of the run.   *)
LEMMA MappedAt ==
  ASSUME NEW x \in Seq(Blanks), NEW y \in Seq(Blanks), NEW l, l.isr = x \o y
  PROVE  Mapped(l, Len(x) + 1) = Len(Low(x)) + 1
<1> DEFINE e == [isr |-> x]
           n == Len(x)
           b == l.isr
<1>1. e.isr = x /\ n \in Nat /\ (n + 1) - 1 = n /\ DOMAIN x = 1 .. n
  OBVIOUS
<1>2. \A i \in DOMAIN x : b[i] = x[i]
  BY ConcatAt
<1> HIDE DEF b, e
<1>3. Len(Low(x)) = LowerCount(e)
  <2>1. e.isr \in Seq(Blanks)
    BY <1>1
  <2>2. Len(Low(e.isr)) = LowerCount(e)
    BY <2>1, LowLength
  <2> QED BY <1>1, <2>2
<1>4. LowerCount(e) = n + Splits(e, n) * (Nch - 1)
  BY <1>1 DEF LowerCount
<1>5. Splits(l, n) = Splits(e, n)
  <2>1. {i \in 1 .. n : b[i].op = "RD_MAC"} = {i \in 1 .. n : x[i].op = "RD_MAC"}
    BY <1>1, <1>2
  <2> QED BY <1>1, <2>1 DEF Splits, b
<1>6. Mapped(l, n + 1) = (n + 1) + Splits(l, n) * (Nch - 1)
  BY <1>1 DEF Mapped
<1> DEFINE c == Splits(l, n) * (Nch - 1)
           k == Len(Low(x))
           j == Mapped(l, n + 1)
<1>7. k = n + c /\ j = (n + 1) + c
  BY <1>3, <1>4, <1>5, <1>6
<1>8. k \in Nat
  <2>1. Low(x) \in Seq(Finals)
    BY BlanksLower, LowIs
  <2> QED BY <2>1
<1>9. c \in Int
  <2>1. Splits(l, n) \in Nat
    <3>1. IsFiniteSet({i \in 1 .. n : b[i].op = "RD_MAC"})
      <4>1. IsFiniteSet(1 .. n)
        BY <1>1, FS_Interval
      <4> QED BY <4>1, FS_Subset
    <3>2. Cardinality({i \in 1 .. n : b[i].op = "RD_MAC"}) \in Nat
      BY <3>1, FS_CardinalityType
    <3> QED BY <3>2 DEF Splits, b
  <2>2. Nch - 1 \in Nat
    BY BeatSizes
  <2>3. c \in Nat
    BY <2>1, <2>2, ProductNat
  <2> QED BY <2>3
<1> HIDE DEF c, k, j
<1>10. j = k + 1
  BY <1>1, <1>7, <1>9
<1> QED BY <1>10 DEF j, k

(* A program cut at either end of an atom has its latches empty, and one    *)
(* cut inside of it, once it has multiplied, does not.                      *)
Uncut(p, a) ==
  LET Macs == {i \in a[1] .. a[2] : p[i].op = "MAC"}
  IN  /\ Empty(p, a[1] - 1) /\ Empty(p, a[2])
      /\ Macs # {} /\ \A n \in a[1] .. a[2] - 1 : (\E i \in Macs : i <= n) => ~Empty(p, n)

LEMMA AtomUncut ==
  ASSUME NEW l, NEW a, Atom(l.isr, a), Sound(Low(l.isr))
  PROVE  Uncut(Low(l.isr), <<Mapped(l, a[1]), Mapped(l, a[2] + 1) - 1>>)
<1>1. PICK A, B, C \in Seq(Blanks) :
        Piecewise(l.isr, A, B, C) /\ a = <<Len(A) + 1, Len(A) + Len(B)>>
  BY DEF Atom
<1> DEFINE x == Low(A)
           y == Low(B)
           z == Low(C)
           AB == A \o B
           BC == B \o C
           w == x \o y
           p == w \o z
<1>2. A \in Seq(Blanks) /\ B \in Seq(Blanks) /\ C \in Seq(Blanks)
  BY <1>1
<1>3. x \in Seq(Finals) /\ y \in Seq(Finals) /\ z \in Seq(Finals)
  BY <1>2, BlanksLower, LowIs
<1>4. AB \in Seq(Blanks) /\ Len(AB) = Len(A) + Len(B)
  BY <1>2, ConcatProperties
<1>5. BC \in Seq(Blanks)
  BY <1>2, ConcatProperties
<1>6. Paid(x) /\ Tied(y)
  BY <1>1 DEF Piecewise
<1>7. l.isr = AB \o C
  BY <1>1 DEF Piecewise
<1>8. l.isr = A \o BC
  <2>1. Regroup(A, B, C)
    BY <1>2, Regrouped
  <2> QED BY <1>7, <2>1 DEF Regroup
<1>9. Low(AB) = w
  BY <1>2, BlanksLower, LowConcat
<1>10. w \in Seq(Finals) /\ Len(w) = Len(x) + Len(y)
  BY <1>3, ConcatProperties
<1> HIDE DEF AB, BC
<1>11. Low(l.isr) = p
  <2>1. Low(AB \o C) = Low(AB) \o Low(C)
    BY <1>2, <1>4, BlanksLower, LowConcat
  <2> QED BY <1>7, <1>9, <2>1
<1>12. Mapped(l, a[1]) = Len(x) + 1
  <2>1. a[1] = Len(A) + 1
    BY <1>1
  <2>2. Mapped(l, Len(A) + 1) = Len(Low(A)) + 1
    BY <1>2, <1>5, <1>8, MappedAt
  <2> QED BY <2>1, <2>2
<1>13. Mapped(l, a[2] + 1) = (Len(x) + Len(y)) + 1
  <2>1. a[2] = Len(AB)
    BY <1>1, <1>4
  <2>2. Mapped(l, Len(AB) + 1) = Len(Low(AB)) + 1
    BY <1>2, <1>4, <1>7, MappedAt
  <2> QED BY <1>9, <1>10, <2>1, <2>2
<1>14. Len(x) \in Nat /\ Len(y) \in Nat /\ DOMAIN y = 1 .. Len(y)
  BY <1>3
<1> HIDE DEF x, y, z
<1>15. Sound(p) /\ Sound(w \o z) /\ p = w \o z
  BY <1>11
<1>16. Empty(p, Len(x))
  <2> DEFINE v == y \o z
  <2>1. v \in Seq(Finals)
    BY <1>3, ConcatProperties
  <2>2. Regroup(x, y, z)
    BY <1>3, Regrouped
  <2>3. p = x \o v
    BY <2>2 DEF Regroup
  <2> HIDE DEF v, p
  <2>4. Sound(x \o v)
    BY <1>15, <2>3
  <2>5. Empty(x \o v, Len(x))
    BY <1>3, <1>6, <2>1, <2>4, PaidEmpty
  <2> QED BY <2>3, <2>5
<1>17. Empty(p, Len(w))
  <2>1. Paid(y)
    BY <1>6 DEF Tied
  <2>2. Paid(w)
    BY <1>3, <1>6, <2>1, PaidConcat
  <2> HIDE DEF w, p
  <2>3. Empty(w \o z, Len(w))
    BY <1>3, <1>10, <1>15, <2>2, PaidEmpty
  <2> QED BY <1>15, <2>3
<1>18. \A i \in At(y, "MAC"), n \in Nat : i <= n /\ n < Len(y) => ~Empty(p, Len(x) + n)
  <2> SUFFICES ASSUME NEW i \in At(y, "MAC"), NEW n \in Nat, i <= n, n < Len(y)
               PROVE  ~Empty(p, Len(x) + n)
    OBVIOUS
  <2>1. i \in Nat
    BY <1>14 DEF At
  <2>2. n \in i .. Len(y) - 1
    BY <1>14, <2>1
  <2>3. Sound((x \o y) \o z)
    BY <1>15
  <2>4. ~Empty((x \o y) \o z, Len(x) + n)
    BY <1>3, <1>6, <2>2, <2>3, TiedHolds
  <2> QED BY <2>4
<1>19. \A j \in DOMAIN y : p[Len(x) + j] = y[j]
  <2>1. \A j \in DOMAIN y : Len(x) + j \in DOMAIN w /\ w[Len(x) + j] = y[j]
    BY <1>3, ConcatRight
  <2> HIDE DEF w
  <2>2. \A i \in DOMAIN w : (w \o z)[i] = w[i]
    BY <1>3, <1>10, ConcatAt
  <2> QED BY <2>1, <2>2
<1> DEFINE lo == Len(x) + 1
           hi == Len(x) + Len(y)
           Macs == {i \in lo .. hi : p[i].op = "MAC"}
<1> HIDE DEF p, w
<1>20. ASSUME NEW i \in Macs
       PROVE  i - Len(x) \in At(y, "MAC") /\ i - Len(x) \in Nat /\ i = Len(x) + (i - Len(x))
  <2> DEFINE j == i - Len(x)
  <2>1. j \in 1 .. Len(y) /\ i = Len(x) + j /\ p[i].op = "MAC"
    BY <1>14
  <2> HIDE DEF j
  <2>2. p[Len(x) + j] = y[j]
    BY <1>14, <1>19, <2>1
  <2>3. j \in At(y, "MAC")
    BY <1>14, <2>1, <2>2 DEF At
  <2> QED BY <2>1, <2>3 DEF j
<1>21. Macs # {}
  <2>1. PICK i \in At(y, "MAC") : TRUE
    BY <1>6 DEF Tied
  <2>2. i \in 1 .. Len(y) /\ y[i].op = "MAC"
    BY <1>14, <2>1 DEF At
  <2>3. p[Len(x) + i] = y[i] /\ Len(x) + i \in lo .. hi
    BY <1>14, <1>19, <2>2
  <2> QED BY <2>2, <2>3
<1>22. ASSUME NEW n \in lo .. hi - 1, NEW i \in Macs, i <= n PROVE ~Empty(p, n)
  <2> DEFINE d == n - Len(x)
             j == i - Len(x)
  <2>1. j \in At(y, "MAC") /\ j \in Nat /\ i = Len(x) + j
    BY <1>20
  <2>2. d \in Nat /\ d < Len(y) /\ n = Len(x) + d /\ j <= d
    BY <1>14, <1>22, <2>1
  <2> HIDE DEF d, j
  <2> QED BY <1>18, <2>1, <2>2
<1> DEFINE r == <<Mapped(l, a[1]), Mapped(l, a[2] + 1) - 1>>
<1>23. r[1] = lo /\ r[2] = hi /\ lo - 1 = Len(x) /\ hi = Len(w)
  BY <1>10, <1>12, <1>13, <1>14
<1> HIDE DEF lo, hi, r
<1>24. Empty(p, r[1] - 1) /\ Empty(p, r[2])
  BY <1>16, <1>17, <1>23
<1>25. Uncut(p, r)
  BY <1>21, <1>22, <1>23, <1>24 DEF Uncut
<1> QED BY <1>11, <1>25 DEF r

(* The atoms of the program that is being stacked, and of the one lowered.  *)
CutInv ==
  author = "parts" =>
    /\ lp = [isr |-> lp.isr, atoms |-> lp.atoms] /\ lp.isr \in Seq(Blanks) /\ Atomic(lp)
    /\ prog # <<>> => prog = Low(lp.isr)

LEMMA CutInvHolds == Spec => []CutInv
<1>1. Init => CutInv
  <2> SUFFICES ASSUME Init PROVE CutInv
    OBVIOUS
  <2>1. prog = <<>> /\ lp = [isr |-> <<>>, atoms |-> <<>>]
    BY DEF Init, NoProgram
  <2>2. lp = [isr |-> lp.isr, atoms |-> lp.atoms] /\ lp.isr = <<>> /\ lp.atoms = <<>>
    BY <2>1
  <2>3. <<>> \in Seq(Blanks) /\ <<>> \in Seq(Nat \X Nat)
    BY EmptySeq
  <2>4. Atomic(lp)
    BY <2>2, <2>3 DEF Atomic
  <2> QED BY <2>1, <2>2, <2>3, <2>4 DEF CutInv
<1>2. CutInv /\ StackInv /\ LaunchInv /\ [Next]_vars => CutInv'
  <2> SUFFICES ASSUME CutInv, StackInv, LaunchInv, [Next]_vars PROVE CutInv'
    OBVIOUS
  <2>1. ASSUME author # "parts", author' = author PROVE CutInv'
    BY <2>1 DEF CutInv
  <2>2. ASSUME author' = author, prog' = prog, lp' = lp PROVE CutInv'
    BY <2>2 DEF CutInv, Atomic
  <2>3. CASE UNCHANGED vars
    BY <2>2, <2>3 DEF vars
  <2>4. ASSUME NEW i \in Alphabet, Push(i) PROVE CutInv'
    BY <2>1, <2>4 DEF Push
  <2>5. CASE Judge
    BY <2>2, <2>5 DEF Judge
  <2>6. ASSUME NEW m \in Weights, NEW upload, NEW cap \in Limits, Call(m, upload, cap) PROVE CutInv'
    BY <2>1, <2>6 DEF Call
  <2>7. CASE Launch
    <3>1. author = "gemv" /\ author' = author
      BY <2>7 DEF Launch, LaunchInv
    <3> QED BY <2>1, <3>1
  <2>8. CASE Eos
    <3>1. author = "parts" /\ prog = <<>> /\ lp' = PushEos(lp) /\ prog' = Lower(lp')
      BY <2>8 DEF Eos
    <3>2. lp = [isr |-> lp.isr, atoms |-> lp.atoms] /\ lp.isr \in Seq(Blanks) /\ Atomic(lp)
      BY <3>1 DEF CutInv
    <3>3. lp' = [isr |-> Append(lp.isr, EndOfProgram), atoms |-> lp.atoms]
      BY <3>1, <3>2 DEF PushEos
    <3>4. lp'.isr = lp.isr \o <<EndOfProgram>> /\ lp'.atoms = lp.atoms
          /\ lp' = [isr |-> lp'.isr, atoms |-> lp'.atoms] /\ <<EndOfProgram>> \in Seq(Blanks)
      <4>1. Append(lp.isr, EndOfProgram) = lp.isr \o <<EndOfProgram>>
        BY <3>2, EndTyped
      <4> QED BY <3>3, <4>1, EndTyped
    <3>5. lp'.isr \in Seq(Blanks)
      BY <3>2, <3>4, ConcatProperties
    <3>6. ASSUME NEW k \in DOMAIN lp.atoms PROVE Atom(lp'.isr, lp.atoms[k])
      <4> DEFINE x == lp.isr
                 e == lp.atoms[k]
                 y == <<EndOfProgram>>
      <4>1. x \in Seq(Blanks) /\ Atom(x, e) /\ y \in Seq(Blanks) /\ lp'.isr = x \o y
        BY <3>2, <3>4 DEF Atomic
      <4> HIDE DEF x, e, y
      <4>2. Atom(x \o y, e)
        BY <4>1, AtomStays
      <4> QED BY <4>1, <4>2 DEF e
    <3>7. Atomic(lp')
      BY <3>2, <3>4, <3>6 DEF Atomic
    <3>8. prog' = Low(lp'.isr)
      BY <3>1, LowerIsLow
    <3> QED BY <3>4, <3>5, <3>7, <3>8 DEF CutInv, Atomic
  <2>9. ASSUME NEW first \in 0 .. Matrix.ngroups - 1, NEW count \in 1 .. Matrix.ngroups,
               NEW off \in Offsets, NEW len \in Lengths, Part(first, count, off, len)
        PROVE  CutInv'
    <3> DEFINE q == Piece(first, count, off, len, FreeVec, FreeRes)
               l == lp
    <3>1. /\ author = "parts" /\ prog = <<>> /\ prog' = prog /\ nlatch \in {1, 2}
          /\ lp' = PushPart(l, Matrix, q, nlatch)
      BY <2>9 DEF Part, StackInv
    <3>2. l.isr \in Seq(Blanks) /\ Atomic(l)
      BY <3>1 DEF CutInv
    <3>3. Paid(Low(l.isr)) /\ FreeVec \in Nat /\ FreeRes \in Nat
      BY <3>1, MatvecAssumption DEF StackInv, Stacking
    <3>4. Planned(Matrix)
      BY ProgramsAssumption DEF Planned
    <3>5. PieceOf(q)
      <4>1. Matrix.ngroups \in Nat \ {0}
        BY <3>4, PlannedSizes
      <4>2. off \in Nat /\ len \in Nat \ {0} /\ first \in Nat /\ count \in Nat \ {0}
        BY <4>1, ProgramsAssumption
      <4>3. q \in Pieces
        BY <3>3, <4>2 DEF Piece, Pieces
      <4> HIDE DEF q
      <4> QED BY <4>3, PieceIs
    <3>6. lp' = [isr |-> lp'.isr, atoms |-> lp'.atoms]
      BY <3>1 DEF PushPart
    <3> DEFINE z == lp'
    <3> HIDE DEF q, l
    <3>7. Atomic(PushPart(l, Matrix, q, nlatch)) /\ PushPart(l, Matrix, q, nlatch).isr \in Seq(Blanks)
      <4>1. Atomic(PushPart(l, Matrix, q, nlatch))
        BY <3>1, <3>2, <3>3, <3>4, <3>5, AtomsOfPart
      <4>2. PushPart(l, Matrix, q, nlatch).isr \in Seq(Blanks)
        BY <3>1, <3>2, <3>4, <3>5, LowerPart
      <4> QED BY <4>1, <4>2
    <3>8. Atomic(z) /\ z.isr \in Seq(Blanks)
      BY <3>1, <3>7
    <3> QED BY <3>1, <3>6, <3>8 DEF CutInv, Atomic
  <2> QED BY <2>3, <2>4, <2>5, <2>6, <2>7, <2>8, <2>9 DEF Next
<1> QED BY <1>1, <1>2, StackInvHolds, LaunchInvHolds, PTL DEF Spec

(* A program may be cut between its atoms and only there: for every tensor, *)
(* every stack of pieces over any slices and either number of latches, the  *)
(* latches are empty where an atom begins and where it ends, and inside it, *)
(* from its first MAC to its last drain, they hold a sum that a cut would   *)
(* strand.  A program of two latches needs an image that decodes both.      *)
THEOREM CutsStaySafe == Spec => [](Decodes(nlatch) => CutsAreSafe)
<1>1. CutInv /\ StackInv => (Decodes(nlatch) => CutsAreSafe)
  <2> SUFFICES ASSUME CutInv, StackInv, Ended, Decodes(nlatch) PROVE CutsAreSafe
    BY DEF CutsAreSafe
  <2>1. author = "parts" /\ prog # <<>> /\ nlatch \in {1, 2}
    BY DEF Ended, StackInv
  <2>2. prog = Low(lp.isr) /\ Atomic(lp)
    BY <2>1 DEF CutInv
  <2>3. Sealed(prog, nlatch) /\ Words(prog, VWords, VWords + YWords) /\ Len(prog) <= ImemWords
    BY <2>1 DEF StackInv, Stacked
  <2>4. Sound(prog)
    <3>1. Verify(prog, nlatch = 2)
      BY <2>1, <2>3, WholeAccepted
    <3>2. VectorMatches(prog)
      BY <3>1, VerifiedEnds
    <3> QED BY <2>1, <2>3, <3>2, SealedSound
  <2>5. ASSUME NEW k \in DOMAIN lp.atoms
        PROVE  Uncut(prog, LowerAtoms(lp)[k])
    <3> DEFINE a == lp.atoms[k]
               l == lp
    <3>1. LowerAtoms(lp)[k] = <<Mapped(l, a[1]), Mapped(l, a[2] + 1) - 1>>
      BY DEF LowerAtoms
    <3>2. Atom(l.isr, a) /\ Sound(Low(l.isr)) /\ prog = Low(l.isr)
      BY <2>2, <2>4 DEF Atomic
    <3> HIDE DEF a, l
    <3>3. Uncut(Low(l.isr), <<Mapped(l, a[1]), Mapped(l, a[2] + 1) - 1>>)
      BY <3>2, AtomUncut
    <3> QED BY <3>1, <3>2, <3>3
  <2> QED BY <2>5 DEF CutsAreSafe, Uncut, Empty
<1> QED BY <1>1, CutInvHolds, StackInvHolds, PTL

--------------------
(* What is summed: the beats of a slice, and the elements in them.          *)

(* Which chunk of a slice a beat of it is in.                               *)
LEMMA BeatIn ==
  ASSUME NEW off \in Nat, NEW len \in Nat \ {0}, NEW i \in 0 .. SliceChunks(off, len) - 1, NEW n \in Nat
  PROVE  First(off, i) <= n /\ n < Past(off, len, i) <=>
           Lo(off) <= n /\ n < Hi(off, len) /\ n \div RowBeats = Lo(off) \div RowBeats + i
<1> DEFINE K == Lo(off) \div RowBeats + i
           d == n \div RowBeats
           lo == Lo(off)
           hi == Hi(off, len)
<1>1. lo \in Nat /\ hi \in Nat /\ SliceChunks(off, len) \in Nat
  BY SliceIs
<1>2. RowBeats \in Nat \ {0}
  BY BeatSizes
<1>3. K \in Nat /\ i \in Nat
  <2>1. lo \div RowBeats \in Nat
    BY <1>1, <1>2, DivMod
  <2> QED BY <1>1, <2>1
<1>4. d \in Nat /\ RowBeats * d <= n /\ n < RowBeats * d + RowBeats
  <2>1. n \div RowBeats \in Nat /\ n % RowBeats \in 0 .. RowBeats - 1
        /\ n = RowBeats * (n \div RowBeats) + (n % RowBeats)
    BY <1>2, DivMod
  <2>2. RowBeats * d \in Nat
    BY <1>2, <2>1, ProductNat
  <2> HIDE DEF d
  <2> DEFINE e == RowBeats * d
  <2>3. e \in Nat /\ n % RowBeats \in 0 .. RowBeats - 1 /\ n = e + (n % RowBeats)
    BY <2>1, <2>2 DEF d
  <2> HIDE DEF e
  <2>4. e <= n /\ n < e + RowBeats
    BY <1>2, <2>3
  <2> QED BY <2>1, <2>4 DEF e, d
<1>5. First(off, i) = (IF K * RowBeats >= lo THEN K * RowBeats ELSE lo)
      /\ Past(off, len, i) = (IF (K + 1) * RowBeats <= hi THEN (K + 1) * RowBeats ELSE hi)
  BY DEF First, Past, Most, Least
<1> HIDE DEF K, d, lo, hi
<1> DEFINE a == K * RowBeats
           b == (K + 1) * RowBeats
<1>6. a \in Nat /\ b = a + RowBeats
  <2>1. K * RowBeats \in Nat
    BY <1>2, <1>3, ProductNat
  <2> QED BY <1>2, <1>3, <2>1
<1>7. a = RowBeats * K
  BY <1>2, <1>3
<1>8. d = K <=> a <= n /\ n < b
  <2>1. CASE d = K
    <3>1. RowBeats * d = a /\ b = a + RowBeats
      BY <1>6, <1>7, <2>1
    <3> HIDE DEF a, b
    <3> QED BY <1>4, <2>1, <3>1
  <2>2. CASE d + 1 <= K
    <3>1. RowBeats * d + RowBeats <= RowBeats * K
      BY <1>2, <1>3, <1>4, <2>2, NextMultiple
    <3> DEFINE u == RowBeats * d
    <3>2. n < u + RowBeats /\ u + RowBeats <= a /\ a \in Nat /\ u \in Nat
      BY <1>2, <1>4, <1>6, <1>7, <3>1, ProductNat
    <3> HIDE DEF a, b, u
    <3> QED BY <1>2, <1>3, <1>4, <2>2, <3>2
  <2>3. CASE K + 1 <= d
    <3>1. RowBeats * K + RowBeats <= RowBeats * d
      BY <1>2, <1>3, <1>4, <2>3, NextMultiple
    <3> DEFINE u == RowBeats * d
    <3>2. u <= n /\ a + RowBeats <= u /\ a \in Nat /\ u \in Nat /\ b = a + RowBeats
      BY <1>2, <1>4, <1>6, <1>7, <3>1, ProductNat
    <3> HIDE DEF a, b, u
    <3> QED BY <1>2, <1>3, <1>4, <2>3, <3>2
  <2> QED BY <1>3, <1>4, <2>1, <2>2, <2>3
<1> HIDE DEF a, b
<1>9. First(off, i) <= n <=> a <= n /\ lo <= n
  BY <1>1, <1>5, <1>6 DEF a
<1>10. n < Past(off, len, i) <=> n < b /\ n < hi
  BY <1>1, <1>2, <1>5, <1>6 DEF b
<1> QED BY <1>8, <1>9, <1>10 DEF K, d, lo, hi

(* Every beat of it is in one of its chunks.                                *)
LEMMA BeatHas ==
  ASSUME NEW off \in Nat, NEW len \in Nat \ {0}, NEW n \in Nat, Lo(off) <= n, n < Hi(off, len)
  PROVE  \E i \in 0 .. SliceChunks(off, len) - 1 : First(off, i) <= n /\ n < Past(off, len, i)
<1> DEFINE i == n \div RowBeats - Lo(off) \div RowBeats
           h == Hi(off, len) - 1
<1>1. Lo(off) \in Nat /\ Hi(off, len) \in Nat
      /\ SliceChunks(off, len) = (Hi(off, len) - 1) \div RowBeats - Lo(off) \div RowBeats + 1
  BY SliceIs
<1>2. RowBeats \in Nat \ {0}
  BY BeatSizes
<1>3. h \in Nat /\ n <= h
  BY <1>1
<1> HIDE DEF h
<1>4. n \div RowBeats \in Nat /\ Lo(off) \div RowBeats \in Nat /\ h \div RowBeats \in Nat
  BY <1>1, <1>2, <1>3, DivMod
<1>5. Lo(off) \div RowBeats <= n \div RowBeats
  BY <1>1, <1>2, DivMonotone
<1>6. n \div RowBeats <= h \div RowBeats
  BY <1>2, <1>3, DivMonotone
<1>7. i \in 0 .. SliceChunks(off, len) - 1 /\ n \div RowBeats = Lo(off) \div RowBeats + i
  BY <1>1, <1>4, <1>5, <1>6 DEF h
<1> HIDE DEF i
<1>8. First(off, i) <= n /\ n < Past(off, len, i)
  BY <1>7, BeatIn
<1> QED BY <1>7, <1>8

(* Where an element of the reduction lies, given the beat it is in ...      *)
LEMMA ElementAt ==
  ASSUME NEW n \in Nat, NEW l \in 0 .. Epb - 1
  PROVE  /\ (Epb * n + l) \div Epr = n \div RowBeats
         /\ ((Epb * n + l) % Epr) \div Epb = n % RowBeats
         /\ ((Epb * n + l) % Epr) % Epb = l
         /\ Epb * n + l \in Nat /\ (Epb * n + l) \div Epb = n /\ (Epb * n + l) % Epb = l
<1> DEFINE K == n \div RowBeats
           x == n % RowBeats
           e == Epb * n + l
           r == Epb * x + l
<1>1. Epb \in Nat \ {0} /\ Epr \in Nat \ {0} /\ RowBeats \in Nat \ {0} /\ Epr = Epb * RowBeats
  BY BeatSizes
<1>2. K \in Nat /\ x \in 0 .. RowBeats - 1 /\ n = RowBeats * K + x
  BY <1>1, DivMod
<1>3. e \div Epb = n /\ e % Epb = l
  BY <1>1, DivOfSum
<1> HIDE DEF K, x
<1>4. Epb * n = Epr * K + Epb * x
  <2>1. Epb * (RowBeats * K + x) = (Epb * RowBeats) * K + Epb * x
    BY <1>1, <1>2
  <2> QED BY <1>1, <1>2, <2>1
<1>5. Epb * x \in Nat /\ Epr * K \in Nat /\ Epb * n \in Nat
  <2>1. Epb * x \in Nat
    BY <1>1, <1>2, ProductNat
  <2>2. Epr * K \in Nat
    BY <1>1, <1>2, ProductNat
  <2>3. Epb * n \in Nat
    BY <1>1, ProductNat
  <2> QED BY <2>1, <2>2, <2>3
<1>6. r \in 0 .. Epr - 1
  <2>1. Epb * x + Epb <= Epb * RowBeats
    BY <1>1, <1>2, NextMultiple
  <2> QED BY <1>1, <1>5, <2>1
<1>7. e = Epr * K + r
  BY <1>1, <1>4, <1>5
<1>8. r \div Epb = x /\ r % Epb = l
  BY <1>1, <1>2, DivOfSum
<1>9. e \in Nat
  BY <1>1, <1>5
<1> HIDE DEF e, r
<1>10. e \div Epr = K /\ e % Epr = r
  BY <1>1, <1>2, <1>6, <1>7, DivOfSum
<1> QED BY <1>3, <1>8, <1>9, <1>10 DEF e, K, x

(* ... and the output, given its group, its channel and its bank.           *)
LEMMA OutputAt ==
  ASSUME NEW n \in Nat, NEW c \in 0 .. Nch - 1, NEW b \in 0 .. Nbank - 1
  PROVE  /\ (n * PerGroup + c * Nbank + b) \div PerGroup = n
         /\ ((n * PerGroup + c * Nbank + b) \div Nbank) % Nch = c
         /\ (n * PerGroup + c * Nbank + b) % Nbank = b
         /\ n * PerGroup + c * Nbank + b \in Nat
<1> DEFINE r == c * Nbank + b
           o == n * PerGroup + c * Nbank + b
           u == Nch * n + c
<1>1. Nch \in Nat \ {0} /\ Nbank \in Nat \ {0} /\ PerGroup = Nch * Nbank
  BY BeatSizes DEF PerGroup
<1>2. PerGroup \in Nat \ {0}
  BY <1>1, ProductPositive
<1>3. c * Nbank \in Nat /\ c * Nbank = Nbank * c /\ n * PerGroup \in Nat /\ Nch * n \in Nat
  <2>1. c * Nbank \in Nat
    BY <1>1, ProductNat
  <2>2. n * PerGroup \in Nat
    BY <1>2, ProductNat
  <2>3. Nch * n \in Nat
    BY <1>1, ProductNat
  <2> QED BY <1>1, <2>1, <2>2, <2>3
<1>4. r \in 0 .. PerGroup - 1
  <2>1. Nbank * c + Nbank <= Nbank * Nch
    BY <1>1, NextMultiple
  <2>2. Nbank * Nch = PerGroup
    BY <1>1
  <2> QED BY <1>1, <1>2, <1>3, <2>1, <2>2
<1>5. o = PerGroup * n + r
  <2>1. n * PerGroup = PerGroup * n
    BY <1>2
  <2> QED BY <1>1, <1>3, <2>1
<1>6. o = Nbank * u + b
  <2>1. Nbank * u = Nbank * (Nch * n) + Nbank * c
    BY <1>1, <1>3
  <2>2. Nbank * (Nch * n) = n * PerGroup
    BY <1>1
  <2> QED BY <1>1, <1>3, <2>1, <2>2
<1>7. u \in Nat
  BY <1>3
<1>8. o \in Nat
  BY <1>1, <1>3
<1>9. u % Nch = c
  BY <1>1, DivOfSum
<1> HIDE DEF o, r, u
<1>10. o \div PerGroup = n
  BY <1>2, <1>4, <1>5, DivOfSum
<1>11. o \div Nbank = u /\ o % Nbank = b
  BY <1>1, <1>6, <1>7, DivOfSum
<1> QED BY <1>8, <1>9, <1>10, <1>11 DEF o

(* A lane of a bank of a channel is fed the element of its own output.      *)
LEMMA FedIs ==
  ASSUME NEW m, m.nchunks \in Nat, NEW G \in Nat, NEW c \in 0 .. Nch - 1, NEW b \in 0 .. Nbank - 1,
         NEW n \in Nat, NEW l \in 0 .. Epb - 1
  PROVE  FedAt(Unit(m, G, n \div RowBeats), c, b, n % RowBeats, l)
           = Offset(m, G * PerGroup + c * Nbank + b, Epb * n + l)
<1> DEFINE o == G * PerGroup + c * Nbank + b
           e == Epb * n + l
           k == Unit(m, G, n \div RowBeats) * UnitElems
           w == n % RowBeats
<1>1. o \div PerGroup = G /\ (o \div Nbank) % Nch = c /\ o % Nbank = b
  BY OutputAt
<1>2. e \div Epr = n \div RowBeats /\ (e % Epr) \div Epb = w /\ (e % Epr) % Epb = l
  BY ElementAt
<1> HIDE DEF o, e
<1>3. Offset(m, o, e) = k + c * Nbank * Epr + b * Epr + w * Epb + l
  BY <1>1, <1>2 DEF Offset
<1>4. FedAt(Unit(m, G, n \div RowBeats), c, b, w, l) = k + (c * Nbank + b) * Epr + w * Epb + l
  BY DEF FedAt
<1>5. (c * Nbank + b) * Epr = c * Nbank * Epr + b * Epr
  BY BeatSizes
<1>6. k \in Int /\ c * Nbank * Epr \in Int /\ b * Epr \in Int /\ w * Epb \in Int /\ l \in Int
  <2>1. Epb \in Nat \ {0} /\ Epr \in Nat \ {0} /\ RowBeats \in Nat \ {0} /\ Nbank \in Nat \ {0} /\ Nch \in Nat \ {0}
    BY BeatSizes
  <2>2. w \in Nat /\ n \div RowBeats \in Nat
    BY <2>1, DivMod
  <2>3. Unit(m, G, n \div RowBeats) \in Int
    <3> DEFINE x == n \div RowBeats
               y == m.nchunks
    <3>1. x \in Nat
      BY <2>1, DivMod
    <3>2. y \in Nat
      OBVIOUS
    <3>3. Unit(m, G, n \div RowBeats) = G * y + x
      BY DEF Unit
    <3> HIDE DEF x, y
    <3>4. G * y + x \in Int
      BY <3>1, <3>2
    <3> QED BY <3>3, <3>4
  <2>4. UnitElems \in Int
    BY <2>1 DEF UnitElems, PerGroup
  <2> QED BY <2>1, <2>2, <2>3, <2>4
<1> HIDE DEF k, w
<1> DEFINE x == c * Nbank * Epr
           y == b * Epr
           z == w * Epb
<1>7. k + (x + y) + z + l = k + x + y + z + l
  <2> HIDE DEF x, y, z
  <2>1. x \in Int /\ y \in Int /\ z \in Int /\ k \in Int /\ l \in Int
    BY <1>6 DEF x, y, z
  <2> QED BY <2>1
<1> QED BY <1>3, <1>4, <1>5, <1>7 DEF o, e, w

--------------------
(* What the MACs of a pass multiply.                                        *)

(* The MAC of chunk i for group g of a piece, and the word it starts on.    *)
RowFor(m, q, g, i) == RowOf[Unit(m, q.first + g, SlicePart(q.off, q.len, i).chunk)]
MulFor(m, q, g, i, e) ==
  e.sz = Size(q, i) /\ e.row = RowFor(m, q, g, i) /\ e.col = SlicePart(q.off, q.len, i).col
FillWord(q, i) == q.v + SliceVecWord(q.off, q.len, i)

(* The vector a MAC runs on starts at word w; a program leaves it there.    *)
Filled(p, x, w) ==
  \E j \in At(p, "WRVEC") : j < x /\ p[j].row = w /\ \A k \in At(p, "WRVEC") : k < x => k <= j
Loaded(p, w) == \E j \in At(p, "WRVEC") : p[j].row = w /\ \A k \in At(p, "WRVEC") : k <= j

(* What each of the two sorts of ISR ends up as.                            *)
LEMMA FillFinal ==
  ASSUME NEW q, PieceOf(q), NEW i, InSlice(q, i), NEW nl \in {1, 2}
  PROVE  \E e \in Shape(nl) : Legalise(FillOf(q, i)) = <<e>> /\ e.op = "WRVEC" /\ e.row = FillWord(q, i)
<1> DEFINE b == FillOf(q, i)
           e == Final(b, 0, Chan)
<1>1. b \in Blanks
  BY FillTyped
<1>2. b.op = "WRVEC" /\ b.t = 0 /\ b.buf = "vec" /\ b.base + b.index = FillWord(q, i) /\ 0 \in 0 .. nl - 1
  BY DEF FillOf, Blank, FillWord
<1> HIDE DEF b
<1>3. b.op # "RD_MAC" /\ b.t \in 0 .. nl - 1
  BY <1>2
<1>4. Legalise(b) = <<Final(b, 0, Chan)>> /\ Final(b, 0, Chan) \in Shape(nl) /\ Final(b, 0, Chan).op = b.op
  BY <1>1, <1>3, OneIs
<1>5. e.row = FillWord(q, i)
  BY <1>2 DEF Final, Resolve
<1> QED BY <1>2, <1>4, <1>5 DEF b

LEMMA MulFinal ==
  ASSUME NEW m, Planned(m), NEW q, PieceOf(q), NEW i, InSlice(q, i), NEW g \in Nat,
         NEW nl \in {1, 2}, NEW t \in 0 .. nl - 1
  PROVE  \E e \in Shape(nl) : /\ Legalise(MulOf(m, q, g, i, t)) = <<e>> /\ e.op = "MAC" /\ e.t = t
                              /\ e.ch = Chan /\ MulFor(m, q, g, i, e)
<1> DEFINE b == MulOf(m, q, g, i, t)
           e == Final(b, 0, Chan)
<1>1. b \in Blanks
  BY MulTyped
<1>2. /\ b.op = "MAC" /\ b.t = t /\ b.sz = Size(q, i) /\ b.buf = "mat"
      /\ RowOf[b.index] = RowFor(m, q, g, i) /\ b.col = SlicePart(q.off, q.len, i).col
  BY DEF MulOf, Blank, Size, RowFor
<1> HIDE DEF b
<1>3. b.op # "RD_MAC" /\ b.t \in 0 .. nl - 1
  BY <1>2
<1>4. /\ Legalise(b) = <<Final(b, 0, Chan)>> /\ Final(b, 0, Chan) \in Shape(nl)
      /\ Final(b, 0, Chan).op = b.op /\ Final(b, 0, Chan).sz = b.sz /\ Final(b, 0, Chan).t = b.t
  BY <1>1, <1>3, OneIs
<1>5. e.row = RowFor(m, q, g, i) /\ e.ch = Chan /\ e.col = b.col
  BY <1>2 DEF Final, Resolve
<1>6. MulFor(m, q, g, i, e)
  BY <1>2, <1>4, <1>5 DEF MulFor
<1> QED BY <1>2, <1>4, <1>5, <1>6 DEF b

(* The run of one chunk of a pass over the n groups from g0 on: a MAC per   *)
(* latch.                                                                   *)
OfChunk(m, q, n, g0, i, p) ==
  /\ At(p, "RD_MAC") = {}
  /\ \A x \in At(p, "MAC") :
       /\ p[x].t \in 0 .. n - 1 /\ p[x].ch = Chan /\ MulFor(m, q, g0 + p[x].t, i, p[x])
       /\ ~Hoist(q.off, q.len) => Filled(p, x, FillWord(q, i))
  /\ \A t \in 0 .. n - 1 : \E x \in At(p, "MAC") : p[x].t = t
  /\ \A x, y \in At(p, "MAC") : p[x].t = p[y].t => x = y

(* The MACs of a chunk, in a row.                                           *)
Row(p, m, q, n, g0, i) ==
  /\ DOMAIN p = 1 .. n
  /\ \A k \in 1 .. n : /\ p[k].op = "MAC" /\ p[k].t = k - 1 /\ p[k].ch = Chan
                       /\ MulFor(m, q, g0 + (k - 1), i, p[k])
LEMMA MacsAre ==
  ASSUME NEW m, Planned(m), NEW q, PieceOf(q), NEW nl \in {1, 2}, NEW g0 \in Nat,
         PassGroups(q, nl, g0) \in 1 .. nl, NEW i, InSlice(q, i)
  PROVE  /\ Flat(LowMacs(m, q, nl, g0, i)) \in Seq(Shape(nl))
         /\ Row(Flat(LowMacs(m, q, nl, g0, i)), m, q, PassGroups(q, nl, g0), g0, i)
<1> DEFINE n == PassGroups(q, nl, g0)
           r == LowMacs(m, q, nl, g0, i)
           S == Shape(nl)
           f(k) == Legalise(MulOf(m, q, g0 + (k - 1), i, k - 1))[1]
           p == [k \in 1 .. n |-> f(k)]
<1>1. n \in 1 .. nl /\ n \in Nat
  OBVIOUS
<1>2. ASSUME NEW k \in 1 .. n
      PROVE  /\ Legalise(MulOf(m, q, g0 + (k - 1), i, k - 1)) = <<f(k)>> /\ f(k) \in S
             /\ f(k).op = "MAC" /\ f(k).t = k - 1 /\ f(k).ch = Chan /\ MulFor(m, q, g0 + (k - 1), i, f(k))
  <2> DEFINE t == k - 1
             g == g0 + t
             d == Legalise(MulOf(m, q, g, i, t))
  <2>1. t \in 0 .. nl - 1 /\ g \in Nat
    BY <1>1
  <2> HIDE DEF t, g, n
  <2>2. \E e \in Shape(nl) : d = <<e>> /\ e.op = "MAC" /\ e.t = t /\ e.ch = Chan /\ MulFor(m, q, g, i, e)
    BY <2>1, MulFinal
  <2>3. f(k) = d[1]
    BY DEF g, t
  <2> HIDE DEF d, f
  <2>4. d = <<f(k)>> /\ f(k) \in S /\ f(k).op = "MAC" /\ f(k).t = t /\ f(k).ch = Chan /\ MulFor(m, q, g, i, f(k))
    BY <2>2, <2>3
  <2> QED BY <2>4 DEF d, g, t
<1>3. r = [k \in 1 .. n |-> <<f(k)>>]
  <2>1. r = [k \in 1 .. n |-> Legalise(MulOf(m, q, g0 + (k - 1), i, k - 1))]
    BY DEF LowMacs
  <2> QED BY <1>2, <2>1
<1> HIDE DEF f, n, r, S
<1>4. p \in Seq(S) /\ Len(p) = n /\ DOMAIN p = 1 .. n /\ \A k \in 1 .. n : p[k] = f(k)
  BY <1>1, <1>2
<1>5. r = [k \in 1 .. Len(p) |-> <<p[k]>>]
  BY <1>3, <1>4
<1> HIDE DEF p
<1>6. Flat(r) = p
  BY <1>4, <1>5, FlatSingles
<1>7. Row(p, m, q, n, g0, i)
  BY <1>2, <1>4 DEF Row
<1> QED BY <1>4, <1>6, <1>7 DEF r, S, n

LEMMA ChunkAre ==
  ASSUME NEW m, Planned(m), NEW q, PieceOf(q), NEW nl \in {1, 2}, NEW g0 \in Nat,
         PassGroups(q, nl, g0) \in 1 .. nl, NEW i, InSlice(q, i)
  PROVE  OfChunk(m, q, PassGroups(q, nl, g0), g0, i, LowChunk(m, q, nl, g0, i))
<1> DEFINE b == Flat(LowMacs(m, q, nl, g0, i))
           n == PassGroups(q, nl, g0)
           S == Shape(nl)
<1>1. b \in Seq(S) /\ Row(b, m, q, n, g0, i)
  BY MacsAre
<1>2. LowChunk(m, q, nl, g0, i) = LowFill(q, i) \o b
  BY DEF LowChunk
<1>3. PICK e \in S : Legalise(FillOf(q, i)) = <<e>> /\ e.op = "WRVEC" /\ e.row = FillWord(q, i)
  BY FillFinal
<1>4. n \in Nat
  OBVIOUS
<1> HIDE DEF b, n, S
<1>5. At(b, "MAC") = 1 .. n /\ At(b, "RD_MAC") = {} /\ At(b, "WRVEC") = {}
  BY <1>1 DEF Row, At
<1>6. \A k \in 1 .. n : b[k].t = k - 1 /\ b[k].ch = Chan /\ MulFor(m, q, g0 + b[k].t, i, b[k])
  BY <1>1 DEF Row
<1>7. \A t \in 0 .. n - 1 : t + 1 \in 1 .. n /\ b[t + 1].t = t
  <2> TAKE t \in 0 .. n - 1
  <2>1. t + 1 \in 1 .. n /\ (t + 1) - 1 = t
    BY <1>4
  <2> QED BY <1>6, <2>1
<1>8. \A k \in 1 .. n : b[k].t \in 0 .. n - 1
  BY <1>4, <1>6
<1>9. CASE Hoist(q.off, q.len)
  <2>1. LowFill(q, i) = <<>>
    BY <1>9 DEF LowFill
  <2>2. <<>> \o b = b
    BY <1>1, ConcatEmptySeq
  <2>3. \A x, y \in At(b, "MAC") : b[x].t = b[y].t => x = y
    BY <1>4, <1>5, <1>6
  <2>4. \A t \in 0 .. n - 1 : \E x \in At(b, "MAC") : b[x].t = t
    BY <1>5, <1>7
  <2>5. OfChunk(m, q, n, g0, i, b)
    BY <1>5, <1>6, <1>8, <1>9, <2>3, <2>4 DEF OfChunk
  <2> QED BY <1>2, <2>1, <2>2, <2>5 DEF n
<1>10. CASE ~Hoist(q.off, q.len)
  <2> DEFINE a == <<e>>
             p == a \o b
  <2>1. LowFill(q, i) = a
    BY <1>3, <1>10 DEF LowFill
  <2>2. a \in Seq(S) /\ Len(a) = 1 /\ DOMAIN a = {1} /\ a[1] = e
    BY <1>3
  <2>3. At(a, "MAC") = {} /\ At(a, "RD_MAC") = {} /\ At(a, "WRVEC") = {1}
    BY <1>3, <2>2 DEF At
  <2> HIDE DEF a
  <2>4. Spliced(a, Len(a), b, p)
    <3>1. a \in Seq(S) /\ b \in Seq(S)
      BY <1>1, <2>2
    <3> QED BY <3>1, AtConcat
  <2> USE DEF Spliced
  <2> HIDE DEF p
  <2>5. At(p, "RD_MAC") = {} /\ At(p, "WRVEC") = {1} /\ p[1] = e
    BY <1>5, <2>2, <2>3, <2>4
  <2>6. \A k \in 1 .. n : 1 + k \in At(p, "MAC") /\ p[1 + k] = b[k]
    BY <1>5, <2>2, <2>4
  <2>7. \A x \in At(p, "MAC") : \E k \in 1 .. n : x = 1 + k
    BY <1>5, <2>2, <2>3, <2>4
  <2>8. ASSUME NEW x \in At(p, "MAC")
        PROVE  /\ p[x].t \in 0 .. n - 1 /\ p[x].ch = Chan /\ MulFor(m, q, g0 + p[x].t, i, p[x])
               /\ Filled(p, x, FillWord(q, i)) /\ x = p[x].t + 2
    <3>1. PICK k \in 1 .. n : x = 1 + k
      BY <2>7
    <3>2. p[x] = b[k]
      BY <2>6, <3>1
    <3>3. Filled(p, x, FillWord(q, i))
      BY <1>3, <1>4, <2>5, <3>1 DEF Filled
    <3>4. x = p[x].t + 2
      BY <1>4, <1>6, <3>1, <3>2
    <3> QED BY <1>6, <1>8, <3>2, <3>3, <3>4
  <2>9. \A x, y \in At(p, "MAC") : p[x].t = p[y].t => x = y
    BY <2>8
  <2>10. \A t \in 0 .. n - 1 : \E x \in At(p, "MAC") : p[x].t = t
    <3> TAKE t \in 0 .. n - 1
    <3>1. t + 1 \in 1 .. n /\ b[t + 1].t = t
      BY <1>7
    <3>2. 1 + (t + 1) \in At(p, "MAC") /\ p[1 + (t + 1)] = b[t + 1]
      BY <2>6, <3>1
    <3> QED BY <3>1, <3>2
  <2>11. OfChunk(m, q, n, g0, i, p)
    BY <2>5, <2>8, <2>9, <2>10 DEF OfChunk
  <2> QED BY <1>2, <2>1, <2>11 DEF n, p
<1> QED BY <1>9, <1>10

(* Every broadcast unit of a tensor has a row.                              *)
Placed(m) == 0 .. m.ngroups * m.nchunks - 1 \subseteq DOMAIN RowOf

LEMMA UnitPlaced ==
  ASSUME NEW m, NEW q, Accepted(m, q), Placed(m), NEW i, InSlice(q, i), NEW g \in 0 .. q.count - 1
  PROVE  /\ Unit(m, q.first + g, SlicePart(q.off, q.len, i).chunk) \in DOMAIN RowOf
         /\ SlicePart(q.off, q.len, i).chunk = Lo(q.off) \div RowBeats + i
         /\ Lo(q.off) \div RowBeats + i \in 0 .. m.nchunks - 1
<1> DEFINE b == MulOf(m, q, g, i, 0)
           c == SlicePart(q.off, q.len, i).chunk
           x == m.ngroups
           y == m.nchunks
           u == q.first + g
           w == Unit(m, u, c)
<1>1. q.first \in Nat /\ q.count \in Nat \ {0} /\ 0 \in Nat
  BY DEF Accepted, PieceOf
<1>2. c \in 0 .. y - 1 /\ x \in Nat \ {0} /\ y \in Nat \ {0}
  BY ChunkBelow
<1>3. u \in Nat
  BY <1>1
<1>4. b \in Roomy
  BY <1>1, MulRoom
<1>5. b.op = "MAC" /\ b.index = w /\ b.room = x * y
  BY DEF MulOf, Blank
<1>6. w = u * y + c
  BY DEF Unit
<1>7. c = Lo(q.off) \div RowBeats + i
  <2>1. q.off \in Nat /\ q.len \in Nat \ {0} /\ i \in 0 .. SliceChunks(q.off, q.len) - 1
    BY DEF Accepted, PieceOf, InSlice
  <2> QED BY <2>1, PartIs
<1> HIDE DEF b, c, x, y, u, w
<1>8. w < x * y
  <2>1. w + 0 < x * y /\ w \in Int
    BY <1>4, <1>5 DEF Roomy, Fits, Blanks
  <2> QED BY <2>1
<1>9. w \in Nat
  <2>1. u * y \in Nat
    BY <1>2, <1>3, ProductNat
  <2> QED BY <1>2, <1>6, <2>1
<1>10. x * y \in Nat
  BY <1>2, ProductNat
<1>11. w \in 0 .. x * y - 1
  BY <1>8, <1>9, <1>10
<1>12. w \in DOMAIN RowOf
  BY <1>11 DEF Placed, x, y
<1> QED BY <1>2, <1>7, <1>12 DEF c, u, w, y

(* The chunks of a slice lie in rows of their own.                          *)
LEMMA RowsDiffer ==
  ASSUME NEW m, NEW q, Accepted(m, q), Placed(m), NEW i, InSlice(q, i), NEW j, InSlice(q, j),
         NEW g \in 0 .. q.count - 1, RowFor(m, q, g, i) = RowFor(m, q, g, j)
  PROVE  i = j
<1> DEFINE c(h) == SlicePart(q.off, q.len, h).chunk
           u == q.first + g
           y == m.nchunks
           z == Lo(q.off) \div RowBeats
<1>1. Unit(m, u, c(i)) \in DOMAIN RowOf /\ c(i) = z + i /\ z + i \in 0 .. y - 1
  BY UnitPlaced
<1>2. Unit(m, u, c(j)) \in DOMAIN RowOf /\ c(j) = z + j /\ z + j \in 0 .. y - 1
  BY UnitPlaced
<1>3. Unit(m, u, c(i)) = Unit(m, u, c(j))
  BY <1>1, <1>2, MatvecAssumption DEF RowFor
<1>4. Unit(m, u, c(i)) = u * y + c(i) /\ Unit(m, u, c(j)) = u * y + c(j)
  BY DEF Unit
<1>5. u * y \in Nat
  <2>1. q.first \in Nat /\ q.count \in Nat \ {0}
    BY DEF Accepted, PieceOf
  <2>2. u \in Nat
    BY <2>1
  <2>3. y \in Nat
    BY ChunkBelow
  <2> QED BY <2>2, <2>3, ProductNat
<1>6. i \in Nat /\ j \in Nat /\ z \in Int
  <2>1. q.off \in Nat /\ q.len \in Nat \ {0}
    BY DEF Accepted, PieceOf
  <2>2. Lo(q.off) \in Nat /\ SliceChunks(q.off, q.len) \in Nat
    BY <2>1, SliceIs
  <2>3. z \in Nat
    BY <2>2, BeatSizes, DivMod
  <2>4. i \in Nat /\ j \in Nat
    BY <2>2 DEF InSlice
  <2> QED BY <2>3, <2>4
<1> DEFINE w == u * y
<1> HIDE DEF z, y, u, c, w
<1>7. w + (z + i) = w + (z + j) /\ w \in Nat
  BY <1>1, <1>2, <1>3, <1>4, <1>5 DEF w
<1> QED BY <1>6, <1>7

(* The first k chunks of a pass over the n groups from g0 on: a MAC per     *)
(* chunk and latch.                                                         *)
OfChunks(m, q, n, g0, k, p) ==
  /\ At(p, "RD_MAC") = {}
  /\ \A x \in At(p, "MAC") :
       /\ p[x].t \in 0 .. n - 1 /\ p[x].ch = Chan
       /\ \E i \in 0 .. k - 1 : /\ MulFor(m, q, g0 + p[x].t, i, p[x])
                                /\ ~Hoist(q.off, q.len) => Filled(p, x, FillWord(q, i))
  /\ \A t \in 0 .. n - 1, i \in 0 .. k - 1 : \E x \in At(p, "MAC") : p[x].t = t /\ MulFor(m, q, g0 + t, i, p[x])
  /\ \A x, y \in At(p, "MAC") : p[x].t = p[y].t /\ p[x].row = p[y].row => x = y

(* A MAC keeps its vector when more is put behind, and before if it had one.*)
LEMMA FilledStays ==
  ASSUME NEW S, NEW a \in Seq(S), NEW b \in Seq(S), NEW x \in DOMAIN a, NEW w, Filled(a, x, w)
  PROVE  Filled(a \o b, x, w)
<1> DEFINE c == a \o b
           n == Len(a)
<1>1. Spliced(a, n, b, c)
  BY AtConcat
<1> USE DEF Spliced
<1>2. n \in Nat /\ x \in 1 .. n
  OBVIOUS
<1>3. \A y \in At(b, "WRVEC") : y \in Nat \ {0}
  BY DEF At
<1> HIDE DEF c, n
<1>4. PICK j \in At(a, "WRVEC") : j < x /\ a[j].row = w /\ \A k \in At(a, "WRVEC") : k < x => k <= j
  BY DEF Filled
<1>5. ASSUME NEW k \in At(c, "WRVEC"), k < x PROVE k <= j
  <2>1. ~ \E y \in At(b, "WRVEC") : k = n + y
    BY <1>2, <1>3, <1>5
  <2>2. k \in At(a, "WRVEC")
    BY <1>1, <2>1
  <2> QED BY <1>4, <1>5, <2>2
<1>6. j \in At(c, "WRVEC") /\ c[j].row = w /\ j < x
  BY <1>1, <1>4
<1> QED BY <1>5, <1>6 DEF Filled, c

LEMMA FilledBehind ==
  ASSUME NEW S, NEW a \in Seq(S), NEW b \in Seq(S), NEW x \in DOMAIN b, NEW w, Filled(b, x, w)
  PROVE  Filled(a \o b, Len(a) + x, w)
<1> DEFINE c == a \o b
           n == Len(a)
<1>1. Spliced(a, n, b, c)
  BY AtConcat
<1> USE DEF Spliced
<1>2. n \in Nat /\ x \in Nat \ {0}
  OBVIOUS
<1>3. (\A y \in At(b, "WRVEC") : y \in Nat \ {0}) /\ \A y \in At(a, "WRVEC") : y \in 1 .. n
  BY DEF At
<1> HIDE DEF c, n
<1>4. PICK j \in At(b, "WRVEC") : j < x /\ b[j].row = w /\ \A k \in At(b, "WRVEC") : k < x => k <= j
  BY DEF Filled
<1>5. j \in Nat \ {0}
  BY <1>3, <1>4
<1>6. ASSUME NEW k \in At(c, "WRVEC"), k < n + x PROVE k <= n + j
  <2>1. CASE k \in At(a, "WRVEC")
    <3>1. k \in 1 .. n
      BY <1>3, <2>1
    <3> QED BY <1>2, <1>5, <3>1
  <2>2. ASSUME NEW y \in At(b, "WRVEC"), k = n + y PROVE k <= n + j
    <3>1. y \in Nat
      BY <1>3
    <3>2. y < x
      BY <1>2, <1>6, <2>2, <3>1
    <3>3. y <= j
      BY <1>4, <3>2
    <3> QED BY <1>2, <1>5, <2>2, <3>1, <3>3
  <2> QED BY <1>1, <2>1, <2>2
<1>7. n + j \in At(c, "WRVEC") /\ c[n + j].row = w
  BY <1>1, <1>4
<1>8. n + j < n + x
  BY <1>2, <1>4, <1>5
<1> QED BY <1>6, <1>7, <1>8 DEF Filled, c, n

(* ... and finds one there if the program before left it.                   *)
LEMMA FilledFrom ==
  ASSUME NEW S, NEW a \in Seq(S), NEW b \in Seq(S), NEW x \in DOMAIN b, NEW w, Loaded(a, w),
         At(b, "WRVEC") = {}
  PROVE  Filled(a \o b, Len(a) + x, w)
<1> DEFINE c == a \o b
           n == Len(a)
<1>1. Spliced(a, n, b, c)
  BY AtConcat
<1> USE DEF Spliced
<1>2. n \in Nat /\ x \in Nat \ {0}
  OBVIOUS
<1>3. \A y \in At(a, "WRVEC") : y \in 1 .. n
  BY DEF At
<1> HIDE DEF c, n
<1>4. PICK j \in At(a, "WRVEC") : a[j].row = w /\ \A k \in At(a, "WRVEC") : k <= j
  BY DEF Loaded
<1>5. j \in At(c, "WRVEC") /\ c[j].row = w /\ j \in 1 .. n
  BY <1>1, <1>3, <1>4
<1>6. \A k \in At(c, "WRVEC") : k <= j
  BY <1>1, <1>4
<1>7. j < n + x
  BY <1>2, <1>5
<1> QED BY <1>5, <1>6, <1>7 DEF Filled, c, n

LEMMA LoadedStays ==
  ASSUME NEW S, NEW a \in Seq(S), NEW b \in Seq(S), NEW w, Loaded(a, w), At(b, "WRVEC") = {}
  PROVE  Loaded(a \o b, w)
<1> DEFINE c == a \o b
<1>1. Spliced(a, Len(a), b, c)
  BY AtConcat
<1> USE DEF Spliced
<1> HIDE DEF c
<1>2. PICK j \in At(a, "WRVEC") : a[j].row = w /\ \A k \in At(a, "WRVEC") : k <= j
  BY DEF Loaded
<1>3. j \in At(c, "WRVEC") /\ c[j].row = w
  BY <1>1, <1>2
<1>4. \A k \in At(c, "WRVEC") : k <= j
  BY <1>1, <1>2
<1> QED BY <1>3, <1>4 DEF Loaded, c

(* One more chunk.                                                          *)
LEMMA ChunkMore ==
  ASSUME NEW m, NEW q, Accepted(m, q), Placed(m), NEW n \in Nat, NEW g0 \in Nat, g0 + n <= q.count,
         NEW S, NEW a \in Seq(S), NEW b \in Seq(S), NEW k, InSlice(q, k),
         OfChunks(m, q, n, g0, k, a), OfChunk(m, q, n, g0, k, b)
  PROVE  OfChunks(m, q, n, g0, k + 1, a \o b)
<1> DEFINE c == a \o b
           l == Len(a)
           K == k + 1
           H == Hoist(q.off, q.len)
<1>1. Spliced(a, l, b, c)
  BY AtConcat
<1> USE DEF Spliced
<1>2. q.count \in Nat \ {0} /\ k \in Nat /\ k \in 0 .. SliceChunks(q.off, q.len) - 1 /\ SliceChunks(q.off, q.len) \in Nat
  <2>1. q.count \in Nat \ {0} /\ PieceOf(q)
    BY DEF Accepted, PieceOf
  <2>2. SliceChunks(q.off, q.len) \in Nat
    BY <2>1, PieceSlice
  <2> QED BY <2>1, <2>2 DEF InSlice
<1>3. /\ At(a, "RD_MAC") = {}
      /\ \A x \in At(a, "MAC") :
           /\ a[x].t \in 0 .. n - 1 /\ a[x].ch = Chan
           /\ \E i \in 0 .. k - 1 : MulFor(m, q, g0 + a[x].t, i, a[x]) /\ (~H => Filled(a, x, FillWord(q, i)))
      /\ \A t \in 0 .. n - 1, i \in 0 .. k - 1 : \E x \in At(a, "MAC") : a[x].t = t /\ MulFor(m, q, g0 + t, i, a[x])
      /\ \A x, y \in At(a, "MAC") : a[x].t = a[y].t /\ a[x].row = a[y].row => x = y
  BY DEF OfChunks
<1>4. /\ At(b, "RD_MAC") = {}
      /\ \A x \in At(b, "MAC") :
           /\ b[x].t \in 0 .. n - 1 /\ b[x].ch = Chan /\ MulFor(m, q, g0 + b[x].t, k, b[x])
           /\ ~H => Filled(b, x, FillWord(q, k))
      /\ \A t \in 0 .. n - 1 : \E x \in At(b, "MAC") : b[x].t = t
      /\ \A x, y \in At(b, "MAC") : b[x].t = b[y].t => x = y
  BY DEF OfChunk
<1>5. \A i \in 0 .. K - 1 : i \in 0 .. k - 1 \/ i = k
  BY <1>2
<1>6. k \in 0 .. K - 1 /\ \A i \in 0 .. k - 1 : i \in 0 .. K - 1 /\ i # k /\ InSlice(q, i)
  BY <1>2 DEF InSlice
<1> HIDE DEF K, H, c, l
<1>7. ASSUME NEW x \in At(a, "MAC")
      PROVE  /\ x \in At(c, "MAC") /\ c[x] = a[x]
             /\ \A w : Filled(a, x, w) => Filled(c, x, w)
  <2>1. x \in At(c, "MAC") /\ c[x] = a[x] /\ x \in DOMAIN a
    BY <1>1
  <2>2. ASSUME NEW w, Filled(a, x, w) PROVE Filled(c, x, w)
    BY <2>1, <2>2, FilledStays DEF c
  <2> QED BY <2>1, <2>2
<1>8. ASSUME NEW x \in At(b, "MAC")
      PROVE  /\ l + x \in At(c, "MAC") /\ c[l + x] = b[x]
             /\ \A w : Filled(b, x, w) => Filled(c, l + x, w)
  <2>1. l + x \in At(c, "MAC") /\ c[l + x] = b[x] /\ x \in DOMAIN b
    BY <1>1
  <2>2. ASSUME NEW w, Filled(b, x, w) PROVE Filled(c, l + x, w)
    BY <2>1, <2>2, FilledBehind DEF c, l
  <2> QED BY <2>1, <2>2
<1>9. \A x \in At(c, "MAC") : x \in At(a, "MAC") \/ \E y \in At(b, "MAC") : x = l + y
  BY <1>1
<1>10. At(c, "RD_MAC") = {}
  BY <1>1, <1>3, <1>4
<1>11. ASSUME NEW x \in At(c, "MAC")
       PROVE  /\ c[x].t \in 0 .. n - 1 /\ c[x].ch = Chan
              /\ \E i \in 0 .. K - 1 : MulFor(m, q, g0 + c[x].t, i, c[x]) /\ (~H => Filled(c, x, FillWord(q, i)))
  <2>1. CASE x \in At(a, "MAC")
    <3>1. PICK i \in 0 .. k - 1 : MulFor(m, q, g0 + a[x].t, i, a[x]) /\ (~H => Filled(a, x, FillWord(q, i)))
      BY <1>3, <2>1
    <3>2. c[x] = a[x] /\ (~H => Filled(c, x, FillWord(q, i))) /\ i \in 0 .. K - 1
      BY <1>6, <1>7, <2>1, <3>1
    <3> QED BY <1>3, <2>1, <3>1, <3>2
  <2>2. ASSUME NEW y \in At(b, "MAC"), x = l + y
        PROVE  /\ c[x].t \in 0 .. n - 1 /\ c[x].ch = Chan
               /\ \E i \in 0 .. K - 1 : MulFor(m, q, g0 + c[x].t, i, c[x]) /\ (~H => Filled(c, x, FillWord(q, i)))
    <3>1. c[x] = b[y] /\ (~H => Filled(c, x, FillWord(q, k)))
      BY <1>4, <1>8, <2>2
    <3> QED BY <1>4, <1>6, <3>1
  <2> QED BY <1>9, <2>1, <2>2
<1>12. ASSUME NEW t \in 0 .. n - 1, NEW i \in 0 .. K - 1
       PROVE  \E x \in At(c, "MAC") : c[x].t = t /\ MulFor(m, q, g0 + t, i, c[x])
  <2>1. CASE i \in 0 .. k - 1
    <3>1. PICK x \in At(a, "MAC") : a[x].t = t /\ MulFor(m, q, g0 + t, i, a[x])
      BY <1>3, <2>1
    <3> QED BY <1>7, <3>1
  <2>2. CASE i = k
    <3>1. PICK x \in At(b, "MAC") : b[x].t = t
      BY <1>4
    <3>2. MulFor(m, q, g0 + t, i, b[x])
      BY <1>4, <2>2, <3>1
    <3> QED BY <1>8, <3>1, <3>2
  <2> QED BY <1>5, <2>1, <2>2
<1>13. ASSUME NEW x \in At(a, "MAC"), NEW y \in At(b, "MAC"), a[x].t = b[y].t, a[x].row = b[y].row PROVE FALSE
  <2> DEFINE t == b[y].t
             g == g0 + t
  <2>1. PICK i \in 0 .. k - 1 : MulFor(m, q, g0 + a[x].t, i, a[x])
    BY <1>3
  <2>2. MulFor(m, q, g, i, a[x]) /\ MulFor(m, q, g, k, b[y]) /\ t \in 0 .. n - 1
    BY <1>4, <1>13, <2>1
  <2>3. g \in 0 .. q.count - 1
    <3> HIDE DEF t
    <3> QED BY <1>2, <2>2
  <2> HIDE DEF g, t
  <2>4. RowFor(m, q, g, i) = RowFor(m, q, g, k)
    BY <1>13, <2>2 DEF MulFor
  <2>5. i # k /\ InSlice(q, i)
    BY <1>6, <2>1
  <2>6. i = k
    BY <2>3, <2>4, <2>5, RowsDiffer
  <2> QED BY <2>5, <2>6
<1>14. ASSUME NEW x \in At(c, "MAC"), NEW y \in At(c, "MAC"), c[x].t = c[y].t, c[x].row = c[y].row PROVE x = y
  <2>1. CASE x \in At(a, "MAC") /\ y \in At(a, "MAC")
    BY <1>3, <1>7, <1>14, <2>1
  <2>2. ASSUME NEW u \in At(b, "MAC"), x = l + u, NEW v \in At(b, "MAC"), y = l + v PROVE x = y
    <3>1. b[u].t = b[v].t
      BY <1>8, <1>14, <2>2
    <3>2. u = v
      BY <1>4, <3>1
    <3> QED BY <2>2, <3>2
  <2>3. ASSUME x \in At(a, "MAC"), NEW v \in At(b, "MAC"), y = l + v PROVE x = y
    <3>1. a[x].t = b[v].t /\ a[x].row = b[v].row
      BY <1>7, <1>8, <1>14, <2>3
    <3> QED BY <1>13, <2>3, <3>1
  <2>4. ASSUME y \in At(a, "MAC"), NEW v \in At(b, "MAC"), x = l + v PROVE x = y
    <3>1. a[y].t = b[v].t /\ a[y].row = b[v].row
      BY <1>7, <1>8, <1>14, <2>4
    <3> QED BY <1>13, <2>4, <3>1
  <2> QED BY <1>9, <2>1, <2>2, <2>3, <2>4
<1>15. OfChunks(m, q, n, g0, K, c)
  BY <1>10, <1>11, <1>12, <1>14 DEF OfChunks, H
<1> QED BY <1>15 DEF K, c

(* All of them.                                                             *)
LEMMA ChunksAre ==
  ASSUME NEW m, NEW q, Accepted(m, q), Placed(m), NEW nl \in {1, 2}, NEW g0 \in Nat,
         PassGroups(q, nl, g0) \in 1 .. nl, g0 + PassGroups(q, nl, g0) <= q.count
  PROVE  OfChunks(m, q, PassGroups(q, nl, g0), g0, SliceChunks(q.off, q.len), Flat(LowChunks(m, q, nl, g0)))
<1> DEFINE n == PassGroups(q, nl, g0)
           c == SliceChunks(q.off, q.len)
           r == LowChunks(m, q, nl, g0)
           S == Shape(nl)
           G == {x \in Nat \X Seq(S) : OfChunks(m, q, n, g0, x[1], x[2])}
<1>1. Planned(m) /\ PieceOf(q) /\ n \in 1 .. nl /\ n \in Nat /\ g0 + n <= q.count
  BY DEF Accepted
<1>2. c \in Nat \ {0}
  BY <1>1, PieceSlice
<1>3. ASSUME NEW i \in 1 .. c
      PROVE  LowChunk(m, q, nl, g0, i - 1) \in Seq(S) /\ OfChunk(m, q, n, g0, i - 1, LowChunk(m, q, nl, g0, i - 1))
  <2>1. InSlice(q, i - 1)
    BY <1>2 DEF InSlice
  <2>2. LowChunk(m, q, nl, g0, i - 1) \in Seq(Shape(nl))
    BY <1>1, <2>1, ChunkRunGood
  <2>3. OfChunk(m, q, PassGroups(q, nl, g0), g0, i - 1, LowChunk(m, q, nl, g0, i - 1))
    BY <1>1, <2>1, ChunkAre
  <2> QED BY <2>2, <2>3
<1>4. r = [i \in 1 .. c |-> LowChunk(m, q, nl, g0, i - 1)]
  BY DEF LowChunks
<1> HIDE DEF r, S, n, c
<1>5. r \in Seq(Seq(S)) /\ Len(r) = c
  <2> DEFINE f(i) == LowChunk(m, q, nl, g0, i - 1)
  <2>1. \A i \in 1 .. c : f(i) \in Seq(S)
    BY <1>3
  <2>2. r = [i \in 1 .. c |-> f(i)]
    BY <1>4
  <2> HIDE DEF f
  <2> QED BY <1>2, <2>1, <2>2
<1>6. <<0, <<>>>> \in G
  <2>1. OfChunks(m, q, n, g0, 0, <<>>)
    BY NothingRuns DEF OfChunks
  <2>2. <<0, <<>>>> \in Nat \X Seq(S)
    BY EmptySeq
  <2> QED BY <2>1, <2>2
<1>7. ASSUME NEW k \in 0 .. Len(r) - 1, NEW a \in Seq(S), <<k, a>> \in G
      PROVE  <<k + 1, a \o r[k + 1]>> \in G
  <2> DEFINE j == k + 1
             b == r[j]
  <2>1. j \in 1 .. c /\ j - 1 = k /\ k \in Nat /\ j \in Nat /\ k \in 0 .. c - 1
    BY <1>2, <1>5
  <2>2. InSlice(q, k)
    BY <2>1 DEF InSlice, c
  <2> HIDE DEF j
  <2>3. b = LowChunk(m, q, nl, g0, j - 1)
    BY <1>4, <2>1
  <2>4. b \in Seq(S) /\ OfChunk(m, q, n, g0, k, b)
    BY <1>3, <2>1, <2>3
  <2>5. OfChunks(m, q, n, g0, k, a)
    BY <1>7
  <2> HIDE DEF b, G
  <2>6. OfChunks(m, q, n, g0, k + 1, a \o b)
    BY <1>1, <2>2, <2>4, <2>5, ChunkMore
  <2>7. a \o b \in Seq(S)
    BY <2>4, ConcatProperties
  <2> QED BY <2>1, <2>6, <2>7 DEF G, b, j
<1>8. <<Len(r), Flat(r)>> \in G
  <2> HIDE DEF G
  <2> QED BY <1>5, <1>6, <1>7, FlatInduct
<1> QED BY <1>5, <1>8 DEF r, n, c

(* The drains of a pass: one per latch and channel, each to the word of its *)
(* group and channel.                                                       *)
TakenBy(q, g0, e, t, c) == e.op = "RD_MAC" /\ e.t = t /\ e.ch = {c} /\ e.row = Place(q, g0 + t) + c

LEMMA TakeFinal ==
  ASSUME NEW q, PieceOf(q), NEW g0 \in Nat, NEW t \in Nat
  PROVE  /\ DOMAIN Legalise(TakeOf(q, g0 + t, t)) = 1 .. Nch
         /\ \A c \in 1 .. Nch : TakenBy(q, g0, Legalise(TakeOf(q, g0 + t, t))[c], t, c - 1)
<1> DEFINE g == g0 + t
           b == TakeOf(q, g, t)
           d == Legalise(b)
<1>1. b.op = "RD_MAC" /\ b.t = t /\ b.buf = "res" /\ b.base = q.y /\ b.index = g * Nch
  BY DEF TakeOf, Blank
<1>2. Place(q, g) = VWords + q.y + g * Nch
  BY DEF Place
<1> HIDE DEF b, g
<1>3. d = [c \in 1 .. Nch |-> Final(b, c - 1, {c - 1})]
  BY <1>1 DEF Legalise
<1> HIDE DEF d
<1>4. ASSUME NEW c \in 1 .. Nch PROVE TakenBy(q, g0, d[c], t, c - 1)
  <2> DEFINE e == Final(b, c - 1, {c - 1})
  <2>1. e.op = "RD_MAC" /\ e.t = t /\ e.ch = {c - 1} /\ e.row = Resolve(b, c - 1)
    BY <1>1 DEF Final
  <2>2. Resolve(b, c - 1) = VWords + b.base + b.index + (c - 1)
    BY <1>1 DEF Resolve
  <2>3. d[c] = e
    BY <1>3
  <2> HIDE DEF e
  <2>4. d[c].row = Place(q, g) + (c - 1)
    BY <1>1, <1>2, <2>1, <2>2, <2>3
  <2> QED BY <2>1, <2>3, <2>4 DEF TakenBy, g
<1>5. DOMAIN d = 1 .. Nch
  BY <1>3
<1> QED BY <1>4, <1>5 DEF d, b, g

LEMMA TakesAre ==
  ASSUME NEW q, PieceOf(q), NEW nl \in {1, 2}, NEW g0 \in Nat, PassGroups(q, nl, g0) \in 1 .. nl
  PROVE  /\ \A x \in DOMAIN Flat(LowTakes(q, nl, g0)) :
              \E t \in 0 .. PassGroups(q, nl, g0) - 1, c \in Chan : TakenBy(q, g0, Flat(LowTakes(q, nl, g0))[x], t, c)
         /\ \A t \in 0 .. PassGroups(q, nl, g0) - 1, c \in Chan :
              \E x \in DOMAIN Flat(LowTakes(q, nl, g0)) : TakenBy(q, g0, Flat(LowTakes(q, nl, g0))[x], t, c)
<1> DEFINE n == PassGroups(q, nl, g0)
           r == LowTakes(q, nl, g0)
           T == Flat(r)
           W == {e \in Shape(nl) : \E t \in 0 .. n - 1, c \in Chan : TakenBy(q, g0, e, t, c)}
           f(k) == Legalise(TakeOf(q, g0 + (k - 1), k - 1))
<1>1. n \in 1 .. nl /\ n \in Nat
  OBVIOUS
<1>2. Nch \in Nat \ {0} /\ Chan = 0 .. Nch - 1
  BY BeatSizes, MatvecAssumption
<1>3. r = [k \in 1 .. n |-> f(k)]
  BY DEF LowTakes
<1>4. ASSUME NEW k \in 1 .. n
      PROVE  /\ DOMAIN f(k) = 1 .. Nch /\ \A c \in 1 .. Nch : TakenBy(q, g0, f(k)[c], k - 1, c - 1)
             /\ f(k) \in Seq(Shape(nl)) /\ k - 1 \in 0 .. n - 1
  <2> DEFINE t == k - 1
  <2>1. t \in Nat /\ t \in 0 .. nl - 1 /\ g0 + t \in Nat /\ t \in 0 .. n - 1
    BY <1>1
  <2> HIDE DEF t, n
  <2>2. /\ DOMAIN Legalise(TakeOf(q, g0 + t, t)) = 1 .. Nch
        /\ \A c \in 1 .. Nch : TakenBy(q, g0, Legalise(TakeOf(q, g0 + t, t))[c], t, c - 1)
    BY <2>1, TakeFinal
  <2>3. Legalise(TakeOf(q, g0 + t, t)) \in Seq(Shape(nl))
    BY <2>1, TakeEnds
  <2> QED BY <2>1, <2>2, <2>3 DEF t
<1> HIDE DEF f, r, n
<1>5. ASSUME NEW k \in 1 .. n PROVE f(k) \in Seq(W)
  <2> DEFINE d == f(k)
             S == Shape(nl)
  <2>1. d \in Seq(S) /\ DOMAIN d = 1 .. Nch /\ \A c \in 1 .. Nch : TakenBy(q, g0, d[c], k - 1, c - 1)
    BY <1>4
  <2> HIDE DEF d, S
  <2>2. ASSUME NEW c \in 1 .. Nch PROVE d[c] \in S /\ c - 1 \in Chan
    BY <1>2, <2>1
  <2>3. \A c \in 1 .. Nch : d[c] \in W
    BY <1>4, <2>1, <2>2 DEF S
  <2> HIDE DEF W
  <2>4. d \in Seq(W)
    BY <1>2, <2>1, <2>3
  <2> QED BY <2>4 DEF d
<1>6. r \in [1 .. n -> Seq(W)]
  <2> HIDE DEF W
  <2> QED BY <1>3, <1>5
<1>7. T \in Seq(W) /\ r \in Seq(Seq(W)) /\ Len(r) = n
  <2> HIDE DEF W
  <2>1. r \in Seq(Seq(W)) /\ Flat(r) \in Seq(W)
    BY <1>1, <1>6, FlatTyped
  <2>2. Len(r) = n
    BY <1>1, <1>3
  <2> QED BY <2>1, <2>2
<1>8. ASSUME NEW x \in DOMAIN T PROVE \E t \in 0 .. n - 1, c \in Chan : TakenBy(q, g0, T[x], t, c)
  <2> HIDE DEF T
  <2>1. T[x] \in W
    <3> HIDE DEF W
    <3> QED BY <1>7
  <2> QED BY <2>1
<1>9. ASSUME NEW t \in 0 .. n - 1, NEW c \in Chan PROVE \E x \in DOMAIN T : TakenBy(q, g0, T[x], t, c)
  <2> DEFINE k == t + 1
             e == c + 1
  <2>1. k \in 1 .. n /\ k - 1 = t /\ e \in 1 .. Nch /\ e - 1 = c
    BY <1>1, <1>2
  <2> HIDE DEF k, e, W
  <2>2. r[k] = f(k) /\ k \in 1 .. Len(r)
    BY <1>3, <1>7, <2>1
  <2>3. e \in DOMAIN r[k] /\ TakenBy(q, g0, r[k][e], t, c)
    BY <1>4, <2>1, <2>2
  <2>4. \E x \in DOMAIN Flat(r) : Flat(r)[x] = r[k][e]
    BY <1>7, <2>2, <2>3, FlatHas
  <2> QED BY <2>3, <2>4
<1> QED BY <1>8, <1>9 DEF n, r

--------------------
(* What a program leaves in the result words of a group: for every channel, *)
(* X being the MACs since its latch was last drained.                       *)
RightMacs(m, q, g, own, p, X) ==
  /\ \A x \in X : \E i \in 0 .. SliceChunks(q.off, q.len) - 1 :
       MulFor(m, q, g, i, p[x]) /\ (own => Filled(p, x, FillWord(q, i)))
  /\ \A i \in 0 .. SliceChunks(q.off, q.len) - 1 : \E x \in X : MulFor(m, q, g, i, p[x])
  /\ \A x, y \in X : p[x].row = p[y].row => x = y
RightGroup(m, q, g, own, p) ==
  \A c \in Chan : \E j \in At(p, "RD_MAC") :
    p[j].ch = {c} /\ p[j].row = Place(q, g) + c /\ RightMacs(m, q, g, own, p, Since(p, c, p[j].t, j - 1))

LEMMA PassRight ==
  ASSUME NEW m, NEW q, Accepted(m, q), Placed(m), NEW nl \in {1, 2}, NEW g0 \in Nat,
         PassGroups(q, nl, g0) \in 1 .. nl, g0 + PassGroups(q, nl, g0) <= q.count,
         NEW t \in 0 .. PassGroups(q, nl, g0) - 1
  PROVE  RightGroup(m, q, g0 + t, ~Hoist(q.off, q.len), LowPass(m, q, nl, g0))
<1> DEFINE n == PassGroups(q, nl, g0)
           C == Flat(LowChunks(m, q, nl, g0))
           T == Flat(LowTakes(q, nl, g0))
           p == C \o T
           S == Shape(nl)
           k == SliceChunks(q.off, q.len)
           H == Hoist(q.off, q.len)
           l == Len(C)
           g == g0 + t
<1>1. Planned(m) /\ PieceOf(q)
  BY DEF Accepted
<1>2. C \in Seq(S)
  BY <1>1, ChunksRunGood
<1>3. T \in Seq(S) /\ Settles(T, n) /\ Words(T, Place(q, g0), Place(q, g0 + n))
  BY <1>1, TakesRunGood
<1>4. OfChunks(m, q, n, g0, k, C)
  BY ChunksAre
<1>5. /\ \A x \in DOMAIN T : \E u \in 0 .. n - 1, c \in Chan : TakenBy(q, g0, T[x], u, c)
      /\ \A u \in 0 .. n - 1, c \in Chan : \E x \in DOMAIN T : TakenBy(q, g0, T[x], u, c)
  BY <1>1, TakesAre
<1>6. LowPass(m, q, nl, g0) = p
  BY DEF LowPass
<1>7. t \in 0 .. n - 1
  OBVIOUS
<1> HIDE DEF n, C, T, S, k
<1>8. Spliced(C, l, T, p)
  BY <1>2, <1>3, AtConcat
<1> USE DEF Spliced
<1>9. l \in Nat /\ DOMAIN C = 1 .. l /\ DOMAIN T = 1 .. Len(T)
  BY <1>2, <1>3
<1>10. /\ At(C, "RD_MAC") = {}
       /\ \A x \in At(C, "MAC") :
            /\ C[x].t \in 0 .. n - 1 /\ C[x].ch = Chan
            /\ \E i \in 0 .. k - 1 : MulFor(m, q, g0 + C[x].t, i, C[x]) /\ (~H => Filled(C, x, FillWord(q, i)))
       /\ \A u \in 0 .. n - 1, i \in 0 .. k - 1 : \E x \in At(C, "MAC") : C[x].t = u /\ MulFor(m, q, g0 + u, i, C[x])
       /\ \A x, y \in At(C, "MAC") : C[x].t = C[y].t /\ C[x].row = C[y].row => x = y
  BY <1>4 DEF OfChunks
<1>11. At(T, "MAC") = {}
  BY <1>3 DEF Settles
<1>12. \A x \in DOMAIN T : x \in At(T, "RD_MAC")
  BY <1>5 DEF TakenBy, At
<1>13. \A x, y \in At(T, "RD_MAC") : T[x].row = T[y].row => x = y
  BY <1>3 DEF Words
<1> HIDE DEF H, l, p, g
<1> SUFFICES ASSUME NEW c \in Chan
             PROVE  \E j \in At(p, "RD_MAC") : /\ p[j].ch = {c} /\ p[j].row = Place(q, g) + c
                                               /\ RightMacs(m, q, g, ~H, p, Since(p, c, p[j].t, j - 1))
  BY <1>6 DEF RightGroup, H, g
<1>14. PICK d \in DOMAIN T : TakenBy(q, g0, T[d], t, c)
  BY <1>5, <1>7
<1> DEFINE J == l + d
           X == Since(p, c, t, J - 1)
<1>15. J \in At(p, "RD_MAC") /\ p[J] = T[d] /\ d \in 1 .. Len(T)
  BY <1>8, <1>9, <1>12, <1>14
<1>16. p[J].ch = {c} /\ p[J].row = Place(q, g) + c /\ p[J].t = t
  BY <1>14, <1>15 DEF TakenBy, g
<1>17. ASSUME NEW x \in X PROVE x \in At(C, "MAC") /\ p[x] = C[x] /\ C[x].t = t
  <2>1. x \in At(p, "MAC") /\ p[x].t = t
    BY DEF Since
  <2>2. x \in At(C, "MAC")
    BY <1>8, <1>11, <2>1
  <2> QED BY <1>8, <2>1, <2>2
<1>18. ASSUME NEW x \in At(C, "MAC"), C[x].t = t PROVE x \in X
  <2>4. x \in At(p, "MAC") /\ x \in DOMAIN C /\ p[x] = C[x]
    BY <1>8, <1>18
  <2>1. x \in At(p, "MAC") /\ p[x].t = t /\ p[x].ch = Chan /\ x \in 1 .. l
    BY <1>9, <1>10, <1>18, <2>4
  <2>2. x <= J - 1
    BY <1>9, <1>15, <2>1
  <2>3. ASSUME NEW y \in 1 .. J - 1, Clears(p, y, t, c) PROVE FALSE
    <3>1. y \in At(p, "RD_MAC") /\ p[y].t = t /\ c \in p[y].ch
      BY <2>3 DEF Clears
    <3>2. PICK z \in At(T, "RD_MAC") : y = l + z
      BY <1>8, <1>10, <3>1
    <3>3. z \in DOMAIN T /\ p[y] = T[z]
      BY <1>8, <3>2
    <3>4. PICK u \in 0 .. n - 1, e \in Chan : TakenBy(q, g0, T[z], u, e)
      BY <1>5, <3>3
    <3>5. u = t /\ e = c
      BY <3>1, <3>3, <3>4 DEF TakenBy
    <3>6. T[z].row = T[d].row
      BY <1>14, <3>4, <3>5 DEF TakenBy
    <3>7. z = d
      BY <1>12, <1>13, <3>2, <3>6
    <3> QED BY <1>9, <1>15, <2>3, <3>2, <3>7
  <2> QED BY <2>1, <2>2, <2>3 DEF Since
<1> HIDE DEF J, X
<1>19. ASSUME NEW x \in X
       PROVE  \E i \in 0 .. k - 1 : MulFor(m, q, g, i, p[x]) /\ (~H => Filled(p, x, FillWord(q, i)))
  <2>1. x \in At(C, "MAC") /\ p[x] = C[x] /\ C[x].t = t /\ x \in DOMAIN C
    BY <1>8, <1>17
  <2>2. PICK i \in 0 .. k - 1 : MulFor(m, q, g0 + C[x].t, i, C[x]) /\ (~H => Filled(C, x, FillWord(q, i)))
    BY <1>10, <2>1
  <2>3. ASSUME ~H PROVE Filled(p, x, FillWord(q, i))
    <3> DEFINE w == FillWord(q, i)
    <3>1. Filled(C, x, w)
      BY <2>2, <2>3
    <3> HIDE DEF w
    <3>2. Filled(C \o T, x, w)
      BY <1>2, <1>3, <2>1, <3>1, FilledStays
    <3> QED BY <3>2 DEF p, w
  <2> QED BY <2>1, <2>2, <2>3 DEF g
<1>20. ASSUME NEW i \in 0 .. k - 1 PROVE \E x \in X : MulFor(m, q, g, i, p[x])
  <2>1. PICK x \in At(C, "MAC") : C[x].t = t /\ MulFor(m, q, g0 + t, i, C[x])
    BY <1>7, <1>10
  <2>2. x \in X /\ p[x] = C[x]
    BY <1>17, <1>18, <2>1
  <2> QED BY <2>1, <2>2 DEF g
<1>21. ASSUME NEW x \in X, NEW y \in X, p[x].row = p[y].row PROVE x = y
  BY <1>10, <1>17, <1>21
<1>22. RightMacs(m, q, g, ~H, p, X)
  BY <1>19, <1>20, <1>21 DEF RightMacs, k
<1> QED BY <1>15, <1>16, <1>22 DEF X

(* What a latch collects does not change when more is put behind, nor when  *)
(* a program is put before that leaves the latches empty.                   *)
LEMMA SinceLeft ==
  ASSUME NEW S, NEW a \in Seq(S), NEW b \in Seq(S), NEW c, NEW t, NEW r \in 0 .. Len(a)
  PROVE  Since(a \o b, c, t, r) = Since(a, c, t, r)
<1> DEFINE p == a \o b
           l == Len(a)
<1>1. Spliced(a, l, b, p)
  BY AtConcat
<1> USE DEF Spliced
<1>2. l \in Nat /\ r \in Nat /\ r <= l
  OBVIOUS
<1>3. \A op : (\A j \in At(b, op) : j \in Nat \ {0}) /\ \A i \in At(a, op) : i \in 1 .. l
  BY DEF At
<1> HIDE DEF p, l
<1>4. ASSUME NEW op, NEW i PROVE i \in At(p, op) /\ i <= r <=> i \in At(a, op) /\ i <= r
  <2>1. ASSUME i \in At(p, op), i <= r PROVE i \in At(a, op)
    <3>1. ~ \E j \in At(b, op) : i = l + j
      BY <1>2, <1>3, <2>1
    <3> QED BY <1>1, <2>1, <3>1
  <2> QED BY <1>1, <2>1
<1>5. ASSUME NEW k \in 1 .. r PROVE Clears(p, k, t, c) <=> Clears(a, k, t, c)
  <2>1. k \in At(p, "RD_MAC") <=> k \in At(a, "RD_MAC")
    BY <1>4
  <2>2. k \in At(a, "RD_MAC") => p[k] = a[k]
    BY <1>1
  <2> QED BY <2>1, <2>2 DEF Clears
<1>6. ASSUME NEW i PROVE i \in Since(p, c, t, r) <=> i \in Since(a, c, t, r)
  <2>1. i \in At(p, "MAC") /\ i <= r <=> i \in At(a, "MAC") /\ i <= r
    BY <1>4
  <2>2. i \in At(a, "MAC") => p[i] = a[i]
    BY <1>1
  <2>3. (\E k \in 1 .. r : i < k /\ Clears(p, k, t, c)) <=> \E k \in 1 .. r : i < k /\ Clears(a, k, t, c)
    BY <1>5
  <2> QED BY <2>1, <2>2, <2>3 DEF Since
<1> QED BY <1>6 DEF p

LEMMA SinceRight ==
  ASSUME NEW S, NEW a \in Seq(S), NEW b \in Seq(S), Paid(a), NEW c \in Chan, NEW t, NEW r \in 0 .. Len(b)
  PROVE  /\ \A x \in Since(b, c, t, r) : Len(a) + x \in Since(a \o b, c, t, Len(a) + r)
         /\ \A y \in Since(a \o b, c, t, Len(a) + r) : \E x \in Since(b, c, t, r) : y = Len(a) + x
<1> DEFINE p == a \o b
           l == Len(a)
           s0 == l + r
<1>1. Spliced(a, l, b, p)
  BY AtConcat
<1> USE DEF Spliced
<1>2. l \in Nat /\ r \in Nat /\ s0 \in Nat /\ s0 = l + r
  OBVIOUS
<1>3. \A op : (\A j \in At(b, op) : j \in Nat \ {0}) /\ \A i \in At(a, op) : i \in 1 .. l
  BY DEF At
<1>4. \A i \in DOMAIN a : a[i].op = "RD_MAC" => i \in At(a, "RD_MAC")
  BY DEF At
<1> HIDE DEF p, l, s0
<1>5. ASSUME NEW x \in Since(b, c, t, r) PROVE l + x \in Since(p, c, t, s0)
  <2>1. /\ x \in At(b, "MAC") /\ x <= r /\ b[x].t = t /\ c \in b[x].ch
        /\ ~\E k \in 1 .. r : x < k /\ Clears(b, k, t, c)
    BY DEF Since
  <2>2. x \in Nat \ {0} /\ l + x \in At(p, "MAC") /\ p[l + x] = b[x]
    BY <1>1, <1>3, <2>1
  <2>3. l + x <= s0
    BY <1>2, <2>1, <2>2
  <2>4. ASSUME NEW k \in 1 .. s0, l + x < k, Clears(p, k, t, c) PROVE FALSE
    <3>1. k \in At(p, "RD_MAC") /\ p[k].t = t /\ c \in p[k].ch
      BY <2>4 DEF Clears
    <3>2. k \notin At(a, "RD_MAC")
      <4>1. k \in At(a, "RD_MAC") => k \in 1 .. l
        BY <1>3
      <4> QED BY <1>2, <2>2, <2>4, <4>1
    <3>3. PICK j \in At(b, "RD_MAC") : k = l + j
      BY <1>1, <3>1, <3>2
    <3>4. p[k] = b[j] /\ j \in Nat \ {0}
      BY <1>1, <1>3, <3>3
    <3>5. Clears(b, j, t, c)
      BY <3>1, <3>3, <3>4 DEF Clears
    <3>6. j \in 1 .. r /\ x < j
      BY <1>2, <2>2, <2>4, <3>3, <3>4
    <3> QED BY <2>1, <3>5, <3>6
  <2> QED BY <2>1, <2>2, <2>3, <2>4 DEF Since
<1>6. ASSUME NEW y \in Since(p, c, t, s0) PROVE \E x \in Since(b, c, t, r) : y = l + x
  <2>1. /\ y \in At(p, "MAC") /\ y <= s0 /\ p[y].t = t /\ c \in p[y].ch
        /\ ~\E k \in 1 .. s0 : y < k /\ Clears(p, k, t, c)
    BY DEF Since
  <2>2. ASSUME y \in At(a, "MAC") PROVE FALSE
    <3>1. PICK j \in DOMAIN a : j > y /\ Drains(a, j, a[y].t, c)
      BY <2>2 DEF Paid
    <3>2. p[y] = a[y] /\ y \in 1 .. l
      BY <1>1, <1>3, <2>2
    <3>3. j \in At(a, "RD_MAC") /\ a[j].t = t /\ a[j].ch = {c}
      BY <1>4, <2>1, <3>1, <3>2 DEF Drains
    <3>4. j \in At(p, "RD_MAC") /\ p[j] = a[j] /\ j \in 1 .. l
      BY <1>1, <1>3, <3>3
    <3>5. Clears(p, j, t, c)
      BY <3>3, <3>4 DEF Clears
    <3>6. j \in 1 .. s0 /\ y < j
      BY <1>2, <3>1, <3>2, <3>4
    <3> QED BY <2>1, <3>5, <3>6
  <2>3. PICK x \in At(b, "MAC") : y = l + x
    BY <1>1, <2>1, <2>2
  <2>4. p[y] = b[x] /\ x \in Nat \ {0}
    BY <1>1, <1>3, <2>3
  <2>5. x <= r
    BY <1>2, <2>1, <2>3, <2>4
  <2>6. ASSUME NEW k \in 1 .. r, x < k, Clears(b, k, t, c) PROVE FALSE
    <3>1. k \in At(b, "RD_MAC") /\ b[k].t = t /\ c \in b[k].ch
      BY <2>6 DEF Clears
    <3>2. l + k \in At(p, "RD_MAC") /\ p[l + k] = b[k]
      BY <1>1, <3>1
    <3>3. Clears(p, l + k, t, c)
      BY <3>1, <3>2 DEF Clears
    <3>4. l + k \in 1 .. s0 /\ y < l + k
      BY <1>2, <2>3, <2>4, <2>6
    <3> QED BY <2>1, <3>3, <3>4
  <2>7. x \in Since(b, c, t, r)
    BY <2>1, <2>3, <2>4, <2>5, <2>6 DEF Since
  <2> QED BY <2>3, <2>7
<1> QED BY <1>5, <1>6 DEF p, l, s0

(* So a group stays right.                                                  *)
LEMMA RightStays ==
  ASSUME NEW m, NEW q, NEW g, NEW S, NEW a \in Seq(S), NEW b \in Seq(S), RightGroup(m, q, g, TRUE, a)
  PROVE  RightGroup(m, q, g, TRUE, a \o b)
<1> DEFINE p == a \o b
           l == Len(a)
           k == SliceChunks(q.off, q.len)
<1>1. \A op : \A i \in At(a, op) : i \in At(p, op) /\ i \in DOMAIN a /\ p[i] = a[i]
  BY AtConcat DEF Spliced
<1>2. l \in Nat /\ DOMAIN a = 1 .. l
  OBVIOUS
<1> HIDE DEF p, l, k
<1> SUFFICES ASSUME NEW c \in Chan
             PROVE  \E j \in At(p, "RD_MAC") : /\ p[j].ch = {c} /\ p[j].row = Place(q, g) + c
                                               /\ RightMacs(m, q, g, TRUE, p, Since(p, c, p[j].t, j - 1))
  BY DEF RightGroup, p
<1>3. PICK j \in At(a, "RD_MAC") : a[j].ch = {c} /\ a[j].row = Place(q, g) + c
                                   /\ RightMacs(m, q, g, TRUE, a, Since(a, c, a[j].t, j - 1))
  BY DEF RightGroup
<1>4. j \in At(p, "RD_MAC") /\ p[j] = a[j] /\ j \in 1 .. l
  BY <1>1, <1>2, <1>3
<1> DEFINE t == a[j].t
           r == j - 1
           X == Since(a, c, t, r)
<1>5. r \in 0 .. Len(a)
  BY <1>2, <1>4 DEF l
<1>6. p[j].t = t
  BY <1>4
<1>7. \A x \in X : x \in At(a, "MAC")
  BY DEF Since
<1>8. RightMacs(m, q, g, TRUE, a, X)
  BY <1>3
<1> HIDE DEF t, r, X
<1>9. Since(p, c, t, r) = X
  BY <1>5, SinceLeft DEF p, X
<1>10. \A x \in X : p[x] = a[x] /\ x \in DOMAIN a
  BY <1>1, <1>7
<1>11. /\ \A x \in X : \E i \in 0 .. k - 1 : MulFor(m, q, g, i, a[x]) /\ Filled(a, x, FillWord(q, i))
       /\ \A i \in 0 .. k - 1 : \E x \in X : MulFor(m, q, g, i, a[x])
       /\ \A x, y \in X : a[x].row = a[y].row => x = y
  BY <1>8 DEF RightMacs, k
<1>12. ASSUME NEW x \in X PROVE \E i \in 0 .. k - 1 : MulFor(m, q, g, i, p[x]) /\ Filled(p, x, FillWord(q, i))
  <2>1. PICK i \in 0 .. k - 1 : MulFor(m, q, g, i, a[x]) /\ Filled(a, x, FillWord(q, i))
    BY <1>11
  <2> DEFINE w == FillWord(q, i)
  <2>2. Filled(a, x, w) /\ x \in DOMAIN a
    BY <1>10, <2>1
  <2> HIDE DEF w
  <2>3. Filled(a \o b, x, w)
    BY <2>2, FilledStays
  <2> QED BY <1>10, <2>1, <2>3 DEF p, w
<1>13. RightMacs(m, q, g, TRUE, p, X)
  BY <1>10, <1>11, <1>12 DEF RightMacs, k
<1> QED BY <1>3, <1>4, <1>6, <1>9, <1>13 DEF r, t

LEMMA RightBehind ==
  ASSUME NEW m, NEW q, NEW g, NEW own \in BOOLEAN, NEW S, NEW a \in Seq(S), NEW b \in Seq(S),
         Paid(a), RightGroup(m, q, g, own, b),
         own \/ (Hoist(q.off, q.len) /\ Loaded(a, FillWord(q, 0)) /\ At(b, "WRVEC") = {})
  PROVE  RightGroup(m, q, g, TRUE, a \o b)
<1> DEFINE p == a \o b
           l == Len(a)
           k == SliceChunks(q.off, q.len)
<1>1. \A op : \A j \in At(b, op) : l + j \in At(p, op) /\ j \in DOMAIN b /\ p[l + j] = b[j]
  BY AtConcat DEF Spliced
<1>2. l \in Nat /\ DOMAIN b = 1 .. Len(b) /\ Len(b) \in Nat
  OBVIOUS
<1>3. Hoist(q.off, q.len) => k = 1
  BY DEF Hoist
<1> HIDE DEF p, l, k
<1> SUFFICES ASSUME NEW c \in Chan
             PROVE  \E j \in At(p, "RD_MAC") : /\ p[j].ch = {c} /\ p[j].row = Place(q, g) + c
                                               /\ RightMacs(m, q, g, TRUE, p, Since(p, c, p[j].t, j - 1))
  BY DEF RightGroup, p
<1>4. PICK j \in At(b, "RD_MAC") : b[j].ch = {c} /\ b[j].row = Place(q, g) + c
                                   /\ RightMacs(m, q, g, own, b, Since(b, c, b[j].t, j - 1))
  BY DEF RightGroup
<1>5. l + j \in At(p, "RD_MAC") /\ p[l + j] = b[j] /\ j \in 1 .. Len(b)
  BY <1>1, <1>2, <1>4
<1> DEFINE t == b[j].t
           r == j - 1
           X == Since(b, c, t, r)
           Y == Since(p, c, t, l + r)
<1>6. r \in 0 .. Len(b) /\ l + r = (l + j) - 1
  BY <1>2, <1>5
<1>7. p[l + j].t = t
  BY <1>5
<1>8. \A x \in X : x \in At(b, "MAC")
  BY DEF Since
<1>9. RightMacs(m, q, g, own, b, X)
  BY <1>4
<1> HIDE DEF t, r
<1>10. (\A x \in X : l + x \in Y) /\ \A y \in Y : \E x \in X : y = l + x
  BY <1>6, SinceRight DEF p, l
<1> HIDE DEF X, Y
<1>11. \A x \in X : p[l + x] = b[x] /\ x \in DOMAIN b
  BY <1>1, <1>8
<1>12. /\ \A x \in X : \E i \in 0 .. k - 1 : MulFor(m, q, g, i, b[x]) /\ (own => Filled(b, x, FillWord(q, i)))
       /\ \A i \in 0 .. k - 1 : \E x \in X : MulFor(m, q, g, i, b[x])
       /\ \A x, y \in X : b[x].row = b[y].row => x = y
  BY <1>9 DEF RightMacs, k
<1>13. ASSUME NEW y \in Y PROVE \E i \in 0 .. k - 1 : MulFor(m, q, g, i, p[y]) /\ Filled(p, y, FillWord(q, i))
  <2>1. PICK x \in X : y = l + x
    BY <1>10
  <2>2. PICK i \in 0 .. k - 1 : MulFor(m, q, g, i, b[x]) /\ (own => Filled(b, x, FillWord(q, i)))
    BY <1>12
  <2> DEFINE w == FillWord(q, i)
  <2>3. x \in DOMAIN b /\ p[y] = b[x]
    BY <1>11, <2>1
  <2>4. CASE own
    <3>1. Filled(b, x, w)
      BY <2>2, <2>4
    <3> HIDE DEF w
    <3>2. Filled(a \o b, Len(a) + x, w)
      BY <2>3, <3>1, FilledBehind
    <3> QED BY <2>1, <2>2, <2>3, <3>2 DEF p, l, w
  <2>5. CASE ~own
    <3>1. i = 0
      BY <1>3, <2>5
    <3>2. Loaded(a, w) /\ At(b, "WRVEC") = {}
      BY <2>5, <3>1
    <3> HIDE DEF w
    <3>3. Filled(a \o b, Len(a) + x, w)
      BY <2>3, <3>2, FilledFrom
    <3> QED BY <2>1, <2>2, <2>3, <3>3 DEF p, l, w
  <2> QED BY <2>4, <2>5
<1>14. ASSUME NEW i \in 0 .. k - 1 PROVE \E y \in Y : MulFor(m, q, g, i, p[y])
  <2>1. PICK x \in X : MulFor(m, q, g, i, b[x])
    BY <1>12
  <2>2. l + x \in Y /\ p[l + x] = b[x]
    BY <1>10, <1>11
  <2> QED BY <2>1, <2>2
<1>15. ASSUME NEW y \in Y, NEW z \in Y, p[y].row = p[z].row PROVE y = z
  <2>1. PICK x \in X : y = l + x
    BY <1>10
  <2>2. PICK u \in X : z = l + u
    BY <1>10
  <2>3. x = u
    BY <1>11, <1>12, <1>15, <2>1, <2>2
  <2> QED BY <2>1, <2>2, <2>3
<1>16. RightMacs(m, q, g, TRUE, p, Y)
  BY <1>13, <1>14, <1>15 DEF RightMacs, k
<1>17. RightMacs(m, q, g, TRUE, p, Since(p, c, p[l + j].t, (l + j) - 1))
  BY <1>6, <1>7, <1>16 DEF Y
<1> QED BY <1>4, <1>5, <1>17

Served(m, q, p) == \A g \in 0 .. q.count - 1 : RightGroup(m, q, g, TRUE, p)

(* What the passes of a piece so far give, behind its hoisted load.         *)
PassesServe(m, q, nl, k, p) ==
  /\ Paid(p)
  /\ Hoist(q.off, q.len) => Loaded(p, FillWord(q, 0))
  /\ \A g \in 0 .. q.count - 1 : g < k * nl => RightGroup(m, q, g, TRUE, p)

LEMMA PassServes ==
  ASSUME NEW m, NEW q, Accepted(m, q), Placed(m), NEW nl \in {1, 2}, NEW k \in 0 .. Passes(q, nl) - 1,
         NEW a \in Seq(Shape(nl)), PassesServe(m, q, nl, k, a)
  PROVE  PassesServe(m, q, nl, k + 1, a \o LowPass(m, q, nl, k * nl))
<1> DEFINE g0 == k * nl
           b == LowPass(m, q, nl, g0)
           n == PassGroups(q, nl, g0)
           S == Shape(nl)
           H == Hoist(q.off, q.len)
           w == FillWord(q, 0)
           x == a \o b
<1>1. Planned(m) /\ PieceOf(q) /\ q.count \in Nat
  BY DEF Accepted, PieceOf
<1>2. g0 \in Nat /\ n \in 1 .. nl /\ g0 + n <= q.count
  BY <1>1, GroupsIs
<1>3. n = Least(nl, q.count - g0)
  BY DEF PassGroups
<1>4. (k + 1) * nl = g0 + nl
  <2>1. k \in Nat
    <3>1. Passes(q, nl) \in Nat
      BY <1>1, PassesPositive
    <3> QED BY <3>1
  <2> QED BY <2>1
<1> HIDE DEF g0
<1>5. b \in Seq(Shape(nl)) /\ FedRun(q, b) /\ Paid(b)
  BY <1>1, <1>2, PassGood
<1>6. H => At(b, "WRVEC") = {}
  BY <1>5 DEF FedRun, Sized
<1>7. ASSUME NEW t \in 0 .. n - 1 PROVE RightGroup(m, q, g0 + t, ~H, b)
  BY <1>2, PassRight
<1>8. Paid(a) /\ (H => Loaded(a, w)) /\ \A g \in 0 .. q.count - 1 : g < g0 => RightGroup(m, q, g, TRUE, a)
  <2>1. Paid(a) /\ (H => Loaded(a, w))
    BY Zenon DEF PassesServe
  <2>2. \A g \in 0 .. q.count - 1 : g < g0 => RightGroup(m, q, g, TRUE, a)
    BY Zenon DEF PassesServe, g0
  <2> QED BY <2>1, <2>2
<1>9. a \in Seq(S) /\ b \in Seq(S)
  BY <1>5
<1> HIDE DEF b, S, w
<1>10. Paid(a \o b)
  BY <1>5, <1>8, <1>9, PaidConcat
<1>11. H => Loaded(a \o b, w)
  BY <1>6, <1>8, <1>9, LoadedStays
<1>12. ASSUME NEW g \in 0 .. q.count - 1, g < g0 + nl PROVE RightGroup(m, q, g, TRUE, a \o b)
  <2>1. CASE g < g0
    <3>1. RightGroup(m, q, g, TRUE, a)
      BY <1>8, <2>1
    <3> QED BY <1>9, <3>1, RightStays
  <2>2. CASE ~(g < g0)
    <3> DEFINE t == g - g0
    <3>1. t \in 0 .. n - 1 /\ g = g0 + t
      <4>1. t \in Nat /\ t < nl /\ t < q.count - g0
        BY <1>1, <1>2, <1>12, <2>2
      <4>2. n = nl \/ n = q.count - g0
        BY <1>3 DEF Least
      <4> QED BY <1>1, <1>2, <4>1, <4>2
    <3>2. RightGroup(m, q, g0 + t, ~H, b)
      BY <1>7, <3>1
    <3> DEFINE own == ~H
    <3>3. RightGroup(m, q, g, own, b) /\ own \in BOOLEAN
      BY <3>1, <3>2
    <3>4. own \/ (Hoist(q.off, q.len) /\ Loaded(a, FillWord(q, 0)) /\ At(b, "WRVEC") = {})
      BY <1>6, <1>8 DEF w
    <3> HIDE DEF own, t, H
    <3>5. RightGroup(m, q, g, TRUE, a \o b)
      BY <1>8, <1>9, <3>3, <3>4, RightBehind
    <3> QED BY <3>5
  <2> QED BY <2>1, <2>2
<1>13. PassesServe(m, q, nl, k + 1, a \o b)
  BY <1>4, <1>10, <1>11, <1>12 DEF PassesServe, w
<1> QED BY <1>13 DEF b, g0

LEMMA HoistServes ==
  ASSUME NEW m, NEW q, PieceOf(q), NEW nl \in {1, 2}
  PROVE  LowHoisted(q) \in Seq(Shape(nl)) /\ PassesServe(m, q, nl, 0, LowHoisted(q))
<1> DEFINE h == LowHoisted(q)
<1>1. InSlice(q, 0)
  BY PieceSlice
<1>2. PICK e \in Shape(nl) : Legalise(FillOf(q, 0)) = <<e>> /\ e.op = "WRVEC" /\ e.row = FillWord(q, 0)
  BY <1>1, FillFinal
<1>3. CASE Hoist(q.off, q.len)
  <2>1. h = <<e>>
    BY <1>2, <1>3 DEF LowHoisted
  <2> HIDE DEF h
  <2>2. h \in Seq(Shape(nl)) /\ DOMAIN h = {1} /\ h[1] = e
    BY <1>2, <2>1
  <2>3. At(h, "WRVEC") = {1} /\ At(h, "MAC") = {}
    BY <1>2, <2>2 DEF At
  <2>4. Loaded(h, FillWord(q, 0))
    BY <1>2, <2>2, <2>3 DEF Loaded
  <2>5. Paid(h)
    BY <2>3 DEF Paid
  <2>6. \A g \in 0 .. q.count - 1 : ~(g < 0 * nl)
    OBVIOUS
  <2>7. PassesServe(m, q, nl, 0, h)
    BY <2>4, <2>5, <2>6 DEF PassesServe
  <2> QED BY <2>2, <2>7 DEF h
<1>4. CASE ~Hoist(q.off, q.len)
  <2>1. h = <<>>
    BY <1>4 DEF LowHoisted
  <2>2. \A g \in 0 .. q.count - 1 : ~(g < 0 * nl)
    OBVIOUS
  <2>3. Paid(<<>>) /\ <<>> \in Seq(Shape(nl))
    BY NothingRuns, EmptySeq
  <2> HIDE DEF h
  <2>4. PassesServe(m, q, nl, 0, h)
    BY <1>4, <2>1, <2>2, <2>3 DEF PassesServe
  <2> QED BY <2>1, <2>3, <2>4 DEF h
<1> QED BY <1>3, <1>4

LEMMA PartServes ==
  ASSUME NEW m, NEW q, Accepted(m, q), Placed(m), NEW nl \in {1, 2}
  PROVE  Served(m, q, LowPart(m, q, nl))
<1> DEFINE h == LowHoisted(q)
           n == Passes(q, nl)
           r == LowPasses(m, q, nl)
           S == Shape(nl)
           G == {x \in Nat \X Seq(S) : PassesServe(m, q, nl, x[1], h \o x[2])}
<1>1. Planned(m) /\ PieceOf(q) /\ q.count \in Nat
  BY DEF Accepted, PieceOf
<1>2. n \in Nat \ {0}
  BY <1>1, PassesPositive
<1>3. h \in Seq(S) /\ PassesServe(m, q, nl, 0, h)
  BY <1>1, HoistServes
<1>4. r = [k \in 1 .. n |-> LowPass(m, q, nl, (k - 1) * nl)]
  BY DEF LowPasses
<1>5. ASSUME NEW k \in 1 .. n PROVE LowPass(m, q, nl, (k - 1) * nl) \in Seq(S)
  <2> DEFINE j == k - 1
             g0 == j * nl
  <2>1. j \in 0 .. Passes(q, nl) - 1
    BY <1>2
  <2> HIDE DEF j
  <2>2. g0 \in Nat /\ PassGroups(q, nl, g0) \in 1 .. nl
    BY <1>1, <2>1, GroupsIs
  <2> HIDE DEF g0
  <2>3. LowPass(m, q, nl, g0) \in Seq(Shape(nl))
    BY <1>1, <2>2, PassGood
  <2> QED BY <2>3 DEF g0, j
<1> HIDE DEF r, S, n, h
<1>6. r \in Seq(Seq(S)) /\ Len(r) = n
  <2> DEFINE f(k) == LowPass(m, q, nl, (k - 1) * nl)
  <2>1. \A k \in 1 .. n : f(k) \in Seq(S)
    BY <1>5
  <2>2. r = [k \in 1 .. n |-> f(k)]
    BY <1>4
  <2> HIDE DEF f
  <2> QED BY <1>2, <2>1, <2>2
<1>7. <<0, <<>>>> \in G
  <2>1. h \o <<>> = h
    BY <1>3, ConcatEmptySeq
  <2>2. <<0, <<>>>> \in Nat \X Seq(S)
    BY EmptySeq
  <2> QED BY <1>3, <2>1, <2>2
<1>8. ASSUME NEW k \in 0 .. Len(r) - 1, NEW a \in Seq(S), <<k, a>> \in G
      PROVE  <<k + 1, a \o r[k + 1]>> \in G
  <2> DEFINE j == k + 1
             b == r[j]
             y == h \o a
             g0 == k * nl
  <2>1. j \in 1 .. n /\ j - 1 = k /\ k \in Nat /\ j \in Nat /\ k \in 0 .. n - 1
    BY <1>2, <1>6
  <2> HIDE DEF j, g0
  <2>2. b = LowPass(m, q, nl, g0)
    BY <1>4, <2>1 DEF g0
  <2>3. b \in Seq(S)
    BY <1>6, <2>1
  <2>4. PassesServe(m, q, nl, k, h \o a)
    BY <1>8
  <2>5. y \in Seq(S)
    BY <1>3, ConcatProperties
  <2> HIDE DEF b, G, y
  <2>6. PassesServe(m, q, nl, k + 1, y \o b)
    <3>1. k \in 0 .. Passes(q, nl) - 1 /\ y \in Seq(Shape(nl)) /\ PassesServe(m, q, nl, k, y)
      BY <2>1, <2>4, <2>5 DEF n, S, y
    <3>2. PassesServe(m, q, nl, k + 1, y \o LowPass(m, q, nl, k * nl))
      BY <3>1, PassServes
    <3> QED BY <2>2, <3>2 DEF g0
  <2>7. y \o b = h \o (a \o b)
    <3>1. Regroup(h, a, b)
      BY <1>3, <2>3, Regrouped
    <3> QED BY <3>1 DEF Regroup, y
  <2>8. a \o b \in Seq(S)
    BY <2>3, ConcatProperties
  <2>9. PassesServe(m, q, nl, k + 1, h \o (a \o b))
    BY <2>6, <2>7
  <2> DEFINE z == a \o b
  <2> HIDE DEF z
  <2>10. <<j, z>> \in G
    BY <2>1, <2>8, <2>9 DEF G, j, z
  <2> QED BY <2>10 DEF b, j, z
<1>9. <<Len(r), Flat(r)>> \in G
  <2> HIDE DEF G
  <2> QED BY <1>6, <1>7, <1>8, FlatInduct
<1>10. PassesServe(m, q, nl, n, h \o Flat(r))
  BY <1>6, <1>9
<1>11. q.count <= nl * n
  BY <1>1, Ceil DEF n, Passes
<1>12. \A g \in 0 .. q.count - 1 : g < n * nl
  <2>1. n * nl = nl * n /\ nl * n \in Nat
    BY <1>2
  <2> QED BY <1>1, <1>11, <2>1
<1>13. LowPart(m, q, nl) = h \o Flat(r)
  BY DEF LowPart, h, r
<1> QED BY <1>10, <1>12, <1>13 DEF PassesServe, Served

LEMMA ServedStays ==
  ASSUME NEW m, NEW q, NEW S, NEW a \in Seq(S), NEW b \in Seq(S), Served(m, q, a)
  PROVE  Served(m, q, a \o b)
<1> SUFFICES ASSUME NEW g \in 0 .. q.count - 1 PROVE RightGroup(m, q, g, TRUE, a \o b)
  BY DEF Served
<1>1. RightGroup(m, q, g, TRUE, a)
  BY DEF Served
<1> QED BY <1>1, RightStays

LEMMA ServedBehind ==
  ASSUME NEW m, NEW q, NEW S, NEW a \in Seq(S), NEW b \in Seq(S), Paid(a), Served(m, q, b)
  PROVE  Served(m, q, a \o b)
<1> SUFFICES ASSUME NEW g \in 0 .. q.count - 1 PROVE RightGroup(m, q, g, TRUE, a \o b)
  BY DEF Served
<1> DEFINE own == TRUE
<1>1. RightGroup(m, q, g, own, b) /\ own \in BOOLEAN
  BY DEF Served
<1>2. own \/ (Hoist(q.off, q.len) /\ Loaded(a, FillWord(q, 0)) /\ At(b, "WRVEC") = {})
  OBVIOUS
<1> HIDE DEF own
<1> QED BY <1>1, <1>2, RightBehind

(* A piece of the stack, the k-th, is served by the program x from the      *)
(* vector buffer y: its own words hold its vector.                          *)
InBuffer(q, k, y) ==
  \A w \in q.v .. q.v + Beats(q.off, q.len) - 1 :
    y[w] = [l \in 0 .. Epb - 1 |-> VecElem(k, q.len, (w - q.v) * Epb + l)]
PieceServed(q, k, x, y) ==
  /\ Accepted(Matrix, q) /\ q.off \in Offsets /\ Served(Matrix, q, x)
  /\ q.v + Beats(q.off, q.len) <= VWords /\ InBuffer(q, k, y)

ServeInv ==
  author = "parts" /\ Placed(Matrix) =>
    /\ DOMAIN vec = 0 .. VWords - 1 /\ pieces \in Seq(Pieces)
    /\ \A k \in DOMAIN pieces : PieceServed(pieces[k], k, IF prog = <<>> THEN Low(lp.isr) ELSE prog, vec)
    /\ prog = <<>> => \A k \in DOMAIN pieces : pieces[k].v + Beats(pieces[k].off, pieces[k].len) <= FreeVec

LEMMA PartServed ==
  ASSUME StackInv, ServeInv, NEW first \in 0 .. Matrix.ngroups - 1, NEW count \in 1 .. Matrix.ngroups,
         NEW off \in Offsets, NEW len \in Lengths, Part(first, count, off, len), Placed(Matrix)
  PROVE  ServeInv'
<1> DEFINE q == Piece(first, count, off, len, FreeVec, FreeRes)
           a == lp.isr
           N == Len(pieces)
           F == FreeVec
           B == Beats(off, len)
<1>1. /\ author = "parts" /\ prog = <<>> /\ prog' = prog /\ author' = author /\ nlatch \in {1, 2}
      /\ ~PartRefused(Matrix, q) /\ lp' = PushPart(lp, Matrix, q, nlatch) /\ pieces' = Append(pieces, q)
      /\ q.v + B <= VWords /\ vec' = Uploaded(q, N + 1)
  BY DEF Part, StackInv
<1>2. Stacking
  BY <1>1 DEF StackInv
<1>3. /\ a \in Seq(Roomy) /\ pieces \in Seq(Pieces) /\ F \in Nat /\ FreeRes \in Nat /\ YWords \in Nat
      /\ VWords \in Nat /\ Low(a) \in Seq(Shape(nlatch)) /\ Paid(Low(a))
  BY <1>2, MatvecAssumption DEF Stacking
<1>4. /\ DOMAIN vec = 0 .. VWords - 1
      /\ \A k \in DOMAIN pieces : PieceServed(pieces[k], k, Low(a), vec)
      /\ \A k \in DOMAIN pieces : pieces[k].v + Beats(pieces[k].off, pieces[k].len) <= F
  BY <1>1 DEF ServeInv
<1>5. Planned(Matrix)
  BY ProgramsAssumption DEF Planned
<1>6. q \in Pieces /\ q.v = F /\ q.off = off /\ q.len = len
  <2>1. Matrix.ngroups \in Nat \ {0}
    BY <1>5, PlannedSizes
  <2>2. off \in Nat /\ len \in Nat \ {0} /\ first \in Nat /\ count \in Nat \ {0}
    BY <2>1, ProgramsAssumption
  <2> QED BY <1>3, <2>2 DEF Piece, Pieces
<1> HIDE DEF q, F
<1>7. PieceOf(q)
  BY <1>6, PieceIs
<1>8. Accepted(Matrix, q)
  BY <1>1, <1>5, <1>7 DEF Accepted
<1>9. B \in Nat
  BY <1>6, <1>7, PieceSlice
<1> DEFINE x == Low(a)
           y == LowPart(Matrix, q, nlatch)
           S == Shape(nlatch)
<1>10. Low(lp'.isr) = x \o y
  <2>1. a \in Seq(Blanks)
    BY <1>3, RoomyBlanks
  <2>2. Low(PushPart(lp, Matrix, q, nlatch).isr) = Low(lp.isr) \o LowPart(Matrix, q, nlatch)
    BY <1>1, <1>5, <1>7, <2>1, LowerPart
  <2> QED BY <1>1, <2>2
<1>11. x \in Seq(S) /\ y \in Seq(S) /\ Paid(x)
  <2>1. y \in Seq(S)
    BY <1>1, <1>5, <1>7, PartGood
  <2> QED BY <1>3, <2>1
<1>12. Served(Matrix, q, y)
  BY <1>1, <1>8, PartServes
<1> HIDE DEF a, x, y, S, B
<1>13. Served(Matrix, q, x \o y)
  BY <1>11, <1>12, ServedBehind
<1>14. ASSUME NEW k \in DOMAIN pieces PROVE Served(Matrix, pieces[k], x \o y)
  <2>1. Served(Matrix, pieces[k], x)
    BY <1>4 DEF PieceServed, x
  <2> QED BY <1>11, <2>1, ServedStays
<1>15. /\ pieces' \in Seq(Pieces) /\ Len(pieces') = N + 1 /\ pieces'[N + 1] = q /\ N \in Nat
       /\ DOMAIN pieces = 1 .. N /\ DOMAIN pieces' = 1 .. N + 1 /\ \A k \in 1 .. N : pieces'[k] = pieces[k]
  BY <1>1, <1>3, <1>6
<1>16. vec' = [w \in 0 .. VWords - 1 |->
                IF w \in F .. F + B - 1
                THEN [l \in 0 .. Epb - 1 |-> VecElem(N + 1, len, (w - F) * Epb + l)]
                ELSE vec[w]]
  BY <1>1, <1>4, <1>6 DEF Uploaded, B
<1>17. InBuffer(q, N + 1, vec')
  <2> SUFFICES ASSUME NEW w \in F .. F + B - 1
               PROVE  vec'[w] = [l \in 0 .. Epb - 1 |-> VecElem(N + 1, len, (w - F) * Epb + l)]
    BY <1>6 DEF InBuffer, B
  <2>1. w \in 0 .. VWords - 1
    BY <1>1, <1>3, <1>6, <1>9
  <2> QED BY <1>16, <2>1
<1>18. ASSUME NEW k \in DOMAIN pieces PROVE InBuffer(pieces[k], k, vec')
  <2> DEFINE e == pieces[k]
             b == Beats(e.off, e.len)
  <2>1. e \in Pieces /\ e.v + b <= F /\ e.v + b <= VWords /\ InBuffer(e, k, vec)
    BY <1>3, <1>4 DEF PieceServed
  <2>2. e.v \in Nat
    BY <2>1 DEF Pieces
  <2>3. b \in Nat
    <3>1. PieceOf(e)
      BY <1>4 DEF PieceServed, Accepted
    <3> HIDE DEF e
    <3> QED BY <3>1, PieceSlice
  <2> HIDE DEF e
  <2> SUFFICES ASSUME NEW w \in e.v .. e.v + b - 1
               PROVE  vec'[w] = [l \in 0 .. Epb - 1 |-> VecElem(k, e.len, (w - e.v) * Epb + l)]
    BY DEF InBuffer, e
  <2>4. vec[w] = [l \in 0 .. Epb - 1 |-> VecElem(k, e.len, (w - e.v) * Epb + l)]
    BY <2>1 DEF InBuffer
  <2> HIDE DEF b
  <2>5. w \in 0 .. VWords - 1 /\ w \notin F .. F + B - 1
    BY <1>3, <1>9, <2>1, <2>2, <2>3
  <2> QED BY <1>16, <2>4, <2>5
<1>19. FreeVec' = F + B
  <2>1. pieces' # <<>>
    BY <1>15
  <2>2. FreeVec' = pieces'[Len(pieces')].v + Beats(pieces'[Len(pieces')].off, pieces'[Len(pieces')].len)
    BY <2>1 DEF FreeVec
  <2> HIDE DEF N
  <2>3. pieces'[Len(pieces')] = q
    BY <1>15
  <2> QED BY <1>6, <2>2, <2>3 DEF B
<1> HIDE DEF N
<1>20. ASSUME NEW k \in DOMAIN pieces' PROVE PieceServed(pieces'[k], k, x \o y, vec')
  <2>1. CASE k = N + 1
    <3>1. pieces'[k] = q
      BY <1>15, <2>1
    <3>2. q.off \in Offsets /\ q.v + Beats(q.off, q.len) <= VWords
      BY <1>1, <1>6 DEF B
    <3>3. PieceServed(q, k, x \o y, vec')
      BY <1>8, <1>13, <1>17, <2>1, <3>2 DEF PieceServed
    <3> QED BY <3>1, <3>3
  <2>2. CASE k # N + 1
    <3>1. k \in DOMAIN pieces /\ pieces'[k] = pieces[k]
      BY <1>15, <2>2
    <3>2. PieceServed(pieces[k], k, Low(a), vec)
      BY <1>4, <3>1
    <3>3. PieceServed(pieces[k], k, x \o y, vec')
      BY <1>14, <1>18, <3>1, <3>2 DEF PieceServed
    <3> QED BY <3>1, <3>3
  <2> QED BY <2>1, <2>2
<1>21. ASSUME NEW k \in DOMAIN pieces'
       PROVE  pieces'[k].v + Beats(pieces'[k].off, pieces'[k].len) <= FreeVec'
  <2>1. CASE k = N + 1
    <3>1. pieces'[k] = q
      BY <1>15, <2>1
    <3> QED BY <1>3, <1>6, <1>9, <1>19, <3>1 DEF B
  <2>2. CASE k # N + 1
    <3> DEFINE e == pieces[k]
               b == Beats(e.off, e.len)
    <3>1. k \in DOMAIN pieces /\ pieces'[k] = e
      BY <1>15, <2>2
    <3>2. e.v + b <= F /\ e \in Pieces
      BY <1>3, <1>4, <3>1
    <3>3. e.v \in Nat /\ b \in Nat
      <4>1. PieceOf(e) /\ e.v \in Nat
        BY <1>4, <3>1 DEF PieceServed, Accepted, PieceOf
      <4> HIDE DEF e
      <4> QED BY <4>1, PieceSlice
    <3>4. e.v + b <= FreeVec'
      <4> HIDE DEF b, e
      <4> QED BY <1>3, <1>9, <1>19, <3>2, <3>3
    <3> QED BY <3>1, <3>4
  <2> QED BY <2>1, <2>2
<1>22. DOMAIN vec' = 0 .. VWords - 1
  BY <1>16
<1> QED BY <1>1, <1>10, <1>15, <1>20, <1>21, <1>22 DEF ServeInv

LEMMA EosServed ==
  ASSUME StackInv, ServeInv, Eos, Placed(Matrix)
  PROVE  ServeInv'
<1> DEFINE a == lp.isr
           x == Low(a)
           y == <<TheEnd>>
<1>1. /\ author = "parts" /\ prog = <<>> /\ lp' = PushEos(lp) /\ prog' = Lower(lp') /\ nlatch \in {1, 2}
      /\ author' = author /\ pieces' = pieces /\ vec' = vec /\ nlatch' = nlatch
  BY DEF Eos, StackInv
<1>2. lp = [isr |-> lp.isr, atoms |-> lp.atoms] /\ a \in Seq(Roomy) /\ x \in Seq(Shape(nlatch))
  BY <1>1 DEF StackInv, Stacking
<1>3. a \in Seq(Blanks)
  BY <1>2, RoomyBlanks
<1>4. prog' = x \o y
  BY <1>1, <1>2, <1>3, LowerEnd
<1>5. /\ DOMAIN vec = 0 .. VWords - 1 /\ pieces \in Seq(Pieces)
      /\ \A k \in DOMAIN pieces : PieceServed(pieces[k], k, x, vec)
  BY <1>1 DEF ServeInv
<1> DEFINE S == Finals
<1>6. x \in Seq(S) /\ y \in Seq(S)
  <2>1. x \in Seq(Finals)
    BY <1>3, BlanksLower, LowIs
  <2>2. EndOfProgram \in Blanks
    BY EndTyped
  <2>3. <<EndOfProgram>> \in Seq(Blanks)
    BY <2>2
  <2>4. Low(<<EndOfProgram>>) \in Seq(Finals)
    BY <2>3, BlanksLower, LowIs
  <2>5. y \in Seq(Finals)
    BY <2>4, EndLow
  <2> QED BY <2>1, <2>5
<1> HIDE DEF x, y, S
<1>7. prog' # <<>>
  <2>1. Len(x \o y) = Len(x) + 1
    <3>1. Len(y) = 1
      BY DEF y
    <3> QED BY <1>6, <3>1, ConcatProperties
  <2>2. Len(x) \in Nat
    BY <1>6
  <2> QED BY <1>4, <2>1, <2>2
<1>8. ASSUME NEW k \in DOMAIN pieces PROVE PieceServed(pieces[k], k, x \o y, vec)
  <2>1. PieceServed(pieces[k], k, x, vec)
    BY <1>5
  <2>2. Served(Matrix, pieces[k], x)
    BY <2>1 DEF PieceServed
  <2>3. Served(Matrix, pieces[k], x \o y)
    BY <1>6, <2>2, ServedStays
  <2> QED BY <2>1, <2>3 DEF PieceServed
<1> QED BY <1>1, <1>4, <1>5, <1>7, <1>8 DEF ServeInv

LEMMA ServeInvHolds == Spec => []ServeInv
<1>1. Init => ServeInv
  <2> SUFFICES ASSUME Init PROVE ServeInv
    OBVIOUS
  <2>1. pieces = <<>> /\ DOMAIN vec = 0 .. VWords - 1
    BY DEF Init
  <2>2. DOMAIN pieces = {} /\ pieces \in Seq(Pieces)
    BY <2>1
  <2> QED BY <2>1, <2>2 DEF ServeInv
<1>2. ServeInv /\ StackInv /\ LaunchInv /\ [Next]_vars => ServeInv'
  <2> SUFFICES ASSUME ServeInv, StackInv, LaunchInv, [Next]_vars, Placed(Matrix) PROVE ServeInv'
    BY DEF ServeInv
  <2>1. ASSUME author # "parts", author' = author PROVE ServeInv'
    BY <2>1 DEF ServeInv
  <2>2. ASSUME author' = author, prog' = prog, lp' = lp, pieces' = pieces, vec' = vec PROVE ServeInv'
    BY <2>2 DEF ServeInv, FreeVec
  <2>3. CASE UNCHANGED vars
    BY <2>2, <2>3 DEF vars
  <2>4. ASSUME NEW i \in Alphabet, Push(i) PROVE ServeInv'
    BY <2>1, <2>4 DEF Push
  <2>5. CASE Judge
    BY <2>2, <2>5 DEF Judge
  <2>6. ASSUME NEW m \in Weights, NEW upload, NEW cap \in Limits, Call(m, upload, cap) PROVE ServeInv'
    BY <2>1, <2>6 DEF Call
  <2>7. CASE Launch
    <3>1. author = "gemv" /\ author' = author
      BY <2>7 DEF Launch, LaunchInv
    <3> QED BY <2>1, <3>1
  <2>8. CASE Eos
    BY <2>8, EosServed
  <2>9. ASSUME NEW first \in 0 .. Matrix.ngroups - 1, NEW count \in 1 .. Matrix.ngroups,
               NEW off \in Offsets, NEW len \in Lengths, Part(first, count, off, len)
        PROVE  ServeInv'
    BY <2>9, PartServed
  <2> QED BY <2>3, <2>4, <2>5, <2>6, <2>7, <2>8, <2>9 DEF Next
<1> QED BY <1>1, <1>2, StackInvHolds, LaunchInvHolds, PTL DEF Spec

(* What a result word of a piece is summed from: a product for each chunk   *)
(* of the slice, on the words of the vector that belong to it.              *)
Summed(m, q, g, p, M) ==
  /\ \A x \in M :
       /\ x = <<x[1], x[2]>> /\ x[1] # 0
       /\ \E i \in 0 .. SliceChunks(q.off, q.len) - 1 :
            MulFor(m, q, g, i, p[x[1]]) /\ p[x[2]].row = FillWord(q, i)
  /\ \A i \in 0 .. SliceChunks(q.off, q.len) - 1 :
       \E x \in M : MulFor(m, q, g, i, p[x[1]]) /\ p[x[2]].row = FillWord(q, i)
  /\ \A x, y \in M : p[x[1]].row = p[y[1]].row => x = y

LEMMA WordSummed ==
  ASSUME NEW p, Sound(p), Careful(p), Len(p) # 0, EndsQuietly(p),
         NEW m, NEW q, Accepted(m, q), Placed(m), NEW g \in 0 .. q.count - 1, RightGroup(m, q, g, TRUE, p),
         NEW c \in Chan
  PROVE  Summed(m, q, g, p, AtDone(p).gpr[Place(q, g) + c])
<1>1. PICK j \in At(p, "RD_MAC") :
        p[j].ch = {c} /\ p[j].row = Place(q, g) + c /\ RightMacs(m, q, g, TRUE, p, Since(p, c, p[j].t, j - 1))
  BY DEF RightGroup
<1> DEFINE X == Since(p, c, p[j].t, j - 1)
           M == AtDone(p).gpr[Place(q, g) + c]
           I == 0 .. SliceChunks(q.off, q.len) - 1
<1>2. Answered(AtDone(p), p)
  BY SoundAnswers
<1>3. M = Meant(p, j)
  BY <1>1, <1>2 DEF Answered
<1>4. Meant(p, j) = Held(p, c, p[j].t, j - 1)
  BY <1>1, MeantIs
<1>5. M = {<<i, Last(FillsBefore(p, i))>> : i \in X}
  BY <1>3, <1>4 DEF Held
<1>6. \A i \in X : i \in 1 .. Len(p) /\ i # 0
  BY DEF Since, At, Sound
<1>7. /\ \A x \in X : \E i \in I : MulFor(m, q, g, i, p[x]) /\ Filled(p, x, FillWord(q, i))
      /\ \A i \in I : \E x \in X : MulFor(m, q, g, i, p[x])
      /\ \A x, y \in X : p[x].row = p[y].row => x = y
  BY <1>1 DEF RightMacs
<1> HIDE DEF X, M
<1>8. ASSUME NEW x \in X, NEW w, Filled(p, x, w) PROVE p[Last(FillsBefore(p, x))].row = w
  <2>1. PICK k \in At(p, "WRVEC") : k < x /\ p[k].row = w /\ \A n \in At(p, "WRVEC") : n < x => n <= k
    BY <1>8 DEF Filled
  <2> DEFINE S == FillsBefore(p, x)
  <2>2. k \in S /\ \A n \in S : n <= k
    BY <2>1 DEF FillsBefore
  <2>3. S \in SUBSET Int
    BY DEF FillsBefore, At, Sound
  <2> HIDE DEF S
  <2>4. Last(S) = k
    BY <2>2, <2>3, LastIs
  <2> QED BY <2>1, <2>4 DEF S
<1>9. ASSUME NEW x \in M
      PROVE  /\ x = <<x[1], x[2]>> /\ x[1] # 0 /\ x[1] \in X /\ x[2] = Last(FillsBefore(p, x[1]))
             /\ \E i \in I : MulFor(m, q, g, i, p[x[1]]) /\ p[x[2]].row = FillWord(q, i)
  <2>1. PICK n \in X : x = <<n, Last(FillsBefore(p, n))>>
    BY <1>5
  <2>2. x[1] = n /\ x[2] = Last(FillsBefore(p, n)) /\ n # 0
    BY <1>6, <2>1
  <2>3. PICK i \in I : MulFor(m, q, g, i, p[n]) /\ Filled(p, n, FillWord(q, i))
    BY <1>7
  <2>4. p[Last(FillsBefore(p, n))].row = FillWord(q, i)
    BY <1>8, <2>3
  <2> QED BY <2>1, <2>2, <2>3, <2>4
<1>10. ASSUME NEW i \in I PROVE \E x \in M : MulFor(m, q, g, i, p[x[1]]) /\ p[x[2]].row = FillWord(q, i)
  <2>1. PICK n \in X : MulFor(m, q, g, i, p[n])
    BY <1>7
  <2> DEFINE x == <<n, Last(FillsBefore(p, n))>>
  <2>2. x \in M /\ x[1] = n
    BY <1>5
  <2>3. PICK k \in I : MulFor(m, q, g, k, p[x[1]]) /\ p[x[2]].row = FillWord(q, k)
    BY <1>9, <2>2
  <2> HIDE DEF x
  <2>4. RowFor(m, q, g, i) = RowFor(m, q, g, k)
    BY <2>1, <2>2, <2>3 DEF MulFor
  <2>5. InSlice(q, i) /\ InSlice(q, k)
    BY DEF InSlice
  <2>6. i = k
    BY <2>4, <2>5, RowsDiffer
  <2> QED BY <2>2, <2>3, <2>6
<1>11. ASSUME NEW x \in M, NEW y \in M, p[x[1]].row = p[y[1]].row PROVE x = y
  <2>1. x[1] \in X /\ y[1] \in X /\ x = <<x[1], x[2]>> /\ y = <<y[1], y[2]>>
        /\ x[2] = Last(FillsBefore(p, x[1])) /\ y[2] = Last(FillsBefore(p, y[1]))
    BY <1>9
  <2>2. x[1] = y[1]
    BY <1>7, <1>11, <2>1
  <2> QED BY <2>1, <2>2
<1>12. Summed(m, q, g, p, M)
  BY <1>9, <1>10, <1>11 DEF Summed
<1> QED BY <1>12 DEF M

(* Terms counted once each, and besides them zeroes: f gives every addend   *)
(* its term.                                                                *)
CountOf(pairs) == {<<x[2], Cardinality({y \in pairs : y[2] = x[2]})>> : x \in pairs}
Counted(A, f) == CountOf({<<a, f[a]>> : a \in A})

LEMMA CountedOnce ==
  ASSUME NEW A, NEW f, NEW P,
         \A a \in A : f[a][2] # Zero => f[a] \in P,
         \A t \in P : t[2] # Zero /\ \E a \in A : f[a] = t,
         \A a, b \in A : f[a] = f[b] /\ f[a] \in P => a = b
  PROVE  {x \in Counted(A, f) : x[1][2] # Zero} = {<<t, 1>> : t \in P}
<1> DEFINE Pairs == {<<a, f[a]>> : a \in A}
           N(t) == Cardinality({y \in Pairs : y[2] = t})
<1>1. Counted(A, f) = {<<x[2], N(x[2])>> : x \in Pairs}
  BY DEF Counted, CountOf
<1>2. ASSUME NEW t \in P PROVE N(t) = 1
  <2>1. PICK a \in A : f[a] = t
    OBVIOUS
  <2>2. {y \in Pairs : y[2] = t} = {<<a, t>>}
    <3>1. ASSUME NEW y \in Pairs, y[2] = t PROVE y = <<a, t>>
      <4>1. PICK b \in A : y = <<b, f[b]>>
        OBVIOUS
      <4>2. f[b] = t
        BY <3>1, <4>1
      <4>3. b = a
        BY <2>1, <4>2
      <4> QED BY <4>1, <4>2, <4>3
    <3>2. <<a, t>> \in Pairs
      BY <2>1
    <3> QED BY <3>1, <3>2
  <2> QED BY <2>2, FS_Singleton
<1> HIDE DEF N
<1>3. \A x \in Pairs : \E a \in A : x[2] = f[a]
  OBVIOUS
<1>4. ASSUME NEW a \in A PROVE \E x \in Pairs : x[2] = f[a]
  <2> DEFINE x == <<a, f[a]>>
  <2>1. x \in Pairs /\ x[2] = f[a]
    OBVIOUS
  <2> QED BY <2>1
<1>5. ASSUME NEW z \in Counted(A, f), z[1][2] # Zero PROVE z \in {<<t, 1>> : t \in P}
  <2>1. PICK x \in Pairs : z = <<x[2], N(x[2])>>
    BY <1>1
  <2>2. PICK a \in A : x[2] = f[a]
    BY <1>3
  <2>3. z[1] = f[a] /\ z = <<f[a], N(f[a])>>
    BY <2>1, <2>2
  <2>4. f[a] \in P
    BY <1>5, <2>3
  <2> QED BY <1>2, <2>3, <2>4
<1>6. ASSUME NEW t \in P PROVE <<t, 1>> \in Counted(A, f) /\ <<t, 1>>[1][2] # Zero
  <2>1. PICK a \in A : f[a] = t
    OBVIOUS
  <2>2. PICK x \in Pairs : x[2] = t
    BY <1>4, <2>1
  <2>3. <<t, N(t)>> \in Counted(A, f)
    BY <1>1, <2>2
  <2> QED BY <1>2, <2>3
<1> QED BY <1>5, <1>6

(* Where product x of a result word multiplies in its beat n and lane l:    *)
(* the element of its output and the element of its piece's vector that     *)
(* belong to the same step of the reduction.                                *)
AtBeat(q, i, n) == First(q.off, i) + n
UnitAt(r) == CHOOSE u \in DOMAIN RowOf : RowOf[u] = r
TermOf(p, y, c, b, a) ==
  <<FedAt(UnitAt(p[a[1][1]].row), c, b, p[a[1][1]].col + a[2], a[3]), y[p[a[1][2]].row + a[2]][a[3]]>>
OutputOf(q, g, c, b) == (q.first + g) * PerGroup + c * Nbank + b

LEMMA BeatOf ==
  ASSUME NEW m, NEW q, Accepted(m, q), NEW i, InSlice(q, i), NEW n \in Nat, n < Size(q, i)
  PROVE  /\ AtBeat(q, i, n) \in Nat /\ Lo(q.off) <= AtBeat(q, i, n) /\ AtBeat(q, i, n) < Hi(q.off, q.len)
         /\ First(q.off, i) <= AtBeat(q, i, n) /\ AtBeat(q, i, n) < Past(q.off, q.len, i)
         /\ AtBeat(q, i, n) \div RowBeats = Lo(q.off) \div RowBeats + i
         /\ SlicePart(q.off, q.len, i).col + n = AtBeat(q, i, n) % RowBeats
         /\ FillWord(q, i) + n = q.v + (AtBeat(q, i, n) - Lo(q.off))
         /\ Lo(q.off) \in Nat /\ Hi(q.off, q.len) \in Nat
<1> DEFINE off == q.off
           len == q.len
           F == First(off, i)
           B == AtBeat(q, i, n)
           R == Lo(off) \div RowBeats + i
           P == Past(off, len, i)
<1>1. off \in Nat /\ len \in Nat \ {0} /\ q.v \in Nat
  BY DEF Accepted, PieceOf
<1>2. i \in 0 .. SliceChunks(off, len) - 1
  BY DEF InSlice
<1>3. Lo(off) \in Nat /\ Hi(off, len) \in Nat
  BY <1>1, SliceIs
<1>4. F \in Nat /\ P \in Nat /\ F < P
  BY <1>1, <1>2, ChunkIs
<1>5. /\ SliceBeg(off, i) = Epb * F /\ Size(q, i) = P - F
  BY <1>1, <1>2, PartIs DEF Size
<1>6. SliceVecWord(off, len, i) = F - Lo(off)
  BY <1>1, <1>2, VecWordIs
<1>7. B = F + n
  BY DEF AtBeat
<1>8. SlicePart(off, len, i).col = (SliceBeg(off, i) % Epr) \div Epb
  BY DEF SlicePart, SliceCol
<1>9. FillWord(q, i) = q.v + SliceVecWord(off, len, i)
  BY DEF FillWord
<1>10. i \in Nat
  BY <1>1, <1>2, SliceIs
<1> HIDE DEF F, P, B, off, len
<1>11. B \in Nat /\ F <= B /\ B < P
  BY <1>4, <1>5, <1>7
<1>12. Lo(off) <= F /\ F < Hi(off, len) /\ F \div RowBeats = R
  BY <1>1, <1>2, <1>4, BeatIn DEF F, P
<1>13. Lo(off) <= B /\ B < Hi(off, len) /\ B \div RowBeats = R
  <2>1. First(off, i) <= B /\ B < Past(off, len, i)
    BY <1>11 DEF F, P
  <2> QED BY <1>1, <1>2, <1>11, <2>1, BeatIn
<1>14. SlicePart(off, len, i).col = F % RowBeats
  <2>1. 0 \in 0 .. Epb - 1
    BY BeatSizes
  <2>2. ((Epb * F + 0) % Epr) \div Epb = F % RowBeats
    BY <1>4, <2>1, ElementAt
  <2>3. Epb * F + 0 = Epb * F
    <3>1. Epb * F \in Nat
      BY <1>4, BeatSizes, ProductNat
    <3> QED BY <3>1
  <2> QED BY <1>5, <1>8, <2>2, <2>3
<1>15. (F % RowBeats) + n = B % RowBeats
  <2>1. RowBeats \in Nat \ {0}
    BY BeatSizes
  <2>2. F % RowBeats \in 0 .. RowBeats - 1 /\ F = RowBeats * (F \div RowBeats) + (F % RowBeats)
        /\ F \div RowBeats \in Nat
    BY <1>4, <2>1, DivMod
  <2>3. B % RowBeats \in 0 .. RowBeats - 1 /\ B = RowBeats * (B \div RowBeats) + (B % RowBeats)
    BY <1>11, <2>1, DivMod
  <2> DEFINE z == RowBeats * R
  <2>4. z \in Nat
    BY <1>12, <2>1, <2>2, ProductNat
  <2>5. F = z + (F % RowBeats) /\ B = z + (B % RowBeats)
    BY <1>12, <1>13, <2>2, <2>3
  <2> DEFINE u == F % RowBeats
             w == B % RowBeats
  <2> HIDE DEF z, R
  <2>6. u \in Nat /\ w \in Nat /\ F = z + u /\ B = z + w
    BY <2>1, <2>2, <2>3, <2>5
  <2> HIDE DEF u, w
  <2>7. u + n = w
    BY <1>7, <2>4, <2>6
  <2> QED BY <2>7 DEF u, w
<1>16. q.v + (F - Lo(off)) + n = q.v + (B - Lo(off))
  BY <1>1, <1>3, <1>4, <1>7
<1>17. /\ B \in Nat /\ Lo(off) <= B /\ B < Hi(off, len) /\ First(off, i) <= B /\ B < Past(off, len, i)
       /\ B \div RowBeats = Lo(off) \div RowBeats + i
       /\ SlicePart(off, len, i).col + n = B % RowBeats
       /\ FillWord(q, i) + n = q.v + (B - Lo(off)) /\ Lo(off) \in Nat /\ Hi(off, len) \in Nat
  BY <1>3, <1>6, <1>9, <1>11, <1>13, <1>14, <1>15, <1>16 DEF F, P
<1> QED BY <1>17 DEF off, len, B

LEMMA TermIs ==
  ASSUME NEW m, NEW q, Accepted(m, q), Placed(m), NEW g \in 0 .. q.count - 1, NEW i, InSlice(q, i),
         NEW p, NEW x, MulFor(m, q, g, i, p[x[1]]), p[x[2]].row = FillWord(q, i),
         NEW n \in Nat, n < Size(q, i), NEW l \in 0 .. Epb - 1, NEW k, NEW y, InBuffer(q, k, y),
         NEW c \in 0 .. Nch - 1, NEW b \in 0 .. Nbank - 1
  PROVE  TermOf(p, y, c, b, <<x, n, l>>)
           = <<Offset(m, OutputOf(q, g, c, b), Epb * AtBeat(q, i, n) + l),
               VecElem(k, q.len, (AtBeat(q, i, n) - Lo(q.off)) * Epb + l)>>
<1> DEFINE B == AtBeat(q, i, n)
           G == q.first + g
           a == <<x, n, l>>
           e == p[x[1]]
           f == p[x[2]]
           u == Unit(m, G, SlicePart(q.off, q.len, i).chunk)
<1>1. /\ B \in Nat /\ Lo(q.off) <= B /\ B < Hi(q.off, q.len)
      /\ B \div RowBeats = Lo(q.off) \div RowBeats + i
      /\ SlicePart(q.off, q.len, i).col + n = B % RowBeats
      /\ FillWord(q, i) + n = q.v + (B - Lo(q.off)) /\ Lo(q.off) \in Nat /\ Hi(q.off, q.len) \in Nat
  BY BeatOf
<1>2. q.off \in Nat /\ q.len \in Nat \ {0} /\ q.v \in Nat /\ q.first \in Nat /\ q.count \in Nat /\ Planned(m)
  BY DEF Accepted, PieceOf
<1>3. G \in Nat /\ m.nchunks \in Nat
  <2>1. m.nchunks \in Nat
    BY <1>2, PlannedSizes
  <2> QED BY <1>2, <2>1
<1>4. u \in DOMAIN RowOf /\ SlicePart(q.off, q.len, i).chunk = Lo(q.off) \div RowBeats + i
  BY UnitPlaced
<1>5. e.row = RowOf[u] /\ e.col = SlicePart(q.off, q.len, i).col
  BY DEF MulFor, RowFor
<1>6. u = Unit(m, G, B \div RowBeats)
  BY <1>1, <1>4
<1>7. Beats(q.off, q.len) = Hi(q.off, q.len) - Lo(q.off)
  BY <1>2, SliceIs
<1>8. TermOf(p, y, c, b, a) = <<FedAt(UnitAt(e.row), c, b, e.col + n, l), y[f.row + n][l]>>
  <2>1. a[1] = x /\ a[2] = n /\ a[3] = l
    OBVIOUS
  <2> HIDE DEF a
  <2> QED BY <2>1 DEF TermOf
<1> HIDE DEF B, G, a, e, f, u
<1>9. UnitAt(e.row) = u
  <2>1. \E w \in DOMAIN RowOf : RowOf[w] = e.row
    BY <1>4, <1>5
  <2>2. UnitAt(e.row) \in DOMAIN RowOf /\ RowOf[UnitAt(e.row)] = e.row
    BY <2>1 DEF UnitAt
  <2> QED BY <1>4, <1>5, <2>2, MatvecAssumption
<1>10. FedAt(u, c, b, e.col + n, l) = Offset(m, G * PerGroup + c * Nbank + b, Epb * B + l)
  <2>1. FedAt(Unit(m, G, B \div RowBeats), c, b, B % RowBeats, l)
          = Offset(m, G * PerGroup + c * Nbank + b, Epb * B + l)
    BY <1>1, <1>3, FedIs
  <2> QED BY <1>1, <1>5, <1>6, <2>1
<1>11. y[f.row + n][l] = VecElem(k, q.len, (B - Lo(q.off)) * Epb + l)
  <2> DEFINE w == q.v + (B - Lo(q.off))
  <2>1. f.row + n = w
    BY <1>1 DEF f
  <2>2. w \in q.v .. q.v + Beats(q.off, q.len) - 1 /\ w - q.v = B - Lo(q.off)
    BY <1>1, <1>2, <1>7
  <2> HIDE DEF w
  <2>3. y[w] = [z \in 0 .. Epb - 1 |-> VecElem(k, q.len, (w - q.v) * Epb + z)]
    BY <2>2 DEF InBuffer
  <2> QED BY <2>1, <2>2, <2>3
<1> QED BY <1>8, <1>9, <1>10, <1>11 DEF a, B, G, OutputOf

(* The step of the piece's reduction that lane l of beat n of chunk i is.   *)
SumStep(q, i, n, l) == (AtBeat(q, i, n) - Lo(q.off)) * Epb + l

LEMMA StepIs ==
  ASSUME NEW m, NEW q, Accepted(m, q), q.off % Epb = 0,
         NEW i, InSlice(q, i), NEW n \in Nat, n < Size(q, i), NEW l \in 0 .. Epb - 1
  PROVE  /\ SumStep(q, i, n, l) \in Nat /\ Epb * AtBeat(q, i, n) + l = q.off + SumStep(q, i, n, l)
         /\ AtBeat(q, i, n) - Lo(q.off) \in Nat
         /\ SumStep(q, i, n, l) = Epb * (AtBeat(q, i, n) - Lo(q.off)) + l
<1> DEFINE B == AtBeat(q, i, n)
           L == Lo(q.off)
           D == B - L
<1>1. B \in Nat /\ L \in Nat /\ L <= B
  BY BeatOf
<1>2. Epb \in Nat \ {0}
  BY BeatSizes
<1>3. q.off = Epb * L
  <2>1. q.off \in Nat
    BY DEF Accepted, PieceOf
  <2>2. q.off = Epb * (q.off \div Epb) + (q.off % Epb) /\ q.off \div Epb \in Nat
    BY <1>2, <2>1, DivMod
  <2> DEFINE z == Epb * (q.off \div Epb)
  <2>3. z \in Nat /\ q.off = z + 0
    BY <1>2, <2>2, ProductNat
  <2> HIDE DEF z
  <2>4. q.off = z
    BY <2>3
  <2> QED BY <2>4 DEF z, Lo
<1>4. SumStep(q, i, n, l) = D * Epb + l
  BY DEF SumStep
<1> HIDE DEF B, L
<1>5. D \in Nat /\ B = L + D /\ l \in Nat
  BY <1>1
<1> HIDE DEF D
<1>6. Epb * B = Epb * L + Epb * D /\ D * Epb = Epb * D
  BY <1>1, <1>2, <1>5
<1>7. Epb * L \in Nat /\ Epb * D \in Nat
  BY <1>1, <1>2, <1>5, ProductNat
<1> DEFINE s1 == Epb * L
           s2 == Epb * D
<1>8. Epb * B = s1 + s2 /\ D * Epb = s2 /\ q.off = s1 /\ s1 \in Nat /\ s2 \in Nat
  BY <1>3, <1>6, <1>7
<1> HIDE DEF s1, s2
<1>9. Epb * B + l = q.off + (D * Epb + l) /\ D * Epb + l \in Nat
  BY <1>5, <1>8
<1>10. D * Epb + l = Epb * D + l
  BY <1>6
<1> QED BY <1>4, <1>5, <1>9, <1>10 DEF B, D, L

LEMMA TermsAre ==
  ASSUME NEW z, NEW p, NEW y, NEW c, NEW b, NEW w, Foreign \notin z.gpr[w], NEW A, NEW f,
         A = {a \in z.gpr[w] \X (0 .. 63) \X (0 .. Epb - 1) : a[2] < p[a[1][1]].sz},
         f = [a \in A |-> TermOf(p, y, c, b, a)]
  PROVE  Terms(z, p, y, c, b, w) = Counted(A, f)
<1> DEFINE Added == {a \in (z.gpr[w] \ {Foreign}) \X (0 .. 63) \X (0 .. Epb - 1) : a[2] < p[a[1][1]].sz}
           Pairs == {<<a, TermOf(p, y, c, b, a)>> : a \in Added}
           Else == IF Foreign \in z.gpr[w] THEN {<<<<0, Junk>>, 1>>} ELSE {}
<1>1. Terms(z, p, y, c, b, w) = CountOf(Pairs) \cup Else
  BY DEF Terms, TermOf, UnitAt, CountOf
<1>2. Else = {}
  OBVIOUS
<1>3. Added = A
  <2>1. z.gpr[w] \ {Foreign} = z.gpr[w]
    OBVIOUS
  <2> QED BY <2>1
<1> HIDE DEF Added, Else
<1>4. Pairs = {<<a, f[a]>> : a \in A}
  BY <1>3
<1> HIDE DEF Pairs
<1>5. Terms(z, p, y, c, b, w) = CountOf(Pairs)
  BY <1>1, <1>2
<1>6. Counted(A, f) = CountOf({<<a, f[a]>> : a \in A})
  BY DEF Counted
<1> QED BY <1>4, <1>5, <1>6

LEMMA WordIsProduct ==
  ASSUME NEW m, NEW q, Accepted(m, q), Placed(m), RowBeats <= 64, q.off % Epb = 0,
         NEW g \in 0 .. q.count - 1, NEW c \in 0 .. Nch - 1, NEW b \in 0 .. Nbank - 1,
         NEW p, NEW k, NEW y, InBuffer(q, k, y), NEW z, NEW w, Summed(m, q, g, p, z.gpr[w])
  PROVE  IsProduct(Terms(z, p, y, c, b, w), m, OutputOf(q, g, c, b), q.off, q.len, k)
<1> DEFINE M == z.gpr[w]
           o == OutputOf(q, g, c, b)
           A == {a \in M \X (0 .. 63) \X (0 .. Epb - 1) : a[2] < p[a[1][1]].sz}
           f == [a \in A |-> TermOf(p, y, c, b, a)]
           F(j) == <<Offset(m, o, q.off + j), VecElem(k, q.len, j)>>
           T(j) == <<Offset(m, o, q.off + j), <<k, j>>>>
           P == {T(j) : j \in 0 .. q.len - 1}
           I == 0 .. SliceChunks(q.off, q.len) - 1
           Of(x, i) == MulFor(m, q, g, i, p[x[1]]) /\ p[x[2]].row = FillWord(q, i)
<1>1. /\ \A x \in M : x[1] # 0 /\ x = <<x[1], x[2]>> /\ \E i \in I : Of(x, i)
      /\ \A i \in I : \E x \in M : Of(x, i)
      /\ \A x, v \in M : p[x[1]].row = p[v[1]].row => x = v
  BY DEF Summed
<1>2. Foreign \notin M
  BY <1>1 DEF Foreign
<1>3. Terms(z, p, y, c, b, w) = Counted(A, f)
  <2>1. /\ Foreign \notin z.gpr[w]
        /\ A = {a \in z.gpr[w] \X (0 .. 63) \X (0 .. Epb - 1) : a[2] < p[a[1][1]].sz}
        /\ f = [a \in A |-> TermOf(p, y, c, b, a)]
    BY <1>2
  <2> HIDE DEF A, f, F, T, P, M, I, Of
  <2> QED BY <2>1, TermsAre
<1>4. q.len \in Nat \ {0} /\ q.off \in Nat
  BY DEF Accepted, PieceOf
<1>5. ASSUME NEW x, NEW i \in I, Of(x, i), NEW n \in Nat, n < Size(q, i), NEW l \in 0 .. Epb - 1
      PROVE  /\ TermOf(p, y, c, b, <<x, n, l>>) = F(SumStep(q, i, n, l))
             /\ SumStep(q, i, n, l) \in Nat /\ AtBeat(q, i, n) - Lo(q.off) \in Nat
             /\ SumStep(q, i, n, l) = Epb * (AtBeat(q, i, n) - Lo(q.off)) + l
  <2>1. InSlice(q, i) /\ MulFor(m, q, g, i, p[x[1]]) /\ p[x[2]].row = FillWord(q, i)
    BY <1>5 DEF InSlice
  <2> HIDE DEF A, f, T, P, M, I, Of
  <2>2. TermOf(p, y, c, b, <<x, n, l>>)
          = <<Offset(m, OutputOf(q, g, c, b), Epb * AtBeat(q, i, n) + l),
              VecElem(k, q.len, (AtBeat(q, i, n) - Lo(q.off)) * Epb + l)>>
    BY <1>5, <2>1, TermIs
  <2>3. /\ SumStep(q, i, n, l) \in Nat /\ Epb * AtBeat(q, i, n) + l = q.off + SumStep(q, i, n, l)
        /\ AtBeat(q, i, n) - Lo(q.off) \in Nat
        /\ SumStep(q, i, n, l) = Epb * (AtBeat(q, i, n) - Lo(q.off)) + l
    BY <1>5, <2>1, StepIs
  <2>4. (AtBeat(q, i, n) - Lo(q.off)) * Epb + l = SumStep(q, i, n, l)
    BY DEF SumStep
  <2> QED BY <2>2, <2>3, <2>4
<1>6. ASSUME NEW a \in A
      PROVE  /\ a = <<a[1], a[2], a[3]>> /\ a[1] \in M /\ a[2] \in Nat /\ a[3] \in 0 .. Epb - 1
             /\ \E i \in I : /\ Of(a[1], i) /\ a[2] < Size(q, i)
                             /\ f[a] = F(SumStep(q, i, a[2], a[3])) /\ SumStep(q, i, a[2], a[3]) \in Nat
                             /\ AtBeat(q, i, a[2]) - Lo(q.off) \in Nat
                             /\ SumStep(q, i, a[2], a[3]) = Epb * (AtBeat(q, i, a[2]) - Lo(q.off)) + a[3]
  <2>1. a = <<a[1], a[2], a[3]>> /\ a[1] \in M /\ a[2] \in Nat /\ a[3] \in 0 .. Epb - 1
        /\ a[2] < p[a[1][1]].sz
    OBVIOUS
  <2>2. f[a] = TermOf(p, y, c, b, a)
    OBVIOUS
  <2>3. PICK i \in I : Of(a[1], i)
    BY <1>1, <2>1
  <2> DEFINE x == a[1]
             n == a[2]
             l == a[3]
  <2> HIDE DEF f, A, F, M
  <2>4. n < Size(q, i) /\ n \in Nat /\ l \in 0 .. Epb - 1 /\ Of(x, i) /\ a = <<x, n, l>>
    BY <2>1, <2>3 DEF MulFor
  <2> HIDE DEF x, n, l, I, Of
  <2>5. /\ TermOf(p, y, c, b, <<x, n, l>>) = F(SumStep(q, i, n, l))
        /\ SumStep(q, i, n, l) \in Nat /\ AtBeat(q, i, n) - Lo(q.off) \in Nat
        /\ SumStep(q, i, n, l) = Epb * (AtBeat(q, i, n) - Lo(q.off)) + l
    BY <1>5, <2>3, <2>4
  <2>6. f[a] = F(SumStep(q, i, n, l))
    BY <2>2, <2>4, <2>5
  <2> QED BY <2>1, <2>3, <2>4, <2>5, <2>6 DEF x, n, l
<1>7. \A j : <<k, j>> # Zero
  <2> TAKE j
  <2>1. Len(<<k, j>>) = 2 /\ Len(<<>>) = 0
    OBVIOUS
  <2> QED BY <2>1 DEF Zero
<1>8. \A j \in Nat : VecElem(k, q.len, j) # Zero => j \in 0 .. q.len - 1 /\ VecElem(k, q.len, j) = <<k, j>>
  BY <1>4 DEF VecElem
<1>9. \A j \in 0 .. q.len - 1 : F(j) = T(j) /\ T(j) \in P /\ j \in Nat
  BY <1>4 DEF VecElem
<1>10. ASSUME NEW a \in A, f[a][2] # Zero PROVE f[a] \in P
  <2>1. PICK j \in Nat : f[a] = F(j)
    BY <1>6
  <2> HIDE DEF f, A, M, T, P
  <2>2. f[a][2] = VecElem(k, q.len, j)
    BY <2>1
  <2>3. j \in 0 .. q.len - 1
    BY <1>8, <1>10, <2>2
  <2> QED BY <1>9, <2>1, <2>3
<1>11. ASSUME NEW t \in P PROVE t[2] # Zero /\ \E a \in A : f[a] = t
  <2>1. PICK j \in 0 .. q.len - 1 : t = T(j)
    OBVIOUS
  <2>2. t[2] # Zero
    BY <1>7, <2>1
  <2> DEFINE e == q.off + j
             B == e \div Epb
             l == e % Epb
  <2>3. Epb \in Nat \ {0}
    BY BeatSizes
  <2>4. e \in Nat /\ j \in Nat /\ e < q.off + q.len
    BY <1>4
  <2>5. B \in Nat /\ l \in 0 .. Epb - 1 /\ e = Epb * B + l
    BY <2>3, <2>4, DivMod
  <2>6. Lo(q.off) <= B
    <3>1. q.off \div Epb <= e \div Epb
      <4>1. q.off <= e
        BY <1>4, <2>4
      <4> HIDE DEF e
      <4> QED BY <1>4, <2>3, <2>4, <4>1, DivMonotone
    <3> QED BY <3>1 DEF Lo
  <2>7. B < Hi(q.off, q.len)
    <3> DEFINE s1 == q.off + q.len
               h == CeilDiv(s1, Epb)
    <3>1. s1 \in Nat
      BY <1>4
    <3>2. e < s1
      BY <2>4
    <3> HIDE DEF s1, e
    <3>3. h \in Nat /\ s1 <= Epb * h /\ Epb * h \in Nat
      BY <2>3, <3>1, Ceil
    <3>4. e < Epb * h
      <4> DEFINE r == Epb * h
      <4>1. r \in Nat /\ s1 <= r
        BY <3>3
      <4> HIDE DEF r, h
      <4>2. e < r
        BY <2>4, <3>1, <3>2, <4>1
      <4> QED BY <4>2 DEF r
    <3> HIDE DEF h
    <3>5. e \div Epb \in 0 .. h - 1
      BY <2>3, <2>4, <3>3, <3>4, DivBelow
    <3>6. B < h
      BY <2>5, <3>3, <3>5
    <3> QED BY <3>6 DEF Hi, h, s1
  <2> HIDE DEF e, B, l
  <2>8. PICK i \in I : First(q.off, i) <= B /\ B < Past(q.off, q.len, i)
    <3>1. \E i \in 0 .. SliceChunks(q.off, q.len) - 1 : First(q.off, i) <= B /\ B < Past(q.off, q.len, i)
      BY <1>4, <2>5, <2>6, <2>7, BeatHas
    <3> QED BY <3>1
  <2> DEFINE n == B - First(q.off, i)
  <2>9. /\ First(q.off, i) \in Nat /\ Past(q.off, q.len, i) \in Nat
        /\ Past(q.off, q.len, i) - First(q.off, i) <= RowBeats
    BY <1>4, ChunkIs
  <2>10. Size(q, i) = Past(q.off, q.len, i) - First(q.off, i)
    BY <1>4, PartIs DEF Size
  <2>11. RowBeats \in Nat
    BY BeatSizes
  <2>12. n \in 0 .. 63 /\ n \in Nat /\ n < Size(q, i)
    BY <2>5, <2>8, <2>9, <2>10, <2>11
  <2>13. AtBeat(q, i, n) = B
    BY <2>5, <2>9 DEF AtBeat
  <2> HIDE DEF n
  <2>14. PICK x \in M : Of(x, i)
    BY <1>1, <2>8
  <2> DEFINE a == <<x, n, l>>
  <2>15. p[x[1]].sz = Size(q, i)
    BY <2>14 DEF MulFor
  <2>16. a \in A
    BY <2>5, <2>12, <2>14, <2>15
  <2>17. f[a] = TermOf(p, y, c, b, <<x, n, l>>)
    BY <2>16
  <2> HIDE DEF f, A, F, a, T, P, I, Of, M
  <2>18. TermOf(p, y, c, b, <<x, n, l>>) = F(SumStep(q, i, n, l)) /\ SumStep(q, i, n, l) \in Nat
    BY <1>5, <2>5, <2>8, <2>12, <2>14
  <2>19. SumStep(q, i, n, l) = j
    <3>1. InSlice(q, i)
      BY <2>8 DEF InSlice, I
    <3>2. Epb * AtBeat(q, i, n) + l = q.off + SumStep(q, i, n, l)
      BY <2>5, <2>12, <3>1, StepIs
    <3>3. e = q.off + SumStep(q, i, n, l)
      BY <2>5, <2>13, <3>2
    <3> DEFINE r == SumStep(q, i, n, l)
    <3>4. q.off + j = q.off + r /\ r \in Nat
      BY <2>18, <3>3 DEF e
    <3> HIDE DEF r
    <3>5. r = j
      BY <1>4, <2>4, <3>4
    <3> QED BY <3>5 DEF r
  <2>20. f[a] = t
    BY <1>9, <2>1, <2>17, <2>18, <2>19
  <2> QED BY <2>2, <2>16, <2>20
<1>12. ASSUME NEW a \in A, NEW v \in A, f[a] = f[v], f[a] \in P PROVE a = v
  <2>1. PICK i \in I : /\ Of(a[1], i) /\ f[a] = F(SumStep(q, i, a[2], a[3])) /\ SumStep(q, i, a[2], a[3]) \in Nat
                       /\ AtBeat(q, i, a[2]) - Lo(q.off) \in Nat /\ a[2] < Size(q, i)
                       /\ SumStep(q, i, a[2], a[3]) = Epb * (AtBeat(q, i, a[2]) - Lo(q.off)) + a[3]
    BY <1>6
  <2>2. PICK d \in I : /\ Of(v[1], d) /\ f[v] = F(SumStep(q, d, v[2], v[3])) /\ SumStep(q, d, v[2], v[3]) \in Nat
                       /\ AtBeat(q, d, v[2]) - Lo(q.off) \in Nat /\ v[2] < Size(q, d)
                       /\ SumStep(q, d, v[2], v[3]) = Epb * (AtBeat(q, d, v[2]) - Lo(q.off)) + v[3]
    BY <1>6
  <2>3. /\ a = <<a[1], a[2], a[3]>> /\ a[1] \in M /\ a[2] \in Nat /\ a[3] \in 0 .. Epb - 1
        /\ v = <<v[1], v[2], v[3]>> /\ v[1] \in M /\ v[2] \in Nat /\ v[3] \in 0 .. Epb - 1
    BY <1>6
  <2>4. PICK t \in 0 .. q.len - 1 : f[a] = T(t)
    BY <1>12
  <2> DEFINE r == SumStep(q, i, a[2], a[3])
             u == SumStep(q, d, v[2], v[3])
  <2> HIDE DEF f, A, M
  <2>5. VecElem(k, q.len, r) = <<k, t>> /\ VecElem(k, q.len, u) = <<k, t>>
    <3>1. F(r) = T(t) /\ F(u) = T(t)
      BY <1>12, <2>1, <2>2, <2>4
    <3> HIDE DEF r, u
    <3>2. F(r)[2] = VecElem(k, q.len, r) /\ F(u)[2] = VecElem(k, q.len, u) /\ T(t)[2] = <<k, t>>
      OBVIOUS
    <3> QED BY <3>1, <3>2
  <2>6. r = t /\ u = t
    <3>1. r \in Nat /\ u \in Nat
      BY <2>1, <2>2
    <3> HIDE DEF r, u
    <3>2. VecElem(k, q.len, r) = <<k, r>> /\ VecElem(k, q.len, u) = <<k, u>>
      BY <1>7, <1>8, <2>5, <3>1
    <3> QED BY <2>5, <3>2
  <2> DEFINE D == AtBeat(q, i, a[2]) - Lo(q.off)
             E == AtBeat(q, d, v[2]) - Lo(q.off)
  <2>7. D \in Nat /\ E \in Nat /\ Epb * D + a[3] = Epb * E + v[3]
    BY <2>1, <2>2, <2>6
  <2> HIDE DEF A, f, F, T, P, M, r, u
  <2>8. D = E /\ a[3] = v[3]
    <3>1. Epb \in Nat \ {0}
      BY BeatSizes
    <3> DEFINE n1 == a[3]
               n2 == v[3]
    <3>2. /\ n1 \in 0 .. Epb - 1 /\ n2 \in 0 .. Epb - 1 /\ Epb * D + n1 = Epb * E + n2
          /\ D \in Nat /\ E \in Nat
      BY <2>3, <2>7
    <3> HIDE DEF D, E, n1, n2
    <3>3. D = E /\ n1 = n2
      BY <3>1, <3>2, DivUnique
    <3> QED BY <3>3 DEF n1, n2
  <2> DEFINE n1 == a[2]
             n2 == v[2]
  <2>9. n1 \in Nat /\ n2 \in Nat /\ n1 < Size(q, i) /\ n2 < Size(q, d) /\ InSlice(q, i) /\ InSlice(q, d)
    BY <2>1, <2>2, <2>3 DEF InSlice
  <2> HIDE DEF n1, n2, I, Of
  <2>10. AtBeat(q, i, n1) \in Nat /\ AtBeat(q, i, n1) \div RowBeats = Lo(q.off) \div RowBeats + i /\ Lo(q.off) \in Nat
    BY <2>9, BeatOf
  <2>11. AtBeat(q, d, n2) \in Nat /\ AtBeat(q, d, n2) \div RowBeats = Lo(q.off) \div RowBeats + d
    BY <2>9, BeatOf
  <2>12. AtBeat(q, i, n1) = AtBeat(q, d, n2)
    BY <2>8, <2>10, <2>11 DEF n1, n2
  <2>13. Lo(q.off) \div RowBeats \in Nat /\ i \in Nat /\ d \in Nat
    <3>1. RowBeats \in Nat \ {0}
      BY BeatSizes
    <3>2. Lo(q.off) \div RowBeats \in Nat
      BY <2>10, <3>1, DivMod
    <3>3. i \in Nat /\ d \in Nat
      BY <1>4, <2>9, SliceIs DEF InSlice
    <3> QED BY <3>2, <3>3
  <2>14. i = d
    <3> DEFINE r0 == Lo(q.off) \div RowBeats
    <3>1. r0 + i = r0 + d /\ r0 \in Nat
      BY <2>10, <2>11, <2>12, <2>13
    <3> HIDE DEF r0
    <3> QED BY <2>13, <3>1
  <2>15. n1 = n2
    <3>1. First(q.off, i) \in Nat
      <4>1. i \in 0 .. SliceChunks(q.off, q.len) - 1
        BY <2>9 DEF InSlice
      <4> QED BY <1>4, <4>1, ChunkIs
    <3>2. First(q.off, i) + n1 = First(q.off, i) + n2
      BY <2>12, <2>14 DEF AtBeat
    <3> QED BY <2>9, <3>1, <3>2
  <2>16. a[1] = v[1]
    <3>1. p[a[1][1]].row = RowFor(m, q, g, i) /\ p[v[1][1]].row = RowFor(m, q, g, d)
      BY <2>1, <2>2 DEF MulFor, Of
    <3> QED BY <1>1, <2>3, <2>14, <3>1
  <2> QED BY <2>3, <2>8, <2>15, <2>16 DEF n1, n2
<1>13. {x \in Counted(A, f) : x[1][2] # Zero} = {<<t, 1>> : t \in P}
  <2> HIDE DEF A, f, P
  <2> QED BY <1>10, <1>11, <1>12, CountedOnce
<1>14. Product(m, o, q.off, q.len, k) = {<<t, 1>> : t \in P}
  BY DEF Product
<1> QED BY <1>3, <1>13, <1>14 DEF IsProduct

(* Rows and slices as pim_matvec_logical_part takes them.                   *)
BeatAligned == RowBeats <= 64 /\ \A off \in Offsets : off % Epb = 0

(* What a result word sums up is the product it was asked for: for every    *)
(* tensor, and every stack of pieces pim_matvec_logical_part took, element  *)
(* by element of the slice, weight by its own vector entry and each once,   *)
(* out of every bank of every channel.  Every unit of the tensor has a row  *)
(* (pim_alloc gives it the chunks it asks for); a row has 64 beats, and a   *)
(* slice begins on a beat (pim_matvec.h:32-34 takes that for granted).      *)
THEOREM ProductsStayRight ==
  Placed(Matrix) /\ BeatAligned => (Spec => [](Decodes(nlatch) => RightProducts))
<1> SUFFICES ASSUME Placed(Matrix), BeatAligned PROVE Spec => [](Decodes(nlatch) => RightProducts)
  OBVIOUS
<1>1. ServeInv /\ StackInv => (Decodes(nlatch) => RightProducts)
  <2> SUFFICES ASSUME ServeInv, StackInv, Ended, Decodes(nlatch) PROVE RightProducts
    BY DEF RightProducts
  <2>1. author = "parts" /\ prog # <<>> /\ nlatch \in {1, 2}
    BY DEF Ended, StackInv
  <2>2. Sealed(prog, nlatch) /\ Words(prog, VWords, VWords + YWords) /\ Len(prog) <= ImemWords
    BY <2>1 DEF StackInv, Stacked
  <2>3. Len(prog) # 0 /\ VectorMatches(prog) /\ EndsQuietly(prog)
    <3>1. Verify(prog, nlatch = 2)
      BY <2>1, <2>2, WholeAccepted
    <3> QED BY <3>1, VerifiedEnds
  <2>4. Sound(prog) /\ Careful(prog)
    BY <2>1, <2>2, <2>3, SealedSound
  <2> SUFFICES ASSUME NEW k \in DOMAIN pieces, NEW g \in 0 .. pieces[k].count - 1, NEW c \in Chan,
                      NEW b \in 0 .. Nbank - 1
               PROVE  LET q == pieces[k]
                      IN  IsProduct(Terms(AtDone(prog), prog, vec, c, b, VWords + q.y + g * Nch + c),
                                    Matrix, (q.first + g) * PerGroup + c * Nbank + b, q.off, q.len, k)
    BY Zenon DEF RightProducts
  <2> DEFINE q == pieces[k]
             w == Place(q, g) + c
  <2>5. PieceServed(q, k, prog, vec)
    BY <2>1 DEF ServeInv
  <2>6. Accepted(Matrix, q) /\ q.off \in Offsets /\ InBuffer(q, k, vec) /\ RightGroup(Matrix, q, g, TRUE, prog)
    BY <2>5 DEF PieceServed, Served
  <2>7. q.off % Epb = 0 /\ RowBeats <= 64 /\ c \in 0 .. Nch - 1 /\ g \in 0 .. q.count - 1
    BY <2>6, MatvecAssumption DEF BeatAligned
  <2> HIDE DEF q
  <2>8. Summed(Matrix, q, g, prog, AtDone(prog).gpr[Place(q, g) + c])
    BY <2>3, <2>4, <2>6, <2>7, WordSummed
  <2> DEFINE z == AtDone(prog)
  <2>9. Summed(Matrix, q, g, prog, z.gpr[w])
    BY <2>8
  <2> HIDE DEF z, w
  <2>10. IsProduct(Terms(z, prog, vec, c, b, w), Matrix, OutputOf(q, g, c, b), q.off, q.len, k)
    BY <2>6, <2>7, <2>9, WordIsProduct
  <2> QED BY <2>10 DEF z, w, q, Place, OutputOf
<1> QED BY <1>1, ServeInvHolds, StackInvHolds, PTL
==============================================================================
