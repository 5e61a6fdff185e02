------------------------------ MODULE PimMatvec -------------------------------
(***************************************************************************)
(* From a matrix product to instructions: pass 1 (pim_matvec.c) schedules  *)
(* WRVECs, MACs and drains with blank addresses, pass 2 (pim_lower.c)      *)
(* resolves the blanks and splits each drain by channel.                   *)
(*                                                                         *)
(* A logical ISR is [op, sz, col, t, buf, base, index, room, tag].  The    *)
(* last five are the reference that fills ROW: unit `index' of the tensor, *)
(* or word `index' of the `room' from `base' on in a GPR buffer, and the   *)
(* layout it assumes.  Only a drain is split per channel.                  *)
(***************************************************************************)
EXTENDS PimTensor, PimIsr

CONSTANTS
  RowOf,   \* DRAM row of each broadcast unit of the tensor, as the pool placed it
  VWords,  \* GPR words of the vector buffer, from word 0 on
  YWords   \* GPR words of the result buffer, after it

ASSUME MatvecAssumption ==
  /\ Chan = 0 .. Nch - 1 /\ VWords \in Nat /\ YWords \in Nat
  /\ Word = 0 .. VWords + YWords - 1
  /\ \A u, w \in DOMAIN RowOf : RowOf[u] = RowOf[w] => u = w

Seqs == INSTANCE SequencesExt

(* 0 .. n - 1, as a sequence to build others from.                          *)
For(n, f(_)) == Seqs!FlattenSeq([i \in 1 .. n |-> f(i - 1)])

------------------------------------------------------------------------------
(* The reduction slice [off, off + len) as whole beats, chunk by chunk.     *)
SliceLo(off) == (off \div Epb) * Epb
SliceHi(off, len) == RoundUp(off + len, Epb)
Beats(off, len) == (SliceHi(off, len) - SliceLo(off)) \div Epb

SliceChunks(off, len) == (SliceHi(off, len) - 1) \div Epr - SliceLo(off) \div Epr + 1
Hoist(off, len) == SliceChunks(off, len) = 1

(* Chunk i of the slice.  Mutant: the column of the slice in every chunk.   *)
SliceBeg(off, i) == Most((SliceLo(off) \div Epr + i) * Epr, SliceLo(off))
SliceColFirst(off, i) == (SliceLo(off) % Epr) \div Epb
SliceCol(off, i) == (SliceBeg(off, i) % Epr) \div Epb
SlicePart(off, len, i) ==
  LET ck == SliceLo(off) \div Epr + i
      end == Least((ck + 1) * Epr, SliceHi(off, len))
  IN  [chunk |-> ck, col |-> SliceCol(off, i), beats |-> (end - SliceBeg(off, i)) \div Epb]

(* The vector's word at which chunk i starts: it is indexed from off.       *)
SliceVecWord(off, len, i) ==
  LET used[j \in 0 .. i] == IF j = 0 THEN 0 ELSE used[j - 1] + SlicePart(off, len, j - 1).beats
  IN  used[i]

Nwrvec(count, off, len, nlatch) ==
  IF Hoist(off, len) THEN 1 ELSE CeilDiv(count, nlatch) * SliceChunks(off, len)

(* Exact, the EOS included.                                                 *)
Nisr(count, off, len, nlatch) ==
  1 + Nwrvec(count, off, len, nlatch) + count * SliceChunks(off, len) + count

------------------------------------------------------------------------------
(* Pass 1.                                                                  *)
Blank(op, sz, col, t, buf, base, index, room, tag) ==
  [op |-> op, sz |-> sz, col |-> col, t |-> t,
   buf |-> buf, base |-> base, index |-> index, room |-> room, tag |-> tag]
EndOfProgram == Blank("EOS", 0, 0, 0, "none", 0, 0, 1, 0)

(* A request: output groups first .. first + count - 1 of the tensor m over *)
(* the slice, with its vector at word v and its results from word y.        *)
Piece(first, count, off, len, v, y) ==
  [first |-> first, count |-> count, off |-> off, len |-> len, v |-> v, y |-> y]

FillVector(q, i) ==
  LET beats == Beats(q.off, q.len)
  IN  <<Blank("WRVEC", SlicePart(q.off, q.len, i).beats, 0, 0,
              "vec", q.v, SliceVecWord(q.off, q.len, i), beats, beats)>>

MacOf(m, q, g, i, t) ==
  LET part == SlicePart(q.off, q.len, i)
  IN  <<Blank("MAC", part.beats, part.col, t,
              "mat", 0, Unit(m, q.first + g, part.chunk), m.ngroups * m.nchunks, 0)>>

(* One drain stands for the Nch words of its group.                         *)
DrainOf(q, g, t) == <<Blank("RD_MAC", 0, 0, t, "res", q.y, g * Nch, q.count * Nch, 0)>>

(* A pass owns its latches from here to its last drain: one atom.           *)
Pass(m, q, nlatch, g0) ==
  LET ng == Least(nlatch, q.count - g0)
      Chunk(i) == (IF Hoist(q.off, q.len) THEN <<>> ELSE FillVector(q, i))
                  \o For(ng, LAMBDA t : MacOf(m, q, g0 + t, i, t))
  IN  For(SliceChunks(q.off, q.len), Chunk) \o For(ng, LAMBDA t : DrainOf(q, g0 + t, t))

PartRefused(m, q) == q.first + q.count > m.ngroups \/ SliceHi(q.off, q.len) > m.nredpad

(* The sequences pim_matvec_logical_part pushes: the hoisted load, then one *)
(* per atom.                                                                *)
PartRuns(m, q, nlatch) ==
  <<IF Hoist(q.off, q.len) THEN FillVector(q, 0) ELSE <<>>>>
  \o For(CeilDiv(q.count, nlatch), LAMBDA k : <<Pass(m, q, nlatch, k * nlatch)>>)

(* A logical program [isr, atoms], atoms the pairs <<first, last>>.         *)
NoProgram == [isr |-> <<>>, atoms |-> <<>>]
PushPart(lp, m, q, nlatch) ==
  LET runs == PartRuns(m, q, nlatch)
      before[k \in 1 .. Len(runs) + 1] == IF k = 1 THEN Len(lp.isr) ELSE before[k - 1] + Len(runs[k - 1])
  IN  [isr |-> lp.isr \o Seqs!FlattenSeq(runs),
       atoms |-> lp.atoms \o [k \in 1 .. Len(runs) - 1 |-> <<before[k + 1] + 1, before[k + 2]>>]]
PushEos(lp) == [lp EXCEPT !.isr = Append(@, EndOfProgram)]

------------------------------------------------------------------------------
(* Pass 2.                                                                  *)
Splits(lp, n) == Cardinality({i \in 1 .. n : lp.isr[i].op = "RD_MAC"})
LowerCount(lp) == Len(lp.isr) + Splits(lp, Len(lp.isr)) * (Nch - 1)

(* Where logical ISR i starts after the splits before it.                   *)
(* Mutant: all but the last of them.                                        *)
MappedEarly(lp, i) == i + Splits(lp, Most(i - 2, 0)) * (Nch - 1)
Mapped(lp, i) == i + Splits(lp, i - 1) * (Nch - 1)
LowerAtoms(lp) ==
  [k \in DOMAIN lp.atoms |-> <<Mapped(lp, lp.atoms[k][1]), Mapped(lp, lp.atoms[k][2] + 1) - 1>>]

(* The references resolved for channel ch.  EOS leaves its row blank.       *)
Resolve(b, ch) ==
  CASE b.buf = "mat" -> RowOf[b.index]
    [] b.buf = "vec" -> b.base + b.index
    [] b.buf = "res" -> VWords + b.base + b.index + ch
    [] OTHER -> 0
InRoom(lp) == \A i \in DOMAIN lp.isr :
  LET b == lp.isr[i] IN b.index + (IF b.op = "RD_MAC" THEN Nch - 1 ELSE 0) < b.room
Final(b, ch, chans) ==
  [op |-> b.op, sz |-> b.sz, row |-> Resolve(b, ch), ch |-> chans, t |-> b.t, col |-> b.col]

Legalise(b) ==
  IF b.op = "RD_MAC" THEN [c \in 1 .. Nch |-> Final(b, c - 1, {c - 1})] ELSE <<Final(b, 0, Chan)>>

(* The layout check: tag is what the vector buffer is stamped with.         *)
TagsAgree(lp, tag) == \A i \in DOMAIN lp.isr : lp.isr[i].tag \in {0, tag}
Lower(lp) == For(Len(lp.isr), LAMBDA i : Legalise(lp.isr[i + 1]))

------------------------------------------------------------------------------
(* What the answer is made of.  The products behind word w of a machine, in *)
(* the lane of bank b: matrix element times vector element vec[word][lane], *)
(* with how often each was added.                                           *)
Terms(s, p, vec, ch, b, w) ==
  LET Added == {a \in (s.gpr[w] \ {Foreign}) \X (0 .. 63) \X (0 .. Epb - 1) : a[2] < p[a[1][1]].sz}
      UnitAt(row) == CHOOSE u \in DOMAIN RowOf : RowOf[u] = row
      Term(a) == LET mac == p[a[1][1]]
                     fill == p[a[1][2]]
                 IN  <<FedAt(UnitAt(mac.row), ch, b, mac.col + a[2], a[3]), vec[fill.row + a[2]][a[3]]>>
      Own == {<<a, Term(a)>> : a \in Added}
  IN  {<<x[2], Cardinality({y \in Own : y[2] = x[2]})>> : x \in Own}
      \cup (IF Foreign \in s.gpr[w] THEN {<<<<0, Junk>>, 1>>} ELSE {})

(* The dot product of output o with the len elements stored under name v:   *)
(* each once, and besides them only zeroes of the vector.                   *)
Product(m, o, off, len, v) == {<<<<Offset(m, o, off + j), <<v, j>>>>, 1>> : j \in 0 .. len - 1}
IsProduct(terms, m, o, off, len, v) == {x \in terms : x[1][2] # Zero} = Product(m, o, off, len, v)

(* The vector's elements as they lie in words v ..: len of them, then zero. *)
VecElem(v, len, j) == IF j < len THEN <<v, j>> ELSE Zero
==============================================================================
