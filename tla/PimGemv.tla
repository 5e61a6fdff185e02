------------------------------- MODULE PimGemv --------------------------------
(***************************************************************************)
(* The GEMV kernel (pim_gemv.c): a product over the whole reduction axis,  *)
(* built straight into ISRs and split over as many launches as IMEM asks   *)
(* for; three ways to put the weights on the card; and the same product    *)
(* through the two passes of PimMatvec.                                    *)
(***************************************************************************)
EXTENDS PimMatvec

BeatsPerRow == Epr \div Epb
LastBeats(m) == m.nredpad \div Epb - (m.nchunks - 1) * BeatsPerRow
GemvBeats(m, ck) == IF ck = m.nchunks - 1 THEN LastBeats(m) ELSE BeatsPerRow

------------------------------------------------------------------------------
(* The weights on the card, of a caller that stores matrix v: memory before *)
(* the call in, memory after it out.                                        *)
IsEager(m) == m.nchunks = 1

(* pim_gemv_upload: permuted on the host into a zeroed image.               *)
GemvUpload(m, mem, v) ==
  [x \in DOMAIN mem |->
     IF \E j \in 0 .. m.nout - 1, i \in 0 .. m.nred - 1 : x = Offset(m, j, i)
     THEN LET e == CHOOSE e \in (0 .. m.nout - 1) \X (0 .. m.nred - 1) : x = Offset(m, e[1], e[2])
          IN  Stored(v, e[1], e[2])
     ELSE Zero]

(* pim_gemv_pack_eager: one row buffer per output, zero behind its nred.    *)
PackEager(m, v) ==
  [x \in 0 .. m.noutpad * Epr - 1 |->
     IF x \div Epr < m.nout /\ x % Epr < m.nred THEN Stored(v, x \div Epr, x % Epr) ELSE Zero]

(* pim_gemv_upload_eager: the host's array as it is.                        *)
GemvUploadEager(m, mem, v) == [x \in DOMAIN mem |-> PackEager(m, v)[x]]

(* pim_gemv_upload_rows: nredpad elements of each real output, from an      *)
(* array of nout rows of nredpad; what lies behind them keeps its contents. *)
(* Mutant: the reduction alone, its beat not filled up.                     *)
GemvUploadRowsTight(m, mem, v) ==
  [x \in DOMAIN mem |->
     IF x \div Epr < m.nout /\ x % Epr < m.nred THEN Stored(v, x \div Epr, x % Epr) ELSE mem[x]]
GemvUploadRows(m, mem, v) ==
  [x \in DOMAIN mem |->
     IF x \div Epr >= m.nout \/ x % Epr >= m.nredpad THEN mem[x]
     ELSE IF x % Epr < m.nred THEN Stored(v, x \div Epr, x % Epr) ELSE Zero]

(* pim_gemv_verify: read back and compared, element by element.             *)
GemvVerify(m, mem, v) ==
  \A j \in 0 .. m.nout - 1, i \in 0 .. m.nred - 1 : mem[Offset(m, j, i)] = Stored(v, j, i)

(* The GPR words of the vector after pim_gemv_upload_x: nredpad elements,   *)
(* the last of them zero.                                                   *)
GemvUploadX(m, vec, v) ==
  [w \in DOMAIN vec |->
     IF w < m.nredpad \div Epb THEN [l \in 0 .. Epb - 1 |-> VecElem(v, m.nred, w * Epb + l)]
     ELSE vec[w]]

------------------------------------------------------------------------------
(* What a program costs, the EOS included, and how many groups fit in one.  *)
GemvNwrvec(m, count, nlatch) ==
  IF IsEager(m) THEN (IF count > 0 THEN 1 ELSE 0) ELSE CeilDiv(count, nlatch) * m.nchunks

GemvNisr(m, count, nlatch) ==
  1 + GemvNwrvec(m, count, nlatch) + m.nchunks * count + count * Nch

(* Whole passes; 0 if not even one fits.  Mutant: the vector loads of a     *)
(* pass are not counted.                                                    *)
PassCostLean(m, nlatch) == m.nchunks * nlatch + nlatch * Nch
PassCost(m, nlatch) ==
  m.nchunks * nlatch + nlatch * Nch + (IF IsEager(m) THEN 0 ELSE m.nchunks)
GroupsPerLaunch(m, nlatch, maxIsrs) ==
  LET fixed == 1 + (IF IsEager(m) THEN 1 ELSE 0)
      passes == (maxIsrs - fixed) \div PassCost(m, nlatch)
  IN  IF maxIsrs <= fixed THEN 0 ELSE Least(passes * nlatch, m.ngroups)

(* The GPR words of the two allocations a caller makes.                     *)
GprWords(m, nlatch, maxIsrs) ==
  LET gpl == GroupsPerLaunch(m, nlatch, maxIsrs)
  IN  [x |-> m.nredpad \div Epb, y |-> (IF gpl > 0 THEN gpl ELSE m.ngroups) * Nch]

------------------------------------------------------------------------------
(* pim_gemv_program: groups first .. first + count - 1, the vector from     *)
(* GPR word xword on, the results from yword on, counted from this          *)
(* launch's first group.                                                    *)
Encoded(op, sz, row, chans, t) ==
  [op |-> op, sz |-> sz, row |-> row, ch |-> chans, t |-> t, col |-> 0]

LoadChunk(m, xword, ck) ==
  <<Encoded("WRVEC", GemvBeats(m, ck), xword + ck * BeatsPerRow, Chan, 0)>>

(* Mutant: the result words are counted from the tensor's first group.      *)
DrainGroupAbsolute(yword, first, g, t) ==
  [c \in 1 .. Nch |-> Encoded("RD_MAC", 0, yword + (first + g) * Nch + c - 1, {c - 1}, t)]
DrainGroup(yword, first, g, t) ==
  [c \in 1 .. Nch |-> Encoded("RD_MAC", 0, yword + g * Nch + c - 1, {c - 1}, t)]

GemvPass(m, first, count, xword, yword, nlatch, g0) ==
  LET ng == Least(nlatch, count - g0)
      Mac(ck, t) == <<Encoded("MAC", GemvBeats(m, ck), RowOf[Unit(m, first + g0 + t, ck)], Chan, t)>>
      Chunk(ck) == (IF IsEager(m) THEN <<>> ELSE LoadChunk(m, xword, ck)) \o For(ng, LAMBDA t : Mac(ck, t))
  IN  For(m.nchunks, Chunk) \o For(ng, LAMBDA t : DrainGroup(yword, first, g0 + t, t))

GemvProgram(m, first, count, xword, yword, nlatch) ==
  (IF IsEager(m) THEN LoadChunk(m, xword, 0) ELSE <<>>)
    \o For(CeilDiv(count, nlatch),
           LAMBDA k : GemvPass(m, first, count, xword, yword, nlatch, k * nlatch))
    \o <<Encoded("EOS", 0, 0, Chan, 0)>>

(* pim_gemv_logical: a matvec over the whole reduction axis.                *)
GemvLogical(m, first, count, nlatch) ==
  PushEos(PushPart(NoProgram, m, Piece(first, count, 0, m.nred, 0, 0), nlatch))

(* Where the answers of a launch go: word (sg * nch + ch), lane b is output *)
(* ((g0 + sg) * nch + ch) * nbank + b, unless that is padding.              *)
Collected(m, g0, ng) ==
  {j \in 0 .. m.nout - 1 : j \div PerGroup \in g0 .. g0 + ng - 1}
ResultWord(j, g0) == (j \div PerGroup - g0) * Nch + (j % PerGroup) \div Nbank
==============================================================================
