------------------------------ MODULE PimLegacyKv -----------------------------
(***************************************************************************)
(* The KV cache and the two attention products of the single-process       *)
(* runtime (runtime/pim_attn.c), on the heap, the board and beside the     *)
(* weights of PimLegacy.  K goes out position by position; V is kept on    *)
(* the host until it makes whole beats, and then goes out transposed.      *)
(***************************************************************************)
EXTENDS PimLegacy

CONSTANTS
  Hkv, HeadDim, MaxPos,   \* the arguments of pim_kv_alloc, ...
  FlushGran,  \* ... and the positions of a flush it may ask for
  Heads,      \* query head h - 1 reads kv head Heads[h]
  HandFlush   \* the caller also flushes when it pleases

ASSUME KvAssumption ==
  /\ {Hkv, HeadDim, MaxPos} \cup FlushGran \subseteq Nat \ {0} /\ HandFlush \in BOOLEAN
  /\ HeadDim % LLanes = 0 /\ \A n \in FlushGran : n % LLanes = 0 /\ RowElems % n = 0
  /\ (Hkv * HeadDim) % LBanks = 0 /\ LBeats % ((Hkv * HeadDim) \div LLanes) = 0
  /\ \A h \in DOMAIN Heads : Heads[h] \in 0 .. Hkv - 1

VARIABLE kv    \* the cache, or NoKv
kvars == <<holes, used, old, weight, stored, dram, latch, owed, answer, kv>>

NoKv == [npos |-> 0]
Dims == Hkv * HeadDim
PosBeats == Dims \div LLanes
PosPerRow == LBeats \div PosBeats
VGroups == Dims \div LBanks
VChunks == CeilOf(MaxPos, RowElems)
KRows == CeilOf(CeilOf(MaxPos, LBanks), PosPerRow)
VRows == VGroups * VChunks

(* k_place: group g of positions, from the first dimension of kv head h.    *)
KRow(c, g) == c.k.off + g \div PosPerRow
KCol(g, h) == (g % PosPerRow) * PosBeats + h * (HeadDim \div LLanes)
(* v_row: group g of dimensions, chunk cc of positions.                     *)
VRow(c, g, cc) == c.v.off + g * VChunks + cc

KElem(t, d) == <<"k", t, d>>
Nothing == -1                                 \* a slot of the buffer from calloc
VElem(t, d) == IF t = Nothing THEN Zero ELSE <<"v", t, d>>

------------------------------------------------------------------------------
(* pim_kv_alloc: K's rows, V's rows, and zeroes in every bank of both, of   *)
(* which those of the first n banks arrive; failing, it gives back what it  *)
(* took.                                                                    *)
KvTaken == Carved(Carved(holes, KRows), VRows)
KvAlloc ==
  /\ kv = NoKv
  /\ IF Fits(holes, KRows) = {} \/ Fits(Carved(holes, KRows), VRows) = {}
     THEN UNCHANGED <<holes, used, kv, dram>>
     ELSE LET k == PlacedAt(holes, KRows)
              v == PlacedAt(Carved(holes, KRows), VRows)
              in(x) == x[1] \in k.off .. End(k) - 1 \/ x[1] \in v.off .. End(v) - 1
          IN  \/ /\ holes' = KvTaken /\ used' = used + KRows + VRows
                 /\ dram' = [x \in DOMAIN dram |->
                               IF in(x) THEN [e \in 0 .. RowElems - 1 |-> Zero] ELSE dram[x]]
                 /\ \E gran \in FlushGran :
                      kv' = [k |-> k, v |-> v, npos |-> 0, flushed |-> 0, torn |-> FALSE, skewed |-> FALSE,
                             gran |-> gran, pending |-> [i \in 0 .. gran - 1 |-> Nothing]]
              \/ /\ holes' = GivenBack(GivenBack(KvTaken, k), v)      \* a transfer failed
                 /\ UNCHANGED <<used, dram, kv>>
  /\ Quiet /\ UNCHANGED <<old, weight, stored>>

KvFree ==
  /\ kv # NoKv
  /\ holes' = GivenBack(GivenBack(holes, kv.k), kv.v) /\ used' = used - KRows - VRows
  /\ dram' = [x \in DOMAIN dram |-> IF x[1] \in (kv.k.off .. End(kv.k) - 1) \cup (kv.v.off .. End(kv.v) - 1)
                                    THEN [e \in 0 .. RowElems - 1 |-> Stale] ELSE dram[x]]
  /\ kv' = NoKv /\ Quiet /\ UNCHANGED <<old, weight, stored>>

(* What pim_kv_flush sends of a cache c: the whole beats of what it holds,  *)
(* from the front of the buffer, to the chunk and beat of the first.        *)
Held(c) == c.npos - c.flushed
Whole(c) == (Held(c) \div LLanes) * LLanes
FlushRefused(c) == c.flushed \div RowElems # (c.flushed + Whole(c) - 1) \div RowElems
(* Mutant: the beats go to the front of the row.                            *)
FlushStartFront(c) == 0
FlushStart(c) == c.flushed % RowElems

(* Row g of bank b after it.                                                *)
FlushedRow(c, row, g, b) ==
  [e \in DOMAIN row |->
     IF e - FlushStart(c) \in 0 .. Whole(c) - 1
     THEN VElem(c.pending[e - FlushStart(c)], g * LBanks + b) ELSE row[e]]
FlushedTo(c, mem, n) ==
  [x \in DOMAIN mem |->
     LET groups == {g \in 0 .. VGroups - 1 :
                      x[1] = VRow(c, g, c.flushed \div RowElems) /\ g * LBanks + x[2] < n}
     IN  IF groups = {} THEN mem[x] ELSE FlushedRow(c, mem[x], Sets!Min(groups), x[2])]

(* ... and what is left slides to the front.                                *)
Slid(c) ==
  [c EXCEPT !.flushed = @ + Whole(c),
            !.pending = [i \in DOMAIN @ |-> IF i < Held(c) - Whole(c) THEN @[i + Whole(c)] ELSE @[i]]]

(* pim_kv_flush of c over mem: refused, broken off after n of the rows, or  *)
(* done.                                                                    *)
Flush(c, mem) ==
  IF Whole(c) = 0 THEN kv' = c /\ dram' = mem
  ELSE IF FlushRefused(c) THEN kv' = [c EXCEPT !.torn = TRUE] /\ dram' = mem
  ELSE \/ kv' = Slid(c) /\ dram' = FlushedTo(c, mem, Dims)
       \/ \E n \in 0 .. Dims - 1 : kv' = [c EXCEPT !.torn = TRUE] /\ dram' = FlushedTo(c, mem, n)

(* The caller gives up a cache whose flush has failed: its count is ahead   *)
(* of its buffer, and another flush would read past it.                     *)
(* pim_kv_append of position npos: K to its bank, V into the slot of the    *)
(* buffer that npos has in its flush_gran positions, and a flush whenever   *)
(* these are complete.  `skewed' is kept here only: a flush by hand had     *)
(* sent some of them before.                                                *)
KvAppend ==
  /\ kv # NoKv /\ kv.npos < MaxPos /\ ~kv.torn
  /\ LET t == kv.npos
         x == <<KRow(kv, t \div LBanks), t % LBanks>>
         from == KCol(t \div LBanks, 0) * LLanes
         mem == [dram EXCEPT ![x] = [e \in DOMAIN @ |-> IF e - from \in 0 .. Dims - 1
                                                        THEN KElem(t, e - from) ELSE @[e]]]
         c == [kv EXCEPT !.npos = @ + 1, !.pending[t % kv.gran] = t,
                           !.skewed = @ \/ kv.flushed % kv.gran # 0]
     IN  \/ IF c.npos % kv.gran = 0 THEN Flush(c, mem) ELSE kv' = c /\ dram' = mem
         \/ kv' = kv /\ dram' \in {dram, mem}                         \* K's transfer failed
  /\ Quiet /\ UNCHANGED <<heap, weight, stored>>

FlushByHand ==
  /\ HandFlush /\ kv # NoKv /\ ~kv.torn /\ Flush(kv, dram)
  /\ Quiet /\ UNCHANGED <<heap, weight, stored>>

------------------------------------------------------------------------------
(* Both products cut a launch at heads: `step' heads of `each' ISRs, after  *)
(* which the accumulators are empty.                                        *)
NumHeads == Len(Heads)
Step(each) == (ImemWords - 1) \div each
HeadsOf(q, step) == ((q - 1) * step + 1) .. Lesser(q * step, NumHeads)

(* One head of a launch: its vector, then a MAC and a read for each of the  *)
(* m places of at.                                                          *)
HeadProgram(h, op, m, at(_), firstRes) ==
  <<IsrOf("WRVEC", op, (h - 1) * op, 0)>>
  \o Seqs!FlattenSeq([g \in 1 .. m |->
       <<IsrOf("MAC", op, at(g - 1)[1], at(g - 1)[2]), ReadTo(firstRes + g - 1)>>])
Launches(step, op, m, at(_, _)) ==
  [q \in 1 .. CeilOf(NumHeads, step) |->
     Seqs!FlattenSeq([i \in 1 .. Cardinality(HeadsOf(q, step)) |->
       LET h == (q - 1) * step + i IN HeadProgram(h, op, m, LAMBDA g : at(h, g), (i - 1) * m)])
     \o <<Eos>>]

(* What the launches leave behind each place g of each head h, started on l.*)
Results(programs, step, m, l) ==
  UNION {LET s == Ran(programs[q], IF q = 1 THEN l ELSE {})
         IN  {[h |-> h, g |-> g, sum |-> s.gpr[VecWords + ((h - 1) % step) * m + g]] :
                h \in HeadsOf(q, step), g \in 0 .. m - 1} : q \in DOMAIN programs}
Behind(results, h, g) == (CHOOSE r \in results : r.h = h /\ r.g = g).sum

(* pim_attn_scores.                                                         *)
ScoreBeats == HeadDim \div LLanes
ScoreGroups == CeilOf(kv.npos, LBanks)
ScoreStep == Step(1 + 2 * ScoreGroups)
ScorePrograms ==
  Launches(ScoreStep, ScoreBeats, ScoreGroups, LAMBDA h, g : <<KRow(kv, g), KCol(g, Heads[h])>>)
ScoresRefused ==
  \/ kv.npos = 0 \/ NumHeads * ScoreBeats > VecWords \/ ScoreStep = 0
  \/ \E q \in DOMAIN ScorePrograms : ~Accepted(ScorePrograms[q])
Queries == [e \in 0 .. VecWords * LLanes - 1 |-> <<"q", e \div HeadDim + 1, e % HeadDim>>]

Scores ==
  /\ answer = NoAnswer /\ kv # NoKv /\ ~ScoresRefused
  /\ LET programs == ScorePrograms
         results == Results(programs, ScoreStep, ScoreGroups, latch)
         Score(h, t) == SumOf(programs[CeilOf(h, ScoreStep)], dram, Queries,
                              Behind(results, h, t \div LBanks), t % LBanks)
     IN  answer' = [of |-> "scores",
                    y |-> [h \in 1 .. NumHeads |-> [t \in 0 .. kv.npos - 1 |-> Score(h, t)]]]
  /\ latch' = {} /\ UNCHANGED <<heap, contents, owed, kv>>

(* pim_attn_output: chunk by chunk what is on the card, ...                 *)
OutChunks == CeilOf(kv.flushed, RowElems)
OutLen(cc) == Lesser(kv.flushed - cc * RowElems, RowElems)
OutBeats(cc) == CeilOf(OutLen(cc), LLanes)
HeadGroups == HeadDim \div LBanks
OutStep == Step(1 + 2 * HeadGroups)
OutPrograms(cc) ==
  Launches(OutStep, OutBeats(cc), HeadGroups,
           LAMBDA h, g : <<VRow(kv, (Heads[h] * HeadDim) \div LBanks + g, cc), 0>>)
OutputRefused ==
  \E cc \in 0 .. OutChunks - 1 :
    \/ NumHeads * OutBeats(cc) > VecWords \/ OutStep = 0
    \/ \E q \in DOMAIN OutPrograms(cc) : ~Accepted(OutPrograms(cc)[q])
Probs(cc) ==
  [e \in 0 .. VecWords * LLanes - 1 |->
     LET n == OutBeats(cc) * LLanes
     IN  IF e % n < OutLen(cc) THEN <<"p", e \div n + 1, cc * RowElems + (e % n)>> ELSE Zero]

(* ... and on the host what is not.                                         *)
TailOf(h, d) ==
  {<<Nothing, <<VElem(kv.pending[t - kv.flushed], Heads[h] * HeadDim + d), <<"p", h, t>>>>, 1>> :
     t \in kv.flushed .. kv.npos - 1}
OutResults ==
  UNION {{<<cc, r>> : r \in Results(OutPrograms(cc), OutStep, HeadGroups, IF cc = 0 THEN latch ELSE {})} :
           cc \in 0 .. OutChunks - 1}
DeviceOf(results, h, d) ==
  UNION {LET cc == x[1]
             sums == SumOf(OutPrograms(cc)[CeilOf(h, OutStep)], dram, Probs(cc), x[2].sum, d % LBanks)
         IN  {<<cc, y[1], y[2]>> : y \in sums} :
           x \in {z \in results : z[2].h = h /\ z[2].g = d \div LBanks}}

Output ==
  /\ answer = NoAnswer /\ kv # NoKv /\ ~OutputRefused
  /\ LET results == OutResults
     IN  answer' = [of |-> "output",
                    y |-> [h \in 1 .. NumHeads |->
                             [d \in 0 .. HeadDim - 1 |-> DeviceOf(results, h, d) \cup TailOf(h, d)]]]
  /\ latch' = (IF OutChunks = 0 THEN latch ELSE {}) /\ UNCHANGED <<heap, contents, owed, kv>>

(* A launch of either that dies; nothing scrubs but the caller.             *)
AttentionFailed ==
  /\ answer = NoAnswer /\ kv # NoKv
  /\ \/ ~ScoresRefused /\ latch' \in LeftBehind(ScorePrograms)
     \/ ~OutputRefused /\ \E cc \in 0 .. OutChunks - 1 : latch' \in LeftBehind(OutPrograms(cc))
  /\ owed' = TRUE
  /\ UNCHANGED <<heap, contents, answer, kv>>

------------------------------------------------------------------------------
Init == LInit /\ kv = NoKv
Next ==
  \/ LNext /\ UNCHANGED kv
  \/ KvAlloc \/ KvFree \/ KvAppend \/ FlushByHand \/ Scores \/ Output \/ AttentionFailed
  \/ Look /\ UNCHANGED kv
Spec == Init /\ [][Next]_kvars

KvBuffers == IF kv = NoKv THEN {} ELSE {kv.k, kv.v}
HeapIsExact == HeapIsExactFor(Buffers \cup KvBuffers)

(* A score is q.K[t] of its own kv head; an output sums p[t]V[t] over every *)
(* position once, whether it is in DRAM or still buffered.                  *)
KeyDot(h, t) == {<<<<KElem(t, Heads[h] * HeadDim + d), <<"q", h, d>>>>, 1>> : d \in 0 .. HeadDim - 1}
ValueSum(h, d) ==
  {<<<<VElem(t, Heads[h] * HeadDim + d), <<"p", h, t>>>>, 1>> : t \in 0 .. kv.npos - 1}
ScoresExact ==
  \A h \in DOMAIN answer.y : \A t \in DOMAIN answer.y[h] : answer.y[h][t] = KeyDot(h, t)
OutputExact ==
  \A h \in DOMAIN answer.y : \A d \in DOMAIN answer.y[h] :
    /\ {<<x[2], x[3]>> : x \in answer.y[h][d]} = ValueSum(h, d)
    /\ Cardinality(answer.y[h][d]) = kv.npos

(* Attention reads the sequence that was appended, over appends, flushes of *)
(* several beats and flushes by hand at any moment, as long as failed       *)
(* launches are scrubbed after, failed flushes are given up, and no         *)
(* position is appended after a flush by hand that took part of a buffer.   *)
AttentionExact ==
  ~owed => /\ answer.of = "scores" => ScoresExact
           /\ answer.of = "output" /\ ~kv.torn /\ ~kv.skewed => OutputExact

(* "whatever has not been flushed is folded into pim_attn_output on the     *)
(* host, in the same fp32 accumulator, so the split does not show in the    *)
(* answer" (pim.h:309-311), whenever the caller flushes.  Not so in the     *)
(* code: the append after a flush by hand writes slot npos % flush_gran of  *)
(* a buffer that was slid to the front, and the output reads another slot.  *)
SplitUnseen == ~owed /\ answer.of = "output" /\ ~kv.torn => OutputExact
==============================================================================
