------------------------------- MODULE PimLegacy ------------------------------
(***************************************************************************)
(* The single-process runtime of the older images (runtime/): rows of card *)
(* memory from a list of holes, weights laid out in them, GEMVs in one or  *)
(* more launches, and the scrub after one that fails.  Addresses and sizes *)
(* are in whole RoBaCo rows, which is all pim_alloc ever hands out.        *)
(***************************************************************************)
EXTENDS PimIsr

CONSTANTS
  Rows,       \* rows of a channel
  LBanks,     \* PIM_BANKS (16)
  LLanes,     \* PIM_LANES, elements per beat (16)
  LBeats,     \* PIM_BEATS_PER_ROW (64)
  VecWords,   \* GPR words reserved for vectors; the results start behind them
  Handle,     \* weight handles of the caller
  Shapes,     \* what it stores: [n, k, bias]
  MaxOld      \* freed handles of which it still has a copy

ASSUME LegacyAssumption ==
  /\ {Rows, LBanks, LLanes, LBeats} \subseteq Nat \ {0} /\ VecWords \in Word /\ MaxOld \in Nat
  /\ Chan = {0} /\ Latches = {0} /\ Word = 0 .. Cardinality(Word) - 1
  /\ \A s \in Shapes : s.n \in Nat \ {0} /\ s.k \in Nat \ {0} /\ s.bias \in {0, 1}

Seqs == INSTANCE SequencesExt
Sets == INSTANCE FiniteSetsExt

VARIABLES
  holes,    \* the free list: [off, size], by offset
  used,     \* rows handed out
  old,      \* copies of handles that were freed
  weight,   \* handle -> its plan and place, or NoWeight
  stored,   \* handle -> its upload has succeeded
  dram,     \* (row, bank) -> elements
  latch,    \* what the accumulators hold between launches
  owed,     \* a launch has failed and no scrub has succeeded since
  answer    \* what the last call returned

heap == <<holes, used, old>>
contents == <<weight, stored, dram>>
lvars == <<holes, used, old, weight, stored, dram, latch, owed, answer>>

RowElems == LBeats * LLanes
CeilOf(a, b) == (a + b - 1) \div b
Lesser(a, b) == IF a <= b THEN a ELSE b
Zero == <<"zero">>
Stale == <<"stale">>
NoAnswer == [of |-> "none"]

------------------------------------------------------------------------------
(* The allocator.                                                           *)
End(b) == b.off + b.size
Fits(hs, want) == {i \in DOMAIN hs : hs[i].size >= want}

(* pim_alloc: first fit, from the low end of the hole.                      *)
Carved(hs, want) ==
  LET i == Sets!Min(Fits(hs, want))
  IN  IF hs[i].size = want THEN Seqs!RemoveAt(hs, i)
      ELSE [hs EXCEPT ![i] = [off |-> @.off + want, size |-> @.size - want]]
PlacedAt(hs, want) == [off |-> hs[Sets!Min(Fits(hs, want))].off, size |-> want]

(* pim_free: what it refuses as a double free or a corrupted handle.        *)
(* Mutant: only the runs that begin below are looked at.                    *)
FreeRefusedBelow(hs, b) ==
  End(b) > Rows \/ \E i \in DOMAIN hs : hs[i].off < b.off /\ End(hs[i]) > b.off
FreeRefused(hs, b) ==
  \/ End(b) > Rows
  \/ \E i \in DOMAIN hs : hs[i].off < b.off /\ End(hs[i]) > b.off
  \/ \E i \in DOMAIN hs : hs[i].off >= b.off /\ End(b) > hs[i].off

Touching(hs) == {i \in 1 .. Len(hs) - 1 : End(hs[i]) = hs[i + 1].off}
Merged(hs, i) ==
  Seqs!RemoveAt([hs EXCEPT ![i] = [off |-> @.off, size |-> @.size + hs[i + 1].size]], i + 1)

(* ... and the list with b in it: merged with the run on its right, then    *)
(* the first two runs that touch.                                           *)
GivenBack(hs, b) ==
  LET at == 1 + Cardinality({i \in DOMAIN hs : hs[i].off < b.off})
      put == Seqs!InsertAt(hs, at, b)
      right == IF at \in Touching(put) THEN Merged(put, at) ELSE put
  IN  IF Touching(right) = {} THEN right ELSE Merged(right, Sets!Min(Touching(right)))

------------------------------------------------------------------------------
(* Weights.  The bias is one more column, the last.                         *)
NoWeight == [size |-> 0]
PlanOf(s) ==
  LET beats == CeilOf(s.k + s.bias, LLanes)
      nchunks == CeilOf(beats, LBeats)
      ngroups == CeilOf(s.n, LBanks)
      perRow == IF nchunks = 1 THEN LBeats \div beats ELSE 1
  IN  [n |-> s.n, k |-> s.k, bias |-> s.bias, beats |-> beats, ngroups |-> ngroups,
       nchunks |-> nchunks, perRow |-> perRow, last |-> beats - (nchunks - 1) * LBeats,
       size |-> CeilOf(ngroups, perRow) * nchunks]

(* A plan that has its rows.                                                *)
PlanAt(plan, place) ==
  [x \in DOMAIN plan \cup {"off"} |-> IF x = "off" THEN place.off ELSE plan[x]]

ChunkBeats(w, c) == IF c = w.nchunks - 1 THEN w.last ELSE LBeats

(* pim_place_of, the only way from a handle to a ROW and a COL.             *)
PlaceRow(w, g, c) == w.off + (g \div w.perRow) * w.nchunks + c
PlaceCol(w, g) == IF w.perRow > 1 THEN (g % w.perRow) * w.beats ELSE 0
PlaceRefused(w, g, c) ==
  \/ g >= w.ngroups \/ c >= w.nchunks
  \/ PlaceCol(w, g) + ChunkBeats(w, c) > LBeats
  \/ PlaceRow(w, g, c) \notin w.off .. End(w) - 1

(* stage_bank: row r of bank b of handle h, zero where nothing belongs.     *)
Element(h, o, i) == <<h, o, i>>
StagedRow(w, h, r, b) ==
  [x \in 0 .. RowElems - 1 |->
     LET holds == {e \in (0 .. w.ngroups - 1) \X (0 .. w.k + w.bias - 1) :
                     /\ e[1] * LBanks + b < w.n /\ PlaceRow(w, e[1], e[2] \div RowElems) = r
                     /\ x = PlaceCol(w, e[1]) * LLanes + (e[2] % RowElems)}
     IN  IF holds = {} THEN Zero
         ELSE LET e == CHOOSE e \in holds : TRUE IN Element(h, e[1] * LBanks + b, e[2])]

(* pim_weight_upload, of which the first n banks arrive.                    *)
UploadedTo(mem, w, h, n) ==
  [x \in DOMAIN mem |-> IF x[1] \in w.off .. End(w) - 1 /\ x[2] < n
                        THEN StagedRow(w, h, x[1], x[2]) ELSE mem[x]]

------------------------------------------------------------------------------
(* A program.  The emitters' rules and those of pim_prog_verify; only the   *)
(* first rule broken is reported, and nothing of it is launched.            *)
IsrOf(op, sz, row, col) == [op |-> op, sz |-> sz, row |-> row, col |-> col, ch |-> {0}, t |-> 0]
Eos == IsrOf("EOS", 0, 0, 0)

ResultsAscend(p) ==
  \A i, j \in At(p, "RD_MAC") : i < j =>
    p[j].row - p[i].row = Cardinality({k \in At(p, "RD_MAC") : i < k /\ k <= j})

Accepted(p) ==
  /\ Len(p) \in 1 .. ImemWords
  /\ \A i \in At(p, "WRVEC") : p[i].sz \in 1 .. LBeats /\ p[i].row + p[i].sz <= Cardinality(Word)
  /\ VectorMatches(p) /\ Drained(p) /\ ResultsAscend(p) /\ p[Len(p)].op = "EOS"
  /\ \A i \in At(p, "RD_MAC") : p[i].row \in Word

(* One launch of p, on accumulators that hold l.                            *)
Ran(p, l) == AfterFrom(Machine([x \in {<<0, 0>>} |-> l]), p, Len(p))

(* pim_launch gives up after n ISRs of p: is a sum left behind?             *)
LeftBy(p, n, l) ==
  LET Reads == {j \in At(p, "RD_MAC") : j <= n}
      open == \E i \in At(p, "MAC") : i <= n /\ ~\E j \in Reads : i < j
  IN  IF open \/ (l # {} /\ Reads = {}) THEN {Foreign} ELSE {}

(* pim_scrub: one RD_MAC drains every bank.                                 *)
ScrubOf == <<IsrOf("RD_MAC", 0, VecWords, 0), Eos>>
(* Mutant: gemv returns its error and leaves the accumulators as they are.  *)
AfterScrubNone(l, works) == l
AfterScrub(l, works) == IF works THEN {} ELSE l

(* The sum behind the products prods in bank b: pairs of a matrix element   *)
(* other than padding and a vector element, with how often each was added.  *)
SumOf(p, mem, vec, prods, b) ==
  LET Beat == {a \in (prods \ {Foreign}) \X (0 .. LBeats - 1) \X (0 .. LLanes - 1) :
                 a[2] < p[a[1][1]].sz}
      Pair(a) == <<mem[<<p[a[1][1]].row, b>>][(p[a[1][1]].col + a[2]) * LLanes + a[3]],
                   vec[(p[a[1][2]].row + a[2]) * LLanes + a[3]]>>
      Real == {a \in Beat : Pair(a)[1] # Zero}
  IN  {<<Pair(a), Cardinality({c \in Real : Pair(c) = Pair(a)})>> : a \in Real}
      \cup (IF Foreign \in prods THEN {<<<<Stale, Stale>>, 1>>} ELSE {})

------------------------------------------------------------------------------
(* GEMV.  A job is some weights that share k and bias: one list of groups.  *)
Groups(ws) ==
  Seqs!FlattenSeq([j \in DOMAIN ws |->
    [g \in 1 .. weight[ws[j]].ngroups |-> [of |-> j, g |-> g - 1]]])

(* upload_vector: the elements, a 1.0 behind them for the bias, zeroes.     *)
VectorOf(w) ==
  [e \in 0 .. Cardinality(Word) * LLanes - 1 |->
     IF e < w.k THEN <<"x", e>> ELSE IF e = w.k /\ w.bias = 1 THEN <<"one">> ELSE Zero]
VectorWords(w) == (w.nchunks - 1) * LBeats + w.last

Fill(w, c) == IsrOf("WRVEC", ChunkBeats(w, c), c * LBeats, 0)
MacOn(w, g, c) == IsrOf("MAC", ChunkBeats(w, c), PlaceRow(w, g, c), PlaceCol(w, g))
ReadTo(i) == IsrOf("RD_MAC", 0, VecWords + i, 0)

(* run_fast: a chunk of the vector serves every group of the launch.        *)
FastProgram(ws, part) ==
  LET C == weight[ws[1]].nchunks
      One(c, i) == <<MacOn(weight[ws[part[i].of]], part[i].g, c), ReadTo(c * Len(part) + i - 1)>>
      Chunk(c) == <<Fill(weight[ws[1]], c)>> \o Seqs!FlattenSeq([i \in DOMAIN part |-> One(c, i)])
  IN  Seqs!FlattenSeq([c \in 1 .. C |-> Chunk(c - 1)]) \o <<Eos>>

(* run_exact: a group at a time; a vector that is there already is kept.    *)
ExactProgram(ws, part) ==
  LET C == weight[ws[1]].nchunks
      Needs(i, c) == C > 1 \/ i = 1
      One(i, c) == (IF Needs(i, c) THEN <<Fill(weight[ws[1]], c)>> ELSE <<>>)
                   \o <<MacOn(weight[ws[part[i].of]], part[i].g, c)>>
      Group(i) == Seqs!FlattenSeq([c \in 1 .. C |-> One(i, c - 1)]) \o <<ReadTo(i - 1)>>
  IN  Seqs!FlattenSeq([i \in DOMAIN part |-> Group(i)]) \o <<Eos>>

(* Groups behind one doorbell; 0 if not even one fits.                      *)
PerLaunch(C, exact) ==
  IF exact THEN IF ImemWords < 2 * C + 2 THEN 0 ELSE (ImemWords - 1) \div (2 * C + 1)
  ELSE IF ImemWords < 3 * C + 1 THEN 0 ELSE (ImemWords - C - 1) \div (2 * C)

Parts(ws, exact) ==
  LET per == PerLaunch(weight[ws[1]].nchunks, exact)
      all == Groups(ws)
  IN  [q \in 1 .. CeilOf(Len(all), per) |-> SubSeq(all, (q - 1) * per + 1, Lesser(q * per, Len(all)))]

ProgramOf(ws, part, exact) == IF exact THEN ExactProgram(ws, part) ELSE FastProgram(ws, part)

GemvPrograms(ws, exact) ==
  LET parts == Parts(ws, exact) IN [q \in DOMAIN parts |-> ProgramOf(ws, parts[q], exact)]

(* pim_gemv_multi returns at once if the vector has no room; a schedule     *)
(* refuses before its first launch.                                         *)
NoVector(ws) == VectorWords(weight[ws[1]]) > VecWords
GemvRefused(ws, exact) ==
  \/ PerLaunch(weight[ws[1]].nchunks, exact) = 0
  \/ LET programs == GemvPrograms(ws, exact) IN \E q \in DOMAIN programs : ~Accepted(programs[q])
  \/ \E j \in DOMAIN ws : \E g \in 0 .. weight[ws[j]].ngroups - 1, c \in 0 .. weight[ws[j]].nchunks - 1 :
       PlaceRefused(weight[ws[j]], g, c)

(* The words of group i of a launch of m: one, or one per chunk, which the  *)
(* host adds up.                                                            *)
WordsOf(i, m, C, exact) == {VecWords + c * m + i - 1 : c \in 0 .. (IF exact THEN 0 ELSE C - 1)}

(* What y is set to.  The first launch starts on what is in the             *)
(* accumulators, the others on what the one before leaves: nothing.         *)
AnswersOf(ws, exact) ==
  LET parts == Parts(ws, exact)
      programs == GemvPrograms(ws, exact)
      machines == [q \in DOMAIN parts |-> Ran(programs[q], IF q = 1 THEN latch ELSE {})]
      vec == VectorOf(weight[ws[1]])
      at(j, g) == CHOOSE x \in (DOMAIN parts) \X (1 .. Len(parts[1])) :
                    x[2] <= Len(parts[x[1]]) /\ parts[x[1]][x[2]] = [of |-> j, g |-> g]
      Sum(x, b) == SumOf(programs[x[1]], dram, vec,
                         UNION {machines[x[1]].gpr[w] :
                           w \in WordsOf(x[2], Len(parts[x[1]]), weight[ws[1]].nchunks, exact)}, b)
  IN  [j \in DOMAIN ws |->
         [o \in 0 .. weight[ws[j]].n - 1 |-> Sum(at(j, o \div LBanks), o % LBanks)]]

------------------------------------------------------------------------------
LInit ==
  /\ holes = <<[off |-> 0, size |-> Rows]>> /\ used = 0 /\ old = {}
  /\ weight = [h \in Handle |-> NoWeight] /\ stored = [h \in Handle |-> FALSE]
  /\ dram = [x \in (0 .. Rows - 1) \X (0 .. LBanks - 1) |-> [e \in 0 .. RowElems - 1 |-> Stale]]
  /\ latch = {} /\ owed = FALSE /\ answer = NoAnswer       \* pim_open has scrubbed

(* Every call is made after the caller has looked at the last answer.       *)
Quiet == answer = NoAnswer /\ UNCHANGED <<latch, owed, answer>>

Grow(want) == holes' = Carved(holes, want) /\ used' = used + want

WeightAlloc(h, s) ==
  /\ weight[h] = NoWeight
  /\ IF Fits(holes, PlanOf(s).size) = {} THEN UNCHANGED <<holes, used, weight>>
     ELSE /\ Grow(PlanOf(s).size)
          /\ weight' = [weight EXCEPT ![h] = PlanAt(PlanOf(s), PlacedAt(holes, PlanOf(s).size))]
  /\ Quiet /\ UNCHANGED <<old, stored, dram>>

(* pim_weight_upload; a transfer or the idle check after it may fail.       *)
Upload(h, n) ==
  /\ weight[h] # NoWeight
  /\ dram' = UploadedTo(dram, weight[h], h, n)
  /\ stored' = [stored EXCEPT ![h] = n = LBanks]
  /\ Quiet /\ UNCHANGED <<heap, weight>>

(* Rows given back: what was in them is stale to whoever gets them next.    *)
Abandoned(b) == [x \in DOMAIN dram |-> IF x[1] \in b.off .. End(b) - 1
                                       THEN [e \in 0 .. RowElems - 1 |-> Stale] ELSE dram[x]]

(* pim_weight_free zeroes the handle; the caller may have kept a copy.      *)
WeightFree(h, copied) ==
  LET b == [off |-> weight[h].off, size |-> weight[h].size]
  IN  /\ weight[h] # NoWeight
      /\ IF FreeRefused(holes, b) THEN UNCHANGED <<holes, used>>
         ELSE holes' = GivenBack(holes, b) /\ used' = used - b.size
      /\ copied => Cardinality(old) < MaxOld
      /\ old' = IF copied THEN old \cup {b} ELSE old
      /\ weight' = [weight EXCEPT ![h] = NoWeight] /\ stored' = [stored EXCEPT ![h] = FALSE]
      /\ dram' = Abandoned(b) /\ Quiet

(* pim_free of a copy, while some of what it names is free.                 *)
FreeAgain(b) ==
  /\ \E i \in DOMAIN holes : holes[i].off < End(b) /\ End(holes[i]) > b.off
  /\ IF FreeRefused(holes, b) THEN UNCHANGED <<holes, used>>
     ELSE holes' = GivenBack(holes, b) /\ used' = used - b.size
  /\ old' = old \ {b}
  /\ Quiet /\ UNCHANGED contents

(* pim_gemv_multi: its answer, ...                                          *)
Gemv(ws, exact) ==
  /\ answer = NoAnswer /\ ~NoVector(ws) /\ ~GemvRefused(ws, exact)
  /\ answer' = [of |-> "gemv", ws |-> ws, y |-> AnswersOf(ws, exact)]
  /\ latch' = {} /\ UNCHANGED <<heap, contents, owed>>

(* ... or an error, of the schedule or of a launch that died after n ISRs,  *)
(* and a scrub, whose own error is dropped.                                 *)
LeftBehind(programs) ==
  UNION {{LeftBy(programs[q], n, IF q = 1 THEN latch ELSE {}) : n \in 0 .. Len(programs[q])} :
           q \in DOMAIN programs}
GemvFailed(ws, exact) ==
  /\ answer = NoAnswer /\ ~NoVector(ws)
  /\ IF GemvRefused(ws, exact)
     THEN \E works \in BOOLEAN : latch' = AfterScrub(latch, works) /\ owed' = (owed /\ ~works)
     ELSE \E l \in LeftBehind(GemvPrograms(ws, exact)), works \in BOOLEAN :
            latch' = AfterScrub(l, works) /\ owed' = ~works
  /\ UNCHANGED <<heap, contents, answer>>

(* pim_scrub by the caller.                                                 *)
Scrubs ==
  /\ answer = NoAnswer
  /\ latch' = AfterScrub(latch, TRUE) /\ owed' = FALSE
  /\ UNCHANGED <<heap, contents, answer>>

(* The caller is done with an answer.                                       *)
Look == answer # NoAnswer /\ answer' = NoAnswer /\ UNCHANGED <<heap, contents, latch, owed>>

(* One weight or two that share k and bias, of those that were uploaded.    *)
Ready == {h \in Handle : stored[h]}
Jobs == {<<h>> : h \in Ready}
        \cup {<<x[1], x[2]>> : x \in {y \in Ready \X Ready :
                 weight[y[1]].k = weight[y[2]].k /\ weight[y[1]].bias = weight[y[2]].bias}}

LNext ==
  \/ \E h \in Handle, s \in Shapes : WeightAlloc(h, s)
  \/ \E h \in Handle, n \in 0 .. LBanks : Upload(h, n)
  \/ \E h \in Handle, copied \in BOOLEAN : WeightFree(h, copied)
  \/ \E b \in old : FreeAgain(b)
  \/ \E ws \in Jobs, exact \in BOOLEAN : Gemv(ws, exact) \/ GemvFailed(ws, exact)
  \/ Scrubs

------------------------------------------------------------------------------
Buffers == {[off |-> weight[h].off, size |-> weight[h].size] : h \in {g \in Handle : weight[g] # NoWeight}}

(* The holes are in order, apart and never touching, and they and the       *)
(* buffers in use are the whole space, each row once: "coalescing is not    *)
(* optional" (pim_alloc.c:40-43), and a copy of a handle that was freed     *)
(* takes nothing from anyone while what it names is free, whole or in part. *)
HeapIsExactFor(bufs) ==
  LET free == {[off |-> holes[i].off, size |-> holes[i].size] : i \in DOMAIN holes}
      rows(b) == b.off .. End(b) - 1
  IN  /\ \A i \in 1 .. Len(holes) - 1 : End(holes[i]) < holes[i + 1].off
      /\ \A b, c \in free \cup bufs : b # c => rows(b) \cap rows(c) = {}
      /\ UNION {rows(b) : b \in free \cup bufs} = 0 .. Rows - 1
      /\ used = Cardinality(UNION {rows(b) : b \in bufs})

(* A GEMV that returns no error returns the dot products, bias included:    *)
(* every product once and no padding, stale bytes, other tenant's rows or   *)
(* sums of a launch that died, whatever the schedule and the splits, if     *)
(* every failed launch was followed by a scrub that worked ("so one bad     *)
(* kernel does not quietly corrupt everything after it", pim_gemv.c:250).   *)
Dot(w, h, o) ==
  {<<<<Element(h, o, i), VectorOf(w)[i]>>, 1>> : i \in 0 .. w.k + w.bias - 1}
LegacyAnswers ==
  answer.of = "gemv" /\ ~owed =>
    \A j \in DOMAIN answer.ws : \A o \in DOMAIN answer.y[j] :
      answer.y[j][o] = Dot(weight[answer.ws[j]], answer.ws[j], o)
==============================================================================
