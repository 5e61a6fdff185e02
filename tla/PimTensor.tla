------------------------------ MODULE PimTensor -------------------------------
(***************************************************************************)
(* A matrix on the card: where pim_tensor.c puts an element, how its calls *)
(* move rectangles of elements there, and what they leave behind when a    *)
(* transfer fails.  A tensor is a record of its plan, its growth state and *)
(* the contents of its allocation; every call is an operator that yields   *)
(* the set of its outcomes [t, ok].                                        *)
(***************************************************************************)
EXTENDS Integers

CONSTANTS
  Epb,      \* PIM_TENSOR_ELEMS_PER_BEAT (16)
  Epr,      \* PIM_TENSOR_ELEMS_PER_ROW (1024), a multiple of Epb
  Nch,      \* channels
  Nbank,    \* banks of a channel
  Faults    \* transfers may fail

ASSUME TensorAssumption ==
  /\ Epb \in Nat \ {0} /\ Epr \in Nat \ {0} /\ Epr % Epb = 0
  /\ Nch \in Nat \ {0} /\ Nbank \in Nat \ {0} /\ Faults \in BOOLEAN

Layout == {"out", "red"}   \* which axis the host walks first, and which grows

CeilDiv(n, d) == (n + d - 1) \div d
RoundUp(n, d) == CeilDiv(n, d) * d
Least(a, b) == IF a <= b THEN a ELSE b
Most(a, b) == IF a >= b THEN a ELSE b

(* Element values: zero, what an unwritten page holds, or what the caller   *)
(* stored under the name v for step i of the growth axis and index j of the *)
(* other.                                                                   *)
Zero == <<>>
Junk == <<0>>
None == [base |-> 0]                           \* a caller that has no tensor
Stored(v, i, j) == <<v, i, j>>

------------------------------------------------------------------------------
(* The plan.                                                                *)
PerGroup == Nch * Nbank
UnitElems == PerGroup * Epr

Plan(layout, nout, nred) ==
  [layout |-> layout, nout |-> nout, nred |-> nred,
   noutpad |-> RoundUp(nout, PerGroup), nredpad |-> RoundUp(nred, Epb),
   ngroups |-> CeilDiv(nout, PerGroup), nchunks |-> CeilDiv(RoundUp(nred, Epb), Epr),
   frontier |-> 0, zeroed |-> 0]

Elems(t) == 0 .. t.ngroups * t.nchunks * UnitElems - 1
Grow(t) == IF t.layout = "out" THEN t.nout ELSE t.nred

Unit(t, group, chunk) == group * t.nchunks + chunk

(* pim_tensor_offset, in elements.                                          *)
Offset(t, out, red) ==
  Unit(t, out \div PerGroup, red \div Epr) * UnitElems
    + ((out \div Nbank) % Nch) * Nbank * Epr + (out % Nbank) * Epr
    + ((red % Epr) \div Epb) * Epb + ((red % Epr) % Epb)

(* What bank b of channel ch feeds its MAC when an ISR names the row of     *)
(* unit u: beat col, lane l of the row.                                     *)
FedAt(u, ch, b, col, l) == u * UnitElems + (ch * Nbank + b) * Epr + col * Epb + l
Fed(t, u, ch, b, col, l) == t.mem[FedAt(u, ch, b, col, l)]

(* Element red of output o as a launch sees it: result word (group, ch),    *)
(* lane b is output (group * nch + ch) * nbank + b.                         *)
Seen(t, o, red) ==
  Fed(t, Unit(t, o \div PerGroup, red \div Epr),
      (o % PerGroup) \div Nbank, o % Nbank, (red % Epr) \div Epb, red % Epb)

------------------------------------------------------------------------------
(* The scatter: a rectangle goes out output by output, in runs that stop at *)
(* the end of a chunk.                                                      *)
Rect(out0, nout, red0, nred) == [out0 |-> out0, nout |-> nout, red0 |-> red0, nred |-> nred]
Nothing == Rect(0, 0, 0, 0)

ChunksOf(r) == (r.red0 + r.nred - 1) \div Epr - r.red0 \div Epr + 1
Runs(r) == IF r.nout = 0 \/ r.nred = 0 THEN 0 ELSE r.nout * ChunksOf(r)

RunEnd(r, c) == Least(r.red0 + r.nred, (c + 1) * Epr)

Run(r, k) ==
  LET c == r.red0 \div Epr + (k % ChunksOf(r))
      from == Most(r.red0, c * Epr)
  IN  [out |-> r.out0 + k \div ChunksOf(r), red |-> from, len |-> RunEnd(r, c) - from]

(* What element (out, red) gets from the host: with no source a zero, else  *)
(* its place in the step that src names.                                    *)
Null == 0
Host(t, src, out, red) ==
  IF src = Null THEN Zero
  ELSE IF t.layout = "out" THEN Stored(src, out, red) ELSE Stored(src, red, out)

(* The contents after the first n transfers of r.                           *)
Scatter(t, r, n, src) ==
  LET Hits(x) == {k \in 0 .. n - 1 :
                    x - Offset(t, Run(r, k).out, Run(r, k).red) \in 0 .. Run(r, k).len - 1}
  IN  [x \in DOMAIN t.mem |->
         IF Hits(x) = {} THEN t.mem[x]
         ELSE LET k == CHOOSE k \in Hits(x) : TRUE
                  run == Run(r, k)
              IN  Host(t, src, run.out, run.red + (x - Offset(t, run.out, run.red)))]

Sent(t, r, src) == [t EXCEPT !.mem = Scatter(t, r, Runs(r), src)]
(* A transfer after the first few fails.                                    *)
CutShort(t, r, src) ==
  IF Faults THEN {[t EXCEPT !.mem = Scatter(t, r, n, src)] : n \in 0 .. Runs(r) - 1} ELSE {}

Ok(t) == [t |-> t, ok |-> TRUE]
Error(t) == [t |-> t, ok |-> FALSE]

------------------------------------------------------------------------------
(* pim_tensor_alloc, eagerly zeroed or not.                                 *)
Alloc(layout, nout, nred, zero) ==
  LET p == Plan(layout, nout, nred)
      m == [x \in Elems(p) |-> IF zero THEN Zero ELSE Junk]
  IN  [x \in DOMAIN p \cup {"mem"} |->
         IF x = "mem" THEN m ELSE IF x = "zeroed" /\ zero THEN p.nchunks ELSE p[x]]

(* pim_tensor_upload: the two rectangles of padding, then the matrix.       *)
Upload(t, v) ==
  LET rows == Rect(t.nout, t.noutpad - t.nout, 0, t.nredpad)
      tail == Rect(0, t.nout, t.nred, t.nredpad - t.nred)
      all  == Rect(0, t.nout, 0, t.nred)
      t1 == Sent(t, rows, Null)
      t2 == Sent(t1, tail, Null)
  IN  {Error(s) : s \in CutShort(t, rows, Null) \cup CutShort(t1, tail, Null) \cup CutShort(t2, all, v)}
      \cup {Ok([Sent(t2, all, v) EXCEPT !.zeroed = t.nchunks, !.frontier = Grow(t)])}

(* clear_chunks: the reduction chunks from .. to - 1 of every output.       *)
ChunkRect(t, from, to) ==
  IF from >= to THEN Nothing
  ELSE Rect(0, t.noutpad, from * Epr, Least((to - from) * Epr, t.nredpad - from * Epr))

(* The chunks an append enters.                                             *)
Wants(t, first, count) == IF t.layout = "red" THEN CeilDiv(first + count, Epr) ELSE 0

(* Mutant: a gap goes through.                                              *)
MayAppendAnywhere(t, first, count) == first + count <= Grow(t)
MayAppend(t, first, count) == first + count <= Grow(t) /\ first <= t.frontier

(* pim_tensor_append: chunks entered for the first time are cleared, then   *)
(* the steps are written.                                                   *)
AppendSteps(t, first, count, v) ==
  LET want  == Wants(t, first, count)
      clear == ChunkRect(t, t.zeroed, want)
      t1    == [Sent(t, clear, Null) EXCEPT !.zeroed = Most(@, want)]
      fill  == IF t.layout = "out" THEN Rect(first, count, 0, t.nred) ELSE Rect(0, t.nout, first, count)
  IN  IF ~MayAppend(t, first, count) THEN {Error(t)}
      ELSE {Error(s) : s \in CutShort(t, clear, Null) \cup CutShort(t1, fill, v)}
           \cup {Ok([Sent(t1, fill, v) EXCEPT !.frontier = Most(@, first + count)])}

(* What truncate clears of a RED_MAJOR tensor.  Mutant: the rest of a beat. *)
StaleRectBeat(t, pos) == Rect(0, t.noutpad, pos, Least(RoundUp(pos, Epb), t.frontier) - pos)
StaleRect(t, pos) == Rect(0, t.noutpad, pos, t.frontier - pos)

(* pim_tensor_truncate: back to pos, the zero invariant restored; at 0 the  *)
(* lazy clear starts over.                                                  *)
Truncate(t, pos) ==
  IF pos >= t.frontier THEN {Ok([t EXCEPT !.frontier = pos])}
  ELSE IF t.layout = "red" /\ pos = 0 THEN {Ok([t EXCEPT !.zeroed = 0, !.frontier = 0])}
  ELSE IF t.layout = "red"
  THEN {Error(s) : s \in CutShort(t, StaleRect(t, pos), Null)}
       \cup {Ok([Sent(t, StaleRect(t, pos), Null) EXCEPT !.frontier = pos])}
  ELSE {Ok([t EXCEPT !.frontier = pos])}

------------------------------------------------------------------------------
(* The name under which step i was stored, if every element of it was.      *)
StepAt(t, i) ==
  LET Other == IF t.layout = "out" THEN 0 .. t.nred - 1 ELSE 0 .. t.nout - 1
      At(j) == IF t.layout = "out" THEN Seen(t, i, j) ELSE Seen(t, j, i)
      Whole == {v \in {At(0)} \ {Zero, Junk} : \A j \in Other : At(j) = Stored(v[1], i, j)}
  IN  IF Whole = {} THEN 0 ELSE At(0)[1]
==============================================================================
