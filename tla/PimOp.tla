-------------------------------- MODULE PimOp ---------------------------------
(***************************************************************************)
(* pim_op.c: matrix products for a host language.  A batch is opened,      *)
(* products are added, and the answers are there after submit; how many    *)
(* launches that takes is the runtime's business.  The runtime is a record *)
(* and every call an operator on it; a launch or a transfer that fails     *)
(* ends its call.                                                          *)
(***************************************************************************)
EXTENDS PimMatvec

CONSTANTS
  Matrix,        \* the tensor
  MaxRed,        \* cfg.max_red
  MaxOutGroups,  \* cfg.max_out_groups
  MaxBatch,      \* cfg.max_batch
  VecBytes,      \* cfg.vec_bytes and res_bytes, in words, 0 to derive them
  ResBytes,
  AllowT,        \* cfg.allow_t_latch
  Menus,         \* sets of the requests [first, count, off, len] one caller makes
  Modes,         \* accumulator modes it asks for
  MaxCalls,      \* products it adds
  MaxWorks,      \* bound: the operations of a call that may work before one fails
  Scrubs         \* the caller runs pim_exec_scrub after a failed launch

ASSUME OpAssumption ==
  /\ MaxRed \in Nat \ {0} /\ MaxOutGroups \in Nat \ {0} /\ MaxBatch \in Nat \ {0}
  /\ AllowT \in BOOLEAN /\ Modes \subseteq {1, 2} /\ MaxCalls \in Nat
  /\ MaxWorks \in Nat /\ Scrubs \in BOOLEAN

VARIABLES
  rt,    \* the runtime
  menu,  \* what this caller asks for
  asked, \* its requests, numbered from 1
  due,   \* those it may expect answered after submit
  y,     \* its result buffers: per request and output group, words as they were written
  last   \* the last call, in which mode, and what it returned

vars == <<rt, menu, asked, due, y, last>>

------------------------------------------------------------------------------
(* pim_rt_open: launches are bounded by IMEM counted as lowered, scratch by *)
(* the largest piece.                                                       *)
RedPad == RoundUp(MaxRed, Epb)
MaxLaunchGroups ==
  LET Fits(n) == Nisr(n, 0, RedPad, 1) + n * (Nch - 1) + 1 <= ImemWords
  IN  CHOOSE n \in 0 .. MaxOutGroups :
        (\A k \in 1 .. n : Fits(k)) /\ (n = MaxOutGroups \/ ~Fits(n + 1))
VBytes == Most(IF VecBytes # 0 THEN VecBytes ELSE (RedPad \div Epb) * MaxBatch, RedPad \div Epb)
YBytes == Most(IF ResBytes # 0 THEN ResBytes ELSE MaxLaunchGroups * Nch * MaxBatch, MaxLaunchGroups * Nch)

ASSUME ScratchAssumption == VWords = VBytes /\ YWords = YBytes /\ MaxLaunchGroups > 0

Latched(what) == [x \in Chan \X Latches |-> what]

(* `latch' is what the last launch left in the accumulators; `works' how    *)
(* many uploads, launches and readbacks of this call work before one fails. *)
Open ==
  [batching |-> FALSE, nlatch |-> 1, lp |-> NoProgram, pieces |-> <<>>, vused |-> 0, yused |-> 0,
   vec |-> [w \in 0 .. VWords - 1 |-> [l \in 0 .. Epb - 1 |-> Junk]], tag |-> 0,
   latch |-> Latched({}),
   out |-> <<>>, bad |-> FALSE, died |-> FALSE, works |-> 0]

Init ==
  /\ rt = Open /\ menu \in Menus /\ asked = <<>> /\ due = {} /\ y = <<>>
  /\ last = [call |-> "open", mode |-> 1, ok |-> TRUE, died |-> FALSE]

Bad(s) == [s EXCEPT !.bad = TRUE]
Worked(s) == [s EXCEPT !.works = @ - 1]
Failed(s) == [Bad(s) EXCEPT !.died = TRUE]

(* groups_per_launch: the largest number of groups whose LOGICAL program    *)
(* IMEM holds, within what launches are sized for.                          *)
GroupsPerLaunch(s, r) ==
  LET Fits(n) == Nisr(n, r.off, r.len, s.nlatch) <= ImemWords
      most == Least(r.count, MaxLaunchGroups)
  IN  CHOOSE n \in 0 .. most : (n = 0 \/ Fits(n)) /\ (n = most \/ ~Fits(n + 1))

Begin(s, nlatch) ==
  IF nlatch = 2 /\ ~AllowT THEN Bad(s)
  ELSE [s EXCEPT !.batching = TRUE, !.nlatch = nlatch, !.lp = NoProgram,
                 !.pieces = <<>>, !.vused = 0, !.yused = 0]

(* pim_op_submit.  Lowering and the engine may refuse; a launch may die on  *)
(* the board, its sums in the latches; the readback after it may fail.      *)
(* pim_exec_open was given no allow_t_latch (pim_op.c:158).                 *)
EngineAllowsT == FALSE
Died(s) == [Failed(s) EXCEPT !.latch = Latched(IF Scrubs THEN {} ELSE {Foreign})]

(* What the board computes for s, running p with its sums at `at'.          *)
AnswersOf(s, p, at) ==
  LET Words(q) == [g \in 0 .. q.count - 1 |->
        [c \in Chan |-> [b \in 0 .. Nbank - 1 |-> Terms(at, p, s.vec, c, b, VWords + q.y + g * Nch + c)]]]
  IN  [k \in DOMAIN s.pieces |-> [id |-> s.pieces[k].id, from |-> s.pieces[k].from, words |-> Words(s.pieces[k].q)]]
ReadBack(s, answers) ==
  IF s.works = 0 THEN Failed(s) ELSE [Worked(s) EXCEPT !.out = @ \o answers, !.pieces = <<>>]
Ran(s, p, at) == ReadBack([Worked(s) EXCEPT !.latch = Inherited(at).latch], AnswersOf(s, p, at))

Execute(s, p) ==
  IF ~Verify(p, EngineAllowsT) THEN Bad(s)
  ELSE IF s.works = 0 THEN Died(s)
  ELSE Ran(s, p, AfterFrom(Machine(s.latch), p, Len(p) - 1))
Launch(s, lp) ==
  IF TagsAgree(lp, s.tag) /\ InRoom(lp) /\ LowerCount(lp) <= ImemWords /\ (s.nlatch = 2 => AllowT)
  THEN Execute(s, Lower(lp)) ELSE Bad(s)
Submit(s) ==
  IF ~s.batching THEN Bad(s)
  ELSE IF s.pieces = <<>> THEN [s EXCEPT !.batching = FALSE]
  ELSE Launch([s EXCEPT !.batching = FALSE], PushEos(s.lp))

(* Whether the open program has room for a piece.  Mutant: IMEM is not      *)
(* asked, only the arrays.                                                  *)
RoomInArrays(s, r) ==
  /\ Len(s.pieces) < MaxBatch
  /\ s.vused + Beats(r.off, r.len) <= VBytes /\ s.yused + r.count * Nch <= YBytes
HasRoom(s, r) ==
  /\ RoomInArrays(s, r)
  /\ Len(s.lp.isr) + Nisr(r.count, r.off, r.len, s.nlatch) + 1 <= ImemWords
  /\ LowerCount(s.lp) + Nisr(r.count, r.off, r.len, s.nlatch) + r.count * (Nch - 1) + 1 <= ImemWords

(* Words used so far, after this piece.  Mutant: the vector is forgotten.   *)
BumpResult(s, q) == [s EXCEPT !.yused = @ + q.count * Nch]
Bump(s, q) == [s EXCEPT !.yused = @ + q.count * Nch, !.vused = @ + Beats(q.off, q.len)]

(* The vector padded with zeroes to whole beats and uploaded for piece q;   *)
(* an upload that fails leaves anything in those words, and no new tag.     *)
Uploaded(s, q, elem) ==
  [w \in DOMAIN s.vec |->
     IF w \in q.v .. q.v + Beats(q.off, q.len) - 1
     THEN [l \in 0 .. Epb - 1 |-> elem[(w - q.v) * Epb + l]]
     ELSE s.vec[w]]
VectorUp(s, q, id) ==
  LET padded == 0 .. Beats(q.off, q.len) * Epb - 1
  IN  IF s.works = 0 THEN [Failed(s) EXCEPT !.vec = Uploaded(s, q, [e \in padded |-> Junk])]
      ELSE [Worked(s) EXCEPT !.vec = Uploaded(s, q, [e \in padded |-> VecElem(id, q.len, e)]),
                             !.tag = Beats(q.off, q.len)]

(* What is in the program is launched and a new one begun.                  *)
BeginAfter(sent, nlatch) == IF sent.bad THEN sent ELSE Begin(sent, nlatch)
Flush(s, nlatch) == BeginAfter(Submit(s), nlatch)
MakeRoom(s, r) == IF s.pieces # <<>> /\ ~HasRoom(s, r) THEN Flush(s, s.nlatch) ELSE s

(* add_one: groups from .. from + r.count - 1 of request id.                *)
Put(s, r, id, from) ==
  LET q == Piece(r.first, r.count, r.off, r.len, s.vused, s.yused)
      up == VectorUp(s, q, id)
  IN  IF s.bad THEN s
      ELSE IF up.bad THEN up
      ELSE IF PartRefused(Matrix, q) THEN Bad(up)
      ELSE Bump([up EXCEPT !.lp = PushPart(@, Matrix, q, s.nlatch),
                           !.pieces = Append(@, [id |-> id, from |-> from, q |-> q])], q)
AddOne(s, r, id, from) ==
  IF Beats(r.off, r.len) > VBytes THEN Bad(s) ELSE Put(MakeRoom(s, r), r, id, from)

(* pim_op_add: split by output group and nowhere else, gpl at a time.       *)
AddPart(s, r, id, from, gpl) ==
  IF s.bad \/ from >= r.count THEN s
  ELSE AddOne(s, [r EXCEPT !.first = @ + from, !.count = Least(gpl, r.count - from)], id, from)
AddParts(s, r, id, gpl) ==
  LET after[k \in 0 .. r.count] ==
        IF k = 0 THEN s ELSE AddPart(after[k - 1], r, id, (k - 1) * gpl, gpl)
  IN  IF gpl = 0 THEN Bad(s) ELSE after[r.count]
Add(s, r, id) == IF ~s.batching THEN Bad(s) ELSE AddParts(s, r, id, GroupsPerLaunch(s, r))

(* pim_op_matvec, once it has begun: add, submit.                           *)
SubmitOne(s) == IF s.bad THEN [s EXCEPT !.batching = FALSE] ELSE Submit(s)
Matvec(s, r, id) == IF s.bad THEN s ELSE SubmitOne(Add(s, r, id))

------------------------------------------------------------------------------
(* The calls.                                                               *)
Unwritten == <<>>
Start(works) == [rt EXCEPT !.bad = FALSE, !.out = <<>>, !.works = works]

(* The caller's buffers after a call left its answers in s.out.             *)
Written(buffers, s) ==
  [i \in DOMAIN buffers |-> [g \in DOMAIN buffers[i] |->
     LET Hit == {k \in DOMAIN s.out : s.out[k].id = i /\ g - s.out[k].from \in DOMAIN s.out[k].words}
     IN  IF Hit = {} THEN buffers[i][g]
         ELSE LET k == CHOOSE k \in Hit : TRUE IN s.out[k].words[g - s.out[k].from]]]

Quiet(s) == [s EXCEPT !.bad = FALSE, !.died = FALSE, !.out = <<>>, !.works = 0]
Returns(s, call, mode) ==
  /\ rt' = Quiet(s) /\ last' = [call |-> call, mode |-> mode, ok |-> ~s.bad, died |-> s.died]
  /\ UNCHANGED menu

Plenty == 99
Works == {Plenty} \cup (IF Faults THEN 0 .. MaxWorks ELSE {})
Fresh(r) == Append(y, [g \in 0 .. r.count - 1 |-> Unwritten])

(* The call on request r, just asked for, has left s.                       *)
Concluded(s, r, call, mode, expected) ==
  /\ Returns(s, call, mode)
  /\ asked' = Append(asked, r) /\ y' = Written(Fresh(r), s)
  /\ due' = expected \cup (IF call = "add" /\ s.bad THEN {} ELSE {Len(asked) + 1})

BeginCall(nlatch) ==
  /\ Returns(Begin(Start(Plenty), nlatch), "begin", nlatch)
  /\ due' = {} /\ UNCHANGED <<asked, y>>

AddCall(r, works) ==
  /\ Len(asked) < MaxCalls /\ rt.batching
  /\ Concluded(Add(Start(works), r, Len(asked) + 1), r, "add", rt.nlatch, due)

Submitted(s) == Returns(s, "submit", rt.nlatch) /\ y' = Written(y, s) /\ UNCHANGED <<asked, due>>
SubmitCall(works) == rt.batching /\ Submitted(Submit(Start(works)))

(* An open batch is dropped.                                                *)
MatvecCall(r, nlatch, works) ==
  /\ Len(asked) < MaxCalls
  /\ Concluded(Matvec(Begin(Start(works), nlatch), r, Len(asked) + 1), r, "submit", nlatch, {})

Next ==
  \/ \E nlatch \in Modes : BeginCall(nlatch)
  \/ \E r \in menu, works \in Works : AddCall(r, works)
  \/ \E works \in Works : SubmitCall(works)
  \/ \E r \in menu, nlatch \in Modes, works \in Works : MatvecCall(r, nlatch, works)

Spec == Init /\ [][Next]_vars

------------------------------------------------------------------------------
(* Whatever was written to a caller's buffer is the product it asked for:   *)
(* no other piece's, none of an earlier launch, nothing twice; and after a  *)
(* submit that returned no error every product added since begin is there   *)
(* in full, however many launches the adds made on the way ("pim_op_add MAY *)
(* LAUNCH", pim_op.h).                                                      *)
RightAnswers ==
  /\ \A i \in DOMAIN y, g \in 0 .. 9 : g \in DOMAIN y[i] /\ y[i][g] # Unwritten =>
       \A c \in Chan, b \in 0 .. Nbank - 1 :
         IsProduct(y[i][g][c][b], Matrix, (asked[i].first + g) * PerGroup + c * Nbank + b,
                   asked[i].off, asked[i].len, i)
  /\ last.call = "submit" /\ last.ok =>
       \A i \in due : \A g \in DOMAIN y[i] : y[i][g] # Unwritten

(* What the code refuses all the same, by the program it then leaves in     *)
(* rt.pieces: products in the second latch's mode, which the engine is not  *)
(* opened for (pim_op.c:158); a batch of vectors of different lengths,      *)
(* which share one layout tag (pim_op.c:428); and as the first of a launch, *)
(* which is not asked whether it fits, a slice that lies in more chunks     *)
(* than its length takes (pim_op.c:128).                                    *)
Dual == last.mode = 2 /\ (AllowT => rt.pieces # <<>>)
Mixed == \E j, k \in DOMAIN rt.pieces :
  Beats(rt.pieces[j].q.off, rt.pieces[j].q.len) # Beats(rt.pieces[k].q.off, rt.pieces[k].q.len)
Straddles(q) == SliceChunks(q.off, q.len) > SliceChunks(0, q.len)

(* No other product within the declared sizes is refused, for want of room  *)
(* in IMEM, the scratch or the batch ("the results are identical either     *)
(* way"), in whatever order products of whatever shapes come and whatever   *)
(* failed before: the call fails only when a launch or a transfer of its    *)
(* own did.                                                                 *)
NeverRefused ==
  \/ last.ok \/ last.died
  \/ Dual \/ Mixed \/ (Len(rt.pieces) = 1 /\ Straddles(rt.pieces[1].q))
==============================================================================
