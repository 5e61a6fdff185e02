----------------------------- MODULE PimPrograms ------------------------------
(***************************************************************************)
(* Programs and the three ways to come by one: ISR by ISR, by hand; pieces *)
(* of one tensor stacked with pim_matvec_logical_part, ended with one EOS  *)
(* and lowered; and pim_gemv_ex, which builds, runs and collects one       *)
(* program after another on the same machine.                              *)
(***************************************************************************)
EXTENDS PimGemv

CONSTANTS
  Alphabet,   \* the ISRs a program by hand is made of
  MaxLen,     \* its capacity
  Matrix,     \* the tensor the pieces are cut from, as pim_tensor_plan laid it out
  Offsets,    \* red_off a kernel uses
  Lengths,    \* red_len
  MaxPieces,  \* pieces it stacks
  Weights,    \* tensors pim_gemv_ex is called with
  Limits,     \* pim_exec_max_isrs of its engine
  MaxCalls    \* calls of pim_gemv_ex

ASSUME ProgramsAssumption ==
  /\ Alphabet \subseteq Isr /\ \A i \in Alphabet : Legal(i)
  /\ Offsets \subseteq Nat /\ Lengths \subseteq Nat \ {0} /\ Limits \subseteq 0 .. ImemWords
  /\ \A m \in Weights \cup {Matrix} :
       m.nout \in Nat \ {0} /\ m.nred \in Nat \ {0} /\ m = Plan(m.layout, m.nout, m.nred)
  /\ \A m \in Weights : m.layout = "out" /\ m.nredpad \div Epb <= VWords

VARIABLES
  author,   \* "hand", "parts" or "gemv"
  nlatch,   \* 1 for PIM_ACC_SINGLE, 2 for PIM_ACC_DUAL
  prog,     \* the program as it goes to the engine
  verdict,  \* of pim_prog_verify on it
  lp,       \* the logical program of the parts
  pieces,   \* what has been pushed to it
  vec,      \* contents of the vector buffer
  call,     \* the call of pim_gemv_ex in progress or last made
  s         \* the machine it runs on

vars == <<author, nlatch, prog, verdict, lp, pieces, vec, call, s>>

Clean == Machine([x \in Chan \X Latches |-> {}])
NoCall == [n |-> 0, m |-> Matrix, mem |-> <<>>, cap |-> 0, g0 |-> 0, y |-> <<>>, busy |-> FALSE]

Init ==
  /\ author \in {"hand", "parts", "gemv"}
  /\ nlatch \in (IF author = "hand" THEN {2} ELSE {1, 2})
  /\ prog = <<>> /\ verdict = "none" /\ lp = NoProgram /\ pieces = <<>>
  /\ vec = [w \in 0 .. VWords - 1 |-> [l \in 0 .. Epb - 1 |-> Junk]]
  /\ call = NoCall /\ s = Clean

Verdict(p) == IF Verify(p, nlatch = 2) THEN "accepted" ELSE "refused"

------------------------------------------------------------------------------
(* By hand: pim_prog_push.                                                  *)
Push(i) ==
  /\ author = "hand" /\ verdict = "none" /\ Len(prog) < MaxLen /\ Len(prog) < ImemWords
  /\ prog' = Append(prog, i)
  /\ UNCHANGED <<author, nlatch, verdict, lp, pieces, vec, call, s>>

Judge ==
  /\ author # "gemv" /\ verdict = "none" /\ (author = "hand" \/ prog # <<>>)
  /\ verdict' = Verdict(prog)
  /\ UNCHANGED <<author, nlatch, prog, lp, pieces, vec, call, s>>

------------------------------------------------------------------------------
(* By parts.                                                                *)
FreeVec == IF pieces = <<>> THEN 0
           ELSE LET q == pieces[Len(pieces)] IN q.v + Beats(q.off, q.len)
FreeRes == IF pieces = <<>> THEN 0
           ELSE LET q == pieces[Len(pieces)] IN q.y + q.count * Nch

(* The vector's elements are named by the place of its piece.               *)
Uploaded(q, v) ==
  [w \in DOMAIN vec |->
     IF w \in q.v .. q.v + Beats(q.off, q.len) - 1
     THEN [l \in 0 .. Epb - 1 |-> VecElem(v, q.len, (w - q.v) * Epb + l)]
     ELSE vec[w]]

Part(first, count, off, len) ==
  LET q == Piece(first, count, off, len, FreeVec, FreeRes)
  IN  /\ author = "parts" /\ prog = <<>> /\ Len(pieces) < MaxPieces
      /\ q.v + Beats(off, len) <= VWords /\ q.y + count * Nch <= YWords
      /\ ~PartRefused(Matrix, q)
      /\ lp' = PushPart(lp, Matrix, q, nlatch)
      /\ pieces' = Append(pieces, q)
      /\ vec' = Uploaded(q, Len(pieces) + 1)
      /\ UNCHANGED <<author, nlatch, prog, verdict, call, s>>

(* The EOS, and the lowering, into as many ISRs as IMEM can hold.           *)
Eos ==
  /\ author = "parts" /\ prog = <<>> /\ pieces # <<>>
  /\ LowerCount(PushEos(lp)) <= ImemWords
  /\ lp' = PushEos(lp) /\ prog' = Lower(lp')
  /\ UNCHANGED <<author, nlatch, verdict, pieces, vec, call, s>>

------------------------------------------------------------------------------
(* By pim_gemv_ex.                                                          *)

(* pim_gemv_alloc and one of the uploads, then the call up to its loop: the *)
(* vector is tiled once, for every launch.                                  *)
Call(m, upload, cap) ==
  LET n == call.n + 1
      mem == [x \in Elems(m) |-> Junk]
      gpl == GroupsPerLaunch(m, nlatch, cap)
  IN  /\ author = "gemv" /\ ~call.busy /\ call.n < MaxCalls
      /\ upload \in {"eager", "rows"} => IsEager(m)
      /\ gpl > 0 => GprWords(m, nlatch, cap).y <= YWords
      /\ call' = [n |-> n, m |-> m, cap |-> cap, g0 |-> 0, busy |-> gpl > 0,
                  y |-> [j \in 0 .. m.nout - 1 |-> {}],
                  mem |-> CASE upload = "permuted" -> GemvUpload(m, mem, n)
                            [] upload = "eager" -> GemvUploadEager(m, mem, n)
                            [] upload = "rows" -> GemvUploadRows(m, mem, n)]
      /\ vec' = IF gpl > 0 THEN GemvUploadX(m, vec, n) ELSE vec
      /\ prog' = <<>> /\ verdict' = "none"
      /\ UNCHANGED <<author, nlatch, lp, pieces, s>>

(* What word w of the launch holds in lane b of channel c, as weights times *)
(* vector elements.                                                         *)
Weighed(machine, p, mem, c, b, w) ==
  {<<<<mem[x[1][1]], x[1][2]>>, x[2]>> : x \in Terms(machine, p, vec, c, b, w)}

(* One round of the loop: a program for the next groups, run, and its       *)
(* answers taken out of the result words.                                   *)
Launch ==
  LET m == call.m
      gpl == GroupsPerLaunch(m, nlatch, call.cap)
      ng == Least(m.ngroups - call.g0, gpl)
      p == GemvProgram(m, call.g0, ng, 0, VWords, nlatch)
      after == AfterFrom(Inherited(s), p, Len(p) - 1)
  IN  /\ call.busy
      /\ prog' = p /\ verdict' = Verdict(p)
      /\ s' = after
      /\ call' = [call EXCEPT !.g0 = @ + gpl, !.busy = call.g0 + gpl < m.ngroups,
                    !.y = [j \in DOMAIN @ |->
                       IF j \in Collected(m, call.g0, ng)
                       THEN Weighed(after, p, call.mem, (j % PerGroup) \div Nbank, j % Nbank,
                                    VWords + ResultWord(j, call.g0))
                       ELSE @[j]]]
      /\ UNCHANGED <<author, nlatch, lp, pieces, vec>>

Next ==
  \/ \E i \in Alphabet : Push(i)
  \/ Judge
  \/ \E first \in 0 .. Matrix.ngroups - 1, count \in 1 .. Matrix.ngroups, off \in Offsets, len \in Lengths :
       Part(first, count, off, len)
  \/ Eos
  \/ \E m \in Weights, upload \in {"permuted", "eager", "rows"}, cap \in Limits : Call(m, upload, cap)
  \/ Launch

Spec == Init /\ [][Next]_vars

------------------------------------------------------------------------------
(* done rises when the fetcher has handed the last ISR over, which only the *)
(* retirement of the one before it allows.                                  *)
AtDone(p) == AfterFrom(Clean, p, Len(p) - 1)
AtRest(p) == AfterFrom(Clean, p, Len(p))

(* When done rises on an accepted program every result word holds the sum   *)
(* its RD_MAC was meant to return: rules 1, 3, 4 and 5 of pim_exec.h:214    *)
(* leave no other way to a wrong number.  And when it is through no latch   *)
(* holds anything ("or the latch is inherited by whatever runs next",       *)
(* pim_exec.h:217): the verifier counts drains per latch; that every        *)
(* channel is drained is up to the builders, and they do it.                *)
AnswersAtDone ==
  verdict = "accepted" =>
    /\ Answered(AtDone(prog), prog)
    /\ LET rest == AtRest(prog) IN \A x \in DOMAIN rest.latch : rest.latch[x] = {}

(* Every word of every piece is the dot product it was asked for, and of    *)
(* nothing else: the schedule, the scatter of pim_tensor.c, the slice of    *)
(* the vector and the split by channel agree with each other.               *)
Ended == author = "parts" /\ prog # <<>>
RightProducts ==
  Ended =>
    LET done == AtDone(prog) IN
    \A k \in DOMAIN pieces : LET q == pieces[k] IN
      \A g \in 0 .. q.count - 1, c \in Chan, b \in 0 .. Nbank - 1 :
        IsProduct(Terms(done, prog, vec, c, b, VWords + q.y + g * Nch + c),
                  Matrix, (q.first + g) * PerGroup + c * Nbank + b, q.off, q.len, k)

(* What the builders build is what the engine accepts, however many results *)
(* it has, and keeps apart the words and the drains that the verifier does  *)
(* not remember (Built, which PimEngineProofs relies on); and the counts    *)
(* callers size and split programs by are exact (pim_matvec_nisr,           *)
(* pim_lower_isr_count, pim_gemv_nisr, pim_gemv_nwrvec).                    *)
Sum(f, n) == LET sum[i \in 0 .. n] == IF i = 0 THEN 0 ELSE sum[i - 1] + f[i] IN sum[n]
PassesVerify ==
  /\ Ended =>
       /\ InRoom(lp) /\ Verify(prog, nlatch = 2) /\ Built(prog)
       /\ Len(prog) = LowerCount(lp)
       /\ Len(lp.isr) = 1 + Sum([k \in DOMAIN pieces |->
            LET q == pieces[k] IN Nisr(q.count, q.off, q.len, nlatch) - 1], Len(pieces))
  /\ author = "gemv" /\ prog # <<>> =>
       LET count == Cardinality(At(prog, "RD_MAC")) \div Nch
       IN  /\ verdict = "accepted" /\ Len(prog) <= call.cap
           /\ Built(prog) /\ Len(prog) = GemvNisr(call.m, count, nlatch)
           /\ Cardinality(At(prog, "WRVEC")) = GemvNwrvec(call.m, count, nlatch)

(* A program cut at the end of any atom strands no sum in a latch, and one  *)
(* cut anywhere inside it does: the atoms are exactly what must not be cut  *)
(* (pim_logical.h, atoms).                                                  *)
CutsAreSafe ==
  Ended =>
    \A k \in DOMAIN lp.atoms :
      LET a == LowerAtoms(lp)[k]
          Latch(n) == AfterFrom(Clean, prog, n).latch
          Empty(n) == LET l == Latch(n) IN \A x \in DOMAIN l : l[x] = {}
          Macs == {i \in a[1] .. a[2] : prog[i].op = "MAC"}
      IN  /\ Empty(a[1] - 1) /\ Empty(a[2])
          /\ Macs # {} /\ \A n \in a[1] .. a[2] - 1 : (\E i \in Macs : i <= n) => ~Empty(n)

(* pim_gemv_ex returns, for every output, each weight of its row times the  *)
(* vector's element once, and besides them only zero times zero: over       *)
(* however many launches, whatever the machine, the vector buffer and the   *)
(* result words held before, and whichever upload put the weights there.    *)
(* "0 * Inf is NaN" (pim_gemv.h:104): one operand zero is not enough.       *)
GemvAnswers ==
  author = "gemv" /\ call.n > 0 /\ ~call.busy /\ prog # <<>> =>
    /\ GemvVerify(call.m, call.mem, call.n)
    /\ \A j \in DOMAIN call.y :
         {x \in call.y[j] : x[1] # <<Zero, Zero>>}
           = {<<<<Stored(call.n, j, i), <<call.n, i>>>>, 1>> : i \in 0 .. call.m.nred - 1}

(* pim_gemv_program and the two passes build the same program for the same  *)
(* groups: lower_test.c compares them on a few shapes.                      *)
FrontEndsAgree ==
  author = "gemv" /\ prog # <<>> =>
    LET count == Cardinality(At(prog, "RD_MAC")) \div Nch
        gpl == GroupsPerLaunch(call.m, nlatch, call.cap)
    IN  prog = Lower(GemvLogical(call.m, call.g0 - gpl, count, nlatch))
==============================================================================
