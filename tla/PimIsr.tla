-------------------------------- MODULE PimIsr --------------------------------
(***************************************************************************)
(* The instruction stream: what one ISR does to the machine, and the rules *)
(* pim_prog_verify holds a whole program to.                               *)
(*                                                                         *)
(* An ISR is [op, sz, row, ch, t]: opcode, OPSIZE in beats, the ROW field  *)
(* (a GPR word for WRVEC and RD_MAC), the channels of CH_MASK and the      *)
(* accumulator latch ISR[35].  Data are symbolic: a latch holds the set of *)
(* the products added to it since it was last drained, each named          *)
(* <<i, j>>, "MAC i of the program on the vector WRVEC j loaded".          *)
(***************************************************************************)
EXTENDS Integers, FiniteSets, Sequences

CONSTANTS
  Chan,       \* channels of the image
  Latches,    \* accumulator latches it decodes: {0}, or {0, 1}
  Word,       \* GPR words
  SeenMax,    \* entries of pim_prog_verify's seen[] (64)
  ImemWords   \* what IMEM and PROG_LEN can hold

ASSUME IsrAssumption ==
  /\ Chan # {} /\ Latches \in {{0}, {0, 1}}
  /\ SeenMax \in Nat /\ ImemWords \in Nat \ {0}

Ops == {"WRVEC", "MAC", "RD_MAC", "EOS"}
Isr == [op : Ops, sz : Nat, row : Word, ch : (SUBSET Chan) \ {{}}, t : {0, 1}]

(* emu_isr_check: what an encoder lets through; T is set on what it built.  *)
Legal(i) ==
  /\ i.op \in {"WRVEC", "MAC"} => i.sz \in 1 .. 64
  /\ i.op = "RD_MAC" => i.sz = 0 /\ Cardinality(i.ch) = 1

At(p, op) == {i \in DOMAIN p : p[i].op = op}
Last(S) == CHOOSE x \in S : \A y \in S : y <= x

------------------------------------------------------------------------------
(* The rules of pim_prog_verify, in the order of its comment.               *)

FillsBefore(p, i) == {j \in At(p, "WRVEC") : j < i}
(* Mutant: any earlier WRVEC of the size will do.                           *)
VectorMatchesAny(p) ==
  \A i \in At(p, "MAC") : \E j \in FillsBefore(p, i) : p[j].sz = p[i].sz
VectorMatches(p) ==
  \A i \in At(p, "MAC") : FillsBefore(p, i) # {} /\ p[Last(FillsBefore(p, i))].sz = p[i].sz

Drained(p) == \A i \in At(p, "MAC") : \E j \in At(p, "RD_MAC") : j > i /\ p[j].t = p[i].t

(* Only the first SeenMax result words are remembered.                      *)
Remembered(p, j) == Cardinality({k \in At(p, "RD_MAC") : k < j}) < SeenMax
OneResultPerWord(p) ==
  \A i, j \in At(p, "RD_MAC") : j < i /\ p[j].row = p[i].row => ~Remembered(p, j)

EndsQuietly(p) == p[Len(p)].op # "RD_MAC"

OneLatch(p) == \A i \in DOMAIN p : p[i].t = 0

Verify(p, allowT) ==
  /\ Len(p) \in 1 .. ImemWords
  /\ allowT \/ OneLatch(p)
  /\ VectorMatches(p) /\ Drained(p) /\ OneResultPerWord(p) /\ EndsQuietly(p)

(* What the builders give a program beyond that: only drains are for single *)
(* channels, every channel is drained after a MAC, whichever the verifier   *)
(* remembers, and every result has a word of its own.                       *)
Built(p) ==
  /\ \A i \in DOMAIN p : IF p[i].op = "RD_MAC" THEN \E c \in Chan : p[i].ch = {c} ELSE p[i].ch = Chan
  /\ \A i \in At(p, "MAC"), c \in Chan : \E j \in At(p, "RD_MAC") : j > i /\ c \in p[j].ch
  /\ \A i, j \in At(p, "RD_MAC") : p[i].row = p[j].row => i = j

(* pim_exec_scrub: one RD_MAC per channel into words it is lent, and EOS.   *)
ScrubProgram(chans, words) ==
  [i \in 1 .. Len(chans) + 1 |->
     IF i <= Len(chans)
     THEN [op |-> "RD_MAC", sz |-> 0, row |-> words[i], ch |-> {chans[i]}, t |-> 0]
     ELSE [op |-> "EOS", sz |-> 0, row |-> words[1], ch |-> Chan, t |-> 0]]

------------------------------------------------------------------------------
(* The channels' controllers, external to src/ and modelled from how it     *)
(* uses them.  Someone else's leftovers are <<0, 0>>, as is a product of    *)
(* misaligned beats.                                                        *)
Foreign == <<0, 0>>

Machine(latch) ==
  [gb |-> [c \in Chan |-> 0],            \* WRVEC that last filled the global buffer
   skid |-> [c \in Chan |-> FALSE],      \* beats left over below it
   latch |-> latch,                      \* channel and latch -> products
   gpr |-> [w \in Word |-> {Foreign}]]   \* word -> products summed in it

(* A new program: what is still in the machine is not its own.              *)
Inherited(s) ==
  Machine([x \in DOMAIN s.latch |-> IF s.latch[x] = {} THEN {} ELSE {Foreign}])

(* On an image that ties latch_sel every T is latch 0.                      *)
LatchOf(i) == IF i.t \in Latches THEN i.t ELSE 0

Aligned(s, p, i, c) == ~s.skid[c] /\ s.gb[c] # 0 /\ p[s.gb[c]].sz = p[i].sz

Retire(s, p, i) ==
  CASE p[i].op = "WRVEC" ->
         [s EXCEPT !.gb = [c \in Chan |-> IF c \in p[i].ch THEN i ELSE s.gb[c]]]
    [] p[i].op = "MAC" ->
         [s EXCEPT
            !.latch = [x \in DOMAIN s.latch |->
               IF x[1] \in p[i].ch /\ x[2] = LatchOf(p[i])
               THEN s.latch[x] \cup {IF Aligned(s, p, i, x[1]) THEN <<i, s.gb[x[1]]>> ELSE Foreign}
               ELSE s.latch[x]],
            !.skid = [c \in Chan |-> s.skid[c] \/ (c \in p[i].ch /\ ~Aligned(s, p, i, c))]]
    [] p[i].op = "RD_MAC" ->
         LET x == <<CHOOSE c \in p[i].ch : TRUE, LatchOf(p[i])>>
         IN  [s EXCEPT !.gpr[p[i].row] = s.latch[x],
                       !.latch = [y \in DOMAIN s.latch |->
                          IF y[1] \in p[i].ch /\ y[2] = x[2] THEN {} ELSE s.latch[y]]]
    [] OTHER -> s

(* The machine after the first n instructions of p.                         *)
AfterFrom(s, p, n) ==
  LET f[k \in 0 .. Len(p)] == IF k = 0 THEN s ELSE Retire(f[k - 1], p, k)
  IN  f[n]

------------------------------------------------------------------------------
(* What the author of p meant: RD_MAC j returns the products its channel    *)
(* and latch collected since that latch was last drained, each on the       *)
(* vector the channel loaded last.                                          *)
Meant(p, j) ==
  LET c == CHOOSE x \in p[j].ch : TRUE
      Own(i) == c \in p[i].ch /\ p[i].t = p[j].t
      Since == {i \in At(p, "MAC") : i < j /\ Own(i)
                  /\ ~\E k \in At(p, "RD_MAC") : i < k /\ k < j /\ Own(k)}
  IN  {<<i, Last({k \in FillsBefore(p, i) : c \in p[k].ch})>> : i \in Since}

Answered(s, p) == \A j \in At(p, "RD_MAC") : s.gpr[p[j].row] = Meant(p, j)
==============================================================================
