---------------------------- MODULE PimEngineProofs ---------------------------
(***************************************************************************)
(* The engine for any programs and any number of channels: the dispatcher  *)
(* runs what it was rung for, and the answers are the program's own.       *)
(***************************************************************************)
EXTENDS PimEngine, FiniteSetTheorems, TLAPS

------------------------------------------------------------------------------
(* The host, the doorbell and IMEM.                                         *)

(* A program that pim_exec_run goes on with.                                *)
Accepted(p) == p \in Asked /\ Verify(p, AllowT)

InImem(p, n) == \A i \in 1 .. n : imem[i] = p[i]

Holding == {"load", "idle2", "ring"}
Launching == Holding \cup {"idle1", "poll", "last"}

(* What the session may rely on at each line of pim_exec_run: from the      *)
(* check before the load to the doorbell nothing is fetched.                *)
HostOK ==
  /\ pc \in Launching \cup {"off", "ready"} /\ nloaded \in Nat
  /\ pc \in Launching => Accepted(prog)
  /\ pc = "idle1" => nloaded = 0
  /\ pc = "load" => nloaded <= Len(prog) /\ InImem(prog, nloaded)
  /\ pc \in {"idle2", "ring"} => InImem(prog, Len(prog))
  /\ pc \in Holding => ~ bell /\ fetch # "run"
  /\ pc \in {"poll", "last"} => rung = prog
  /\ pc = "ready" /\ outcome = "ok" => Accepted(rung) /\ ~ bell /\ fetch = "done"

(* At most one read of STATUS comes before the doorbell is seen, and only a *)
(* session that has just rung, or one that follows a killed one, can make   *)
(* it.                                                                      *)
BellOK ==
  /\ bell \in BOOLEAN /\ stale \in 0 .. 1 /\ fetch \in {"idle", "run", "done"}
  /\ bell /\ pc \notin {"off", "poll"} => stale = 0
  /\ bell => fetch # "run"

FetchOK ==
  /\ imem = [i \in Cells |-> imem[i]]
  /\ bell \/ fetch = "run" => Accepted(rung) /\ plen = Len(rung) /\ InImem(rung, Len(rung))
  /\ ~ bell /\ fetch = "run" => fpc \in 1 .. Len(rung) /\ issued = SubSeq(rung, 1, fpc - 1)

FInv == HostOK /\ BellOK /\ FetchOK

------------------------------------------------------------------------------
(* The program in IMEM.                                                     *)

LEMMA AcceptedFacts ==
  ASSUME NEW p, Accepted(p)
  PROVE  /\ p \in Asked /\ p \in Seq(Isr) /\ Len(p) \in Nat /\ Len(p) > 0
         /\ \A i \in 1 .. Len(p) : i \in Cells /\ p[i] \in Isr
<1>1. p \in Asked /\ p \in Seq(Isr) /\ Len(p) \in 1 .. ImemWords
  BY EngineAssumption DEF Accepted, Asked, Verify
<1>2. \A i \in 1 .. Len(p) : i \in Cells
  BY <1>1 DEF Cells
<1>3. Len(p) \in Nat /\ Len(p) > 0
  BY <1>1, IsrAssumption
<1> QED BY <1>1, <1>2, <1>3

LEMMA FetchStarts == StaleReads <= 1 /\ Init => FInv
<1> SUFFICES ASSUME StaleReads <= 1, Init  PROVE FInv
  OBVIOUS
<1>1. HostOK
  BY DEF Init, HostOK, Launching, Holding
<1>2. BellOK
  <2>1. bell = FALSE /\ stale = 0 /\ fetch \in {"idle", "done"}
    BY DEF Init
  <2>2. bell \in BOOLEAN /\ ~ bell
    BY <2>1
  <2>3. stale \in 0 .. 1 /\ fetch \in {"idle", "run", "done"}
    BY <2>1
  <2> QED BY <2>2, <2>3, Zenon DEF BellOK
<1>3. FetchOK
  BY DEF Init, FetchOK
<1> QED BY <1>1, <1>2, <1>3 DEF FInv

(* The host's steps that touch nothing but its own state and the race of    *)
(* STATUS with the doorbell.                                                *)
LEMMA ReadsKeep ==
  ASSUME FInv,
         \/ Open \/ OpenBusy \/ Close \/ IdleToLoad \/ IdleToRing \/ IdleTimeout
         \/ PollDone \/ PollAgain \/ PollTimeout \/ Success \/ Failure \/ LoadFailed \/ Kill
  PROVE  FInv'
<1> USE DEF FInv, ReadsStatus, board, host, Return, Launching, Holding
<1>0. UNCHANGED <<imem, plen, bell, fetch, fpc, issued, rung>>
  BY DEF Open, OpenBusy, Close, IdleToLoad, IdleToRing, IdleTimeout, PollDone, PollAgain,
         PollTimeout, Success, Failure, LoadFailed, Kill, FindsIdle, FindsBusy, ReadsDone, ReadsNotDone,
         Confirms
<1>1. FetchOK'
  BY <1>0 DEF FetchOK, InImem, Accepted
<1>2. BellOK'
  BY DEF BellOK, HostOK, Open, OpenBusy, Close, IdleToLoad, IdleToRing, IdleTimeout, PollDone, PollAgain,
         PollTimeout, Success, Failure, LoadFailed, Kill, FindsIdle, FindsBusy, ReadsDone, ReadsNotDone,
         Confirms
<1>3. HostOK'
  BY DEF BellOK, HostOK, Open, OpenBusy, Close, IdleToLoad, IdleToRing, IdleTimeout, PollDone, PollAgain,
         PollTimeout, Success, Failure, LoadFailed, Kill, FindsIdle, FindsBusy, ReadsDone, ReadsNotDone,
         Confirms, InImem
<1> QED BY <1>1, <1>2, <1>3

(* Choosing a program, and loading it into an IMEM that nobody reads.       *)
LEMMA LoadKeeps ==
  ASSUME FInv, LoadWord \/ LoadDone \/ SetLength \/ \E p \in Asked : Run(p)
  PROVE  FInv'
<1> USE DEF FInv, Launching, Holding
<1>1. CASE \E p \in Asked : Run(p)
  <2>1. UNCHANGED board /\ pc = "ready"
        /\ \/ pc' = "idle1" /\ Accepted(prog') /\ nloaded' = 0 /\ outcome' = "running"
           \/ pc' = "ready" /\ outcome' = "refused" /\ nloaded' = 0
    BY <1>1 DEF Run, Return, Accepted
  <2>2. FetchOK' /\ BellOK'
    BY <2>1 DEF FetchOK, BellOK, board, InImem
  <2>3. HostOK'
    BY <2>1 DEF HostOK, board, InImem
  <2> QED BY <2>2, <2>3
<1>2. CASE LoadWord
  <2>1. /\ pc = "load" /\ nloaded < Len(prog) /\ nloaded \in Nat /\ Accepted(prog)
        /\ ~ bell /\ fetch # "run" /\ InImem(prog, nloaded) /\ stale \in 0 .. 1
    BY <1>2 DEF LoadWord, HostOK, BellOK
  <2>2. nloaded + 1 \in Cells /\ nloaded + 1 <= Len(prog)
    BY <2>1, AcceptedFacts
  <2>3. /\ imem' = [imem EXCEPT ![nloaded + 1] = prog[nloaded + 1]] /\ nloaded' = nloaded + 1
        /\ UNCHANGED <<pc, prog, outcome, bell, stale, fetch, rung, plen, fpc, issued>>
    BY <1>2 DEF LoadWord
  <2>4. imem = [i \in Cells |-> imem[i]]
    BY DEF FetchOK
  <2>5. FetchOK'
    BY <2>1, <2>3, <2>4 DEF FetchOK
  <2>6. BellOK'
    BY <2>3 DEF BellOK
  <2>7. InImem(prog, nloaded)' /\ nloaded' <= Len(prog)
    <3>1. ASSUME NEW i \in 1 .. nloaded + 1
          PROVE  imem'[i] = prog[i]
      <4>1. CASE i = nloaded + 1
        BY <2>2, <2>3, <2>4, <4>1
      <4>2. CASE i # nloaded + 1
        <5>1. i \in 1 .. nloaded
          BY <2>1, <4>2
        <5> QED BY <2>1, <2>3, <2>4, <4>2, <5>1 DEF InImem
      <4> QED BY <4>1, <4>2
    <3> QED BY <2>2, <2>3, <3>1 DEF InImem
  <2>8. HostOK'
    BY <2>1, <2>3, <2>7 DEF HostOK
  <2> QED BY <2>5, <2>6, <2>8
<1>3. CASE LoadDone
  <2>1. UNCHANGED <<board, prog, nloaded>> /\ pc = "load" /\ pc' = "idle2" /\ nloaded = Len(prog)
    BY <1>3 DEF LoadDone, Loaded
  <2>2. FetchOK' /\ BellOK'
    BY <2>1 DEF FetchOK, BellOK, board, InImem
  <2>3. HostOK'
    BY <2>1 DEF HostOK, board, InImem
  <2> QED BY <2>2, <2>3
<1>4. CASE SetLength
  <2>1. /\ pc = "ring" /\ ~ bell /\ fetch # "run"
        /\ UNCHANGED <<pc, prog, nloaded, outcome, scrubbed, imem, bell, fetch, fpc, stale, issued, rung>>
    BY <1>4 DEF SetLength, host, HostOK
  <2>2. FetchOK' /\ BellOK'
    BY <2>1 DEF FetchOK, BellOK
  <2>3. HostOK'
    BY <2>1 DEF HostOK, InImem
  <2> QED BY <2>2, <2>3
<1> QED BY <1>1, <1>2, <1>3, <1>4

(* The doorbell, and the dispatcher that answers it.                        *)
LEMMA BoardKeeps ==
  ASSUME FInv, StaleReads <= 1, Ring \/ Start \/ Issue \/ Retired \/ Reset
  PROVE  FInv'
<1> USE DEF FInv, Launching, Holding
<1>1. CASE Ring
  <2>1. /\ pc = "ring" /\ plen = Len(prog) /\ Accepted(prog) /\ InImem(prog, Len(prog))
        /\ ~ bell /\ fetch # "run"
    BY <1>1 DEF Ring, LengthSet, HostOK
  <2>2. /\ bell' = TRUE /\ stale' = StaleReads /\ rung' = prog /\ pc' = "poll"
        /\ UNCHANGED <<prog, nloaded, outcome, scrubbed, imem, plen, fetch, fpc, busy, issued, mc>>
    BY <1>1 DEF Ring
  <2>3. FetchOK'
    BY <2>1, <2>2 DEF FetchOK, InImem, Accepted
  <2>4. BellOK'
    <3>1. bell' \in BOOLEAN /\ bell'
      BY <2>2
    <3>2. stale' \in 0 .. 1 /\ fetch' \in {"idle", "run", "done"} /\ fetch' # "run" /\ pc' = "poll"
      BY <2>1, <2>2, EngineAssumption DEF BellOK
    <3> QED BY <3>1, <3>2, Zenon DEF BellOK
  <2>5. HostOK'
    BY <2>1, <2>2 DEF HostOK
  <2> QED BY <2>3, <2>4, <2>5
<1>2. CASE Start
  <2>1. bell /\ pc \notin Holding /\ (pc = "ready" => outcome # "ok")
    BY <1>2 DEF Start, HostOK
  <2>2. /\ bell' = FALSE /\ fetch' = "run" /\ fpc' = 1 /\ stale' = 0 /\ issued' = <<>>
        /\ UNCHANGED <<pc, prog, nloaded, outcome, scrubbed, imem, plen, rung>>
    BY <1>2 DEF Start, host
  <2>3. FetchOK'
    <3>1. Accepted(rung) /\ plen = Len(rung) /\ InImem(rung, Len(rung)) /\ imem = [i \in Cells |-> imem[i]]
      BY <2>1 DEF FetchOK
    <3>2. 1 \in 1 .. Len(rung) /\ SubSeq(rung, 1, 1 - 1) = <<>>
      BY <3>1, AcceptedFacts
    <3> QED BY <2>2, <3>1, <3>2 DEF FetchOK, InImem, Accepted
  <2>4. BellOK'
    <3>1. bell' \in BOOLEAN /\ ~ bell'
      BY <2>2
    <3>2. stale' \in 0 .. 1 /\ fetch' \in {"idle", "run", "done"}
      BY <2>2
    <3> QED BY <3>1, <3>2, Zenon DEF BellOK
  <2>5. HostOK'
    BY <2>1, <2>2 DEF HostOK, InImem
  <2> QED BY <2>3, <2>4, <2>5
<1>3. CASE Issue
  <2>1. /\ fetch = "run" /\ ~ bell /\ Accepted(rung) /\ plen = Len(rung) /\ InImem(rung, Len(rung))
        /\ fpc \in 1 .. Len(rung) /\ issued = SubSeq(rung, 1, fpc - 1)
    BY <1>3 DEF Issue, FetchOK, BellOK
  <2>2. /\ issued' = Append(issued, imem[fpc]) /\ fpc' = fpc + 1
        /\ fetch' = IF fpc = plen THEN "done" ELSE "run"
        /\ UNCHANGED <<pc, prog, nloaded, outcome, scrubbed, imem, plen, bell, stale, rung>>
    BY <1>3 DEF Issue, host
  <2>3. imem[fpc] = rung[fpc] /\ rung \in Seq(Isr) /\ Len(rung) \in Nat
    BY <2>1, AcceptedFacts DEF InImem
  <2>4. Append(SubSeq(rung, 1, fpc - 1), rung[fpc]) = SubSeq(rung, 1, fpc)
    <3> HIDE DEF FInv
    <3>1. fpc \in 1 .. Len(rung)
      BY <2>1
    <3> QED BY <2>3, <3>1
  <2>5. issued' = SubSeq(rung, 1, (fpc + 1) - 1)
    <3>1. (fpc + 1) - 1 = fpc
      BY <2>1
    <3> QED BY <2>1, <2>2, <2>3, <2>4, <3>1
  <2>6. fetch' = "run" => fpc + 1 \in 1 .. Len(rung)
    BY <2>1, <2>2, <2>3
  <2>7. imem = [i \in Cells |-> imem[i]]
    BY DEF FetchOK
  <2>8. FetchOK'
    BY <2>1, <2>2, <2>5, <2>6, <2>7 DEF FetchOK, InImem, Accepted
  <2>9. BellOK'
    BY <2>1, <2>2 DEF BellOK
  <2>10. HostOK'
    BY <2>1, <2>2 DEF HostOK, InImem
  <2> QED BY <2>8, <2>9, <2>10
<1>4. CASE Retired
  <2>1. UNCHANGED <<pc, prog, nloaded, outcome, scrubbed, imem, plen, bell, fetch, fpc, stale, issued, rung>>
    BY <1>4 DEF Retired, host
  <2>2. FetchOK' /\ BellOK'
    BY <2>1 DEF FetchOK, BellOK, InImem
  <2>3. HostOK'
    BY <2>1 DEF HostOK, InImem
  <2> QED BY <2>2, <2>3
<1>5. CASE Reset
  <2>1. /\ pc = "off" /\ fetch' = "idle" /\ bell' = FALSE /\ stale' = 0
        /\ UNCHANGED <<pc, prog, nloaded, outcome, scrubbed, imem>>
    BY <1>5 DEF Reset, host
  <2>2. FetchOK'
    BY <2>1 DEF FetchOK
  <2>3. BellOK'
    <3>1. bell' \in BOOLEAN /\ ~ bell'
      BY <2>1
    <3>2. stale' \in 0 .. 1 /\ fetch' \in {"idle", "run", "done"}
      BY <2>1
    <3> QED BY <3>1, <3>2, Zenon DEF BellOK
  <2>4. HostOK'
    BY <2>1 DEF HostOK
  <2> QED BY <2>2, <2>3, <2>4
<1> QED BY <1>1, <1>2, <1>3, <1>4, <1>5

LEMMA FetchInductive == StaleReads <= 1 /\ FInv /\ [Next]_vars => FInv'
<1> SUFFICES ASSUME StaleReads <= 1, FInv, [Next]_vars  PROVE FInv'
  OBVIOUS
<1>1. CASE UNCHANGED vars
  BY <1>1 DEF vars, FInv, HostOK, BellOK, FetchOK, InImem, Accepted
<1>2. CASE Next
  BY <1>2, ReadsKeep, LoadKeeps, BoardKeeps DEF Next, Board
<1> QED BY <1>1, <1>2

(* On an image where a read of STATUS that follows the doorbell is outrun   *)
(* by it at most once, the dispatcher holds and hands over exactly the      *)
(* program it was rung for, whatever sessions were killed, timed out or     *)
(* refused before: pim_exec_run's two checks for idle and its second look   *)
(* at done are enough (pim_exec.c:438-464).  They are not where two reads   *)
(* can be outrun, which pim_exec.c:477 says was not measured.               *)
THEOREM RightProgramIsRun == StaleReads <= 1 => (Spec => []FetchesTheProgram)
<1> SUFFICES ASSUME StaleReads <= 1  PROVE Spec => []FetchesTheProgram
  OBVIOUS
<1>1. Init => FInv
  BY FetchStarts
<1>2. FInv /\ [Next]_vars => FInv'
  BY FetchInductive
<1>3. FInv => FetchesTheProgram
  BY DEF FInv, FetchOK, FetchesTheProgram, InImem
<1> QED BY <1>1, <1>2, <1>3, PTL DEF Spec

------------------------------------------------------------------------------
(* The sessions of an image whose latch select is tied: what they ask to    *)
(* run comes from a builder (PassesVerify of PimPrograms) or is refused,    *)
(* and the scrub has every channel in it, as pim_exec_scrub's loop does.    *)
Session ==
  /\ Latches = {0} /\ ~ AllowT
  /\ \A p \in Programs : Verify(p, AllowT) => Built(p)
  /\ \E chans \in Seq(Chan), words \in Seq(Word) :
       /\ Scrub = ScrubProgram(chans, words) /\ Len(words) = Len(chans) /\ Chan # {}
       /\ \A c \in Chan : \E i \in 1 .. Len(chans) : chans[i] = c

(* The MACs among the first r of p whose products channel c still holds.    *)
Since(p, c, r) ==
  {i \in At(p, "MAC") : i <= r /\ ~ \E k \in At(p, "RD_MAC") : i < k /\ k <= r /\ c \in p[k].ch}
Collected(p, c, r) == {<<i, Last(FillsBefore(p, i))>> : i \in Since(p, c, r)}
DrainedBy(p, c, r) == \E k \in At(p, "RD_MAC") : k <= r /\ c \in p[k].ch
Fill(p, i) == IF FillsBefore(p, i) = {} THEN 0 ELSE Last(FillsBefore(p, i))

(* A machine that has retired the first r of p, and started on clean        *)
(* latches if sure: a latch is exact from its first drain on, in any case.  *)
Exact(s, p, r, sure) ==
  /\ \A c \in Chan : /\ s.gb[c] = Fill(p, r + 1) /\ s.skid[c] = FALSE
                     /\ sure \/ DrainedBy(p, c, r) => s.latch[<<c, 0>>] = Collected(p, c, r)
  /\ sure /\ p # Scrub => \A j \in At(p, "RD_MAC") : j <= r => s.gpr[p[j].row] = Meant(p, j)

MachineOK(s) ==
  /\ s = [gb |-> s.gb, skid |-> s.skid, latch |-> s.latch, gpr |-> s.gpr]
  /\ s.gb = [c \in Chan |-> s.gb[c]] /\ s.skid = [c \in Chan |-> s.skid[c]]
  /\ s.latch = [x \in Chan \X Latches |-> s.latch[x]] /\ s.gpr = [w \in Word |-> s.gpr[w]]

NRetired == Len(issued) - IF busy THEN 1 ELSE 0

(* While the doorbell waits, what is left of the program before it can no   *)
(* longer change a latch; otherwise the machine is as far as the fetcher.   *)
MInv ==
  /\ MachineOK(mc) /\ issued \in Seq(Isr) /\ busy \in BOOLEAN /\ scrubbed \in BOOLEAN
  /\ busy => issued # <<>>
  /\ bell => /\ busy => issued[Len(issued)].op \notin {"MAC", "RD_MAC"}
             /\ scrubbed => \A x \in DOMAIN mc.latch : mc.latch[x] = {}
  /\ ~ bell => /\ rung = <<>> \/ Accepted(rung)
               /\ Len(issued) <= Len(rung) /\ issued = SubSeq(rung, 1, Len(issued))
               /\ fetch # "run" => issued = rung
               /\ Exact(mc, rung, NRetired, scrubbed)

------------------------------------------------------------------------------
(* Places in a program.                                                     *)

(* A set of places has a last one.                                          *)
LEMMA LastOf ==
  ASSUME NEW n \in Nat, NEW S \in SUBSET (1 .. n), S # {}
  PROVE  Last(S) \in S /\ \A y \in S : y <= Last(S)
<1> DEFINE T == {k \in Nat : \A y \in S : y <= k}
<1>1. n \in T
  OBVIOUS
<1>2. PICK m \in T : \A k \in T : <<k, m>> \notin OpToRel(<, Nat)
  <2>1. T # {} /\ T \subseteq Nat
    BY <1>1
  <2> HIDE DEF T
  <2> QED BY <2>1, NatLessThanWellFounded, WFMin, Zenon
<1>3. m \in Nat /\ (\A y \in S : y <= m) /\ \A k \in T : ~ (k < m)
  BY <1>2, Zenon DEF OpToRel
<1>4. m \in S
  <2> SUFFICES ASSUME m \notin S  PROVE FALSE
    OBVIOUS
  <2>1. PICK y \in S : TRUE
    OBVIOUS
  <2>2. y <= m /\ y \in 1 .. n
    BY <1>3, <2>1
  <2>3. m - 1 \in Nat /\ m - 1 < m
    BY <1>3, <2>2
  <2>4. ASSUME NEW z \in S
        PROVE  z <= m - 1
    <3>1. z <= m /\ z # m /\ z \in Nat
      BY <1>3
    <3> HIDE DEF T
    <3> QED BY <1>3, <3>1
  <2> QED BY <1>3, <2>3, <2>4
<1>5. \E x \in S : \A y \in S : y <= x
  BY <1>3, <1>4
<1> QED BY <1>5 DEF Last

LEMMA FillIs ==
  ASSUME NEW p \in Seq(Isr), NEW i \in 1 .. Len(p) + 1
  PROVE  /\ FillsBefore(p, i) \subseteq 1 .. i - 1
         /\ FillsBefore(p, i) = {} => Fill(p, i) = 0
         /\ FillsBefore(p, i) # {} =>
              Fill(p, i) = Last(FillsBefore(p, i)) /\ Fill(p, i) \in FillsBefore(p, i)
         /\ Fill(p, i) \in 0 .. i - 1
<1>1. Len(p) \in Nat /\ DOMAIN p = 1 .. Len(p)
  OBVIOUS
<1>2. FillsBefore(p, i) \subseteq 1 .. i - 1
  BY <1>1 DEF FillsBefore, At
<1>3. i - 1 \in Nat
  BY <1>1
<1>4. CASE FillsBefore(p, i) = {}
  BY <1>2, <1>3, <1>4 DEF Fill
<1>5. CASE FillsBefore(p, i) # {}
  <2>1. Last(FillsBefore(p, i)) \in FillsBefore(p, i)
    BY <1>2, <1>3, <1>5, LastOf
  <2>2. Fill(p, i) = Last(FillsBefore(p, i))
    BY <1>5 DEF Fill
  <2>3. Fill(p, i) \in 0 .. i - 1
    BY <1>2, <2>1, <2>2
  <2> QED BY <1>2, <1>5, <2>1, <2>2, <2>3
<1> QED BY <1>4, <1>5

(* The next instruction, if it is no WRVEC ...                              *)
LEMMA SameFill ==
  ASSUME NEW p \in Seq(Isr), NEW n \in 1 .. Len(p), p[n].op # "WRVEC"
  PROVE  FillsBefore(p, n + 1) = FillsBefore(p, n) /\ Fill(p, n + 1) = Fill(p, n)
<1>1. \A j \in At(p, "WRVEC") : j \in Nat /\ j # n
  BY DEF At
<1>2. \A j \in At(p, "WRVEC") : j < n + 1 <=> j < n
  BY <1>1
<1>3. FillsBefore(p, n + 1) = FillsBefore(p, n)
  BY <1>2 DEF FillsBefore
<1> QED BY <1>3 DEF Fill

(* ... or if it is one.                                                     *)
LEMMA NewFill ==
  ASSUME NEW p \in Seq(Isr), NEW n \in 1 .. Len(p), p[n].op = "WRVEC"
  PROVE  Fill(p, n + 1) = n
<1>1. n \in FillsBefore(p, n + 1) /\ n + 1 \in 1 .. Len(p) + 1 /\ n \in Nat
  BY DEF FillsBefore, At
<1>2. FillsBefore(p, n + 1) \subseteq 1 .. (n + 1) - 1
  BY <1>1, FillIs
<1>3. FillsBefore(p, n + 1) \subseteq 1 .. n
  BY <1>1, <1>2
<1>4. Last(FillsBefore(p, n + 1)) \in 1 .. n /\ n <= Last(FillsBefore(p, n + 1))
  BY <1>1, <1>3, LastOf
<1> QED BY <1>1, <1>4 DEF Fill

------------------------------------------------------------------------------
(* What the rules of the verifier and the builders together give a program. *)
Good(p) ==
  /\ p \in Seq(Isr) /\ Len(p) > 0 /\ OneLatch(p) /\ VectorMatches(p)
  /\ \A i \in DOMAIN p : IF p[i].op = "RD_MAC" THEN \E c \in Chan : p[i].ch = {c} ELSE p[i].ch = Chan
  /\ p[Len(p)].op \notin {"MAC", "RD_MAC"}
  /\ \A i \in At(p, "MAC"), c \in Chan : \E j \in At(p, "RD_MAC") : j > i /\ c \in p[j].ch
  /\ p # Scrub => \A i, j \in At(p, "RD_MAC") : p[i].row = p[j].row => i = j
  /\ p = Scrub => At(p, "MAC") = {} /\ \A c \in Chan : DrainedBy(p, c, Len(p) - 1)

(* The scrub drains every channel, and is nothing else.                     *)
LEMMA ScrubIsGood ==
  ASSUME Session, Accepted(Scrub)
  PROVE  Good(Scrub)
<1>1. PICK chans \in Seq(Chan), words \in Seq(Word) :
        /\ Scrub = ScrubProgram(chans, words) /\ Len(words) = Len(chans) /\ Chan # {}
        /\ \A c \in Chan : \E i \in 1 .. Len(chans) : chans[i] = c
  BY DEF Session
<1> DEFINE n == Len(chans)
<1>2. n \in Nat /\ \A i \in 1 .. n : chans[i] \in Chan
  OBVIOUS
<1>3. Scrub \in Seq(Isr) /\ OneLatch(Scrub) /\ VectorMatches(Scrub)
  BY AcceptedFacts DEF Accepted, Verify, Session
<1>4. Len(Scrub) = n + 1 /\ DOMAIN Scrub = 1 .. n + 1
  <2>1. DOMAIN Scrub = 1 .. n + 1
    BY <1>1 DEF ScrubProgram
  <2>2. Len(Scrub) \in Nat /\ DOMAIN Scrub = 1 .. Len(Scrub)
    BY <1>3
  <2> QED BY <1>2, <2>1, <2>2
<1>5. \A i \in 1 .. n : Scrub[i].op = "RD_MAC" /\ Scrub[i].ch = {chans[i]}
  BY <1>1, <1>2 DEF ScrubProgram
<1>6. Scrub[n + 1].op = "EOS" /\ Scrub[n + 1].ch = Chan
  BY <1>1, <1>2 DEF ScrubProgram
<1>7. \A i \in 1 .. n + 1 : i \in 1 .. n \/ i = n + 1
  BY <1>2
<1> HIDE DEF n
<1>8. \A i \in DOMAIN Scrub :
        IF Scrub[i].op = "RD_MAC" THEN \E c \in Chan : Scrub[i].ch = {c} ELSE Scrub[i].ch = Chan
  BY <1>2, <1>4, <1>5, <1>6, <1>7
<1>9. At(Scrub, "MAC") = {}
  BY <1>4, <1>5, <1>6, <1>7 DEF At
<1>10. \A c \in Chan : DrainedBy(Scrub, c, Len(Scrub) - 1)
  <2> TAKE c \in Chan
  <2>1. PICK i \in 1 .. n : chans[i] = c
    BY <1>1 DEF n
  <2>2. i \in At(Scrub, "RD_MAC") /\ c \in Scrub[i].ch /\ i <= Len(Scrub) - 1
    BY <1>2, <1>4, <1>5, <2>1 DEF At
  <2> QED BY <2>2 DEF DrainedBy
<1>11. Scrub[Len(Scrub)].op \notin {"MAC", "RD_MAC"}
  BY <1>4, <1>6
<1>12. Len(Scrub) > 0
  BY <1>2, <1>4
<1> QED BY <1>3, <1>8, <1>9, <1>10, <1>11, <1>12 DEF Good

LEMMA AcceptedIsGood ==
  ASSUME Session, NEW p, Accepted(p)
  PROVE  Good(p)
<1>1. CASE p = Scrub
  BY <1>1, ScrubIsGood
<1>2. CASE p # Scrub
  <2>1. Verify(p, AllowT) /\ Built(p) /\ ~ AllowT
    BY <1>2 DEF Session, Accepted, Asked
  <2>2. p \in Seq(Isr) /\ Len(p) > 0 /\ Len(p) \in Nat /\ DOMAIN p = 1 .. Len(p)
    BY AcceptedFacts
  <2>3. OneLatch(p) /\ VectorMatches(p) /\ p[Len(p)].op # "RD_MAC"
    BY <2>1 DEF Verify, EndsQuietly
  <2>4. p[Len(p)].op # "MAC"
    <3> SUFFICES ASSUME p[Len(p)].op = "MAC"  PROVE FALSE
      OBVIOUS
    <3>1. Len(p) \in At(p, "MAC")
      BY <2>2 DEF At
    <3>2. PICK c \in Chan : TRUE
      BY IsrAssumption
    <3>3. PICK j \in At(p, "RD_MAC") : j > Len(p)
      BY <2>1, <3>1, <3>2 DEF Built
    <3> QED BY <2>2, <3>3 DEF At
  <2> QED BY <1>2, <2>1, <2>2, <2>3, <2>4 DEF Good, Built
<1> QED BY <1>1, <1>2

(* What a channel holds: nothing changes but at a MAC ...                   *)
LEMMA SinceSame ==
  ASSUME NEW p \in Seq(Isr), NEW n \in 1 .. Len(p), NEW c \in Chan, p[n].op # "MAC",
         p[n].op # "RD_MAC" \/ c \notin p[n].ch
  PROVE  /\ Collected(p, c, n) = Collected(p, c, n - 1)
         /\ DrainedBy(p, c, n) <=> DrainedBy(p, c, n - 1)
<1>1. \A i \in At(p, "MAC") : i \in Nat /\ i # n
  BY DEF At
<1>2. \A k \in At(p, "RD_MAC") : k \in Nat /\ (c \in p[k].ch => k # n)
  BY DEF At
<1>3. \A i \in At(p, "MAC") : i <= n <=> i <= n - 1
  BY <1>1
<1>4. \A k \in At(p, "RD_MAC") : c \in p[k].ch => (k <= n <=> k <= n - 1)
  BY <1>2
<1>5. Since(p, c, n) = Since(p, c, n - 1)
  BY <1>3, <1>4, Zenon DEF Since
<1>6. DrainedBy(p, c, n) <=> DrainedBy(p, c, n - 1)
  BY <1>4, Zenon DEF DrainedBy
<1> QED BY <1>5, <1>6 DEF Collected

(* ... which adds its product ...                                           *)
LEMMA SinceMac ==
  ASSUME NEW p \in Seq(Isr), NEW n \in 1 .. Len(p), NEW c \in Chan, p[n].op = "MAC"
  PROVE  /\ Collected(p, c, n) = Collected(p, c, n - 1) \cup {<<n, Last(FillsBefore(p, n))>>}
         /\ DrainedBy(p, c, n) <=> DrainedBy(p, c, n - 1)
<1>1. n \in At(p, "MAC") /\ n <= n
  BY DEF At
<1>2. \A i \in At(p, "MAC") : i \in Nat
  BY DEF At
<1>3. \A k \in At(p, "RD_MAC") : k \in Nat /\ k # n
  BY DEF At
<1>4. \A i \in At(p, "MAC") : i <= n <=> i <= n - 1 \/ i = n
  BY <1>2
<1>5. \A k \in At(p, "RD_MAC") : (k <= n <=> k <= n - 1) /\ ~ (n < k /\ k <= n)
  BY <1>3
<1>6. Since(p, c, n) = Since(p, c, n - 1) \cup {n}
  BY <1>1, <1>4, <1>5, Zenon DEF Since
<1>7. DrainedBy(p, c, n) <=> DrainedBy(p, c, n - 1)
  BY <1>5, Zenon DEF DrainedBy
<1> QED BY <1>6, <1>7 DEF Collected

(* ... and at a drain, which takes everything.                              *)
LEMMA SinceDrain ==
  ASSUME NEW p \in Seq(Isr), NEW n \in 1 .. Len(p), NEW c \in Chan, p[n].op = "RD_MAC", c \in p[n].ch
  PROVE  Collected(p, c, n) = {} /\ DrainedBy(p, c, n)
<1>1. n \in At(p, "RD_MAC") /\ n <= n
  BY DEF At
<1>2. \A i \in At(p, "MAC") : i \in Nat /\ i # n
  BY DEF At
<1>3. \A i \in At(p, "MAC") : i <= n => i < n
  BY <1>2
<1>4. Since(p, c, n) = {}
  BY <1>1, <1>3 DEF Since
<1> QED BY <1>1, <1>4 DEF Collected, DrainedBy

(* What the author of a good program meant a drain to return is what its    *)
(* channel holds when it comes.                                             *)
LEMMA MeantIs ==
  ASSUME NEW p, Good(p), NEW j \in At(p, "RD_MAC"), NEW d \in Chan, p[j].ch = {d}
  PROVE  Meant(p, j) = Collected(p, d, j - 1)
<1>1. (CHOOSE x \in p[j].ch : TRUE) = d
  OBVIOUS
<1>2. p \in Seq(Isr) /\ j \in 1 .. Len(p) /\ DOMAIN p = 1 .. Len(p) /\ Len(p) \in Nat
  BY DEF Good, At
<1>3. \A i \in DOMAIN p : p[i].t = 0
  BY DEF Good, OneLatch
<1>4. \A i \in At(p, "MAC") : i \in DOMAIN p /\ p[i].ch = Chan /\ i \in Nat
  BY <1>2 DEF Good, At
<1>5. \A k \in At(p, "RD_MAC") : k \in DOMAIN p /\ k \in Nat
  BY <1>2 DEF At
<1>6. \A i \in Nat : i < j <=> i <= j - 1
  BY <1>2
<1>7. j \in DOMAIN p
  BY <1>2
<1> DEFINE Own(i) == d \in p[i].ch /\ p[i].t = p[j].t
           S == {i \in At(p, "MAC") : i < j /\ Own(i)
                   /\ ~ \E k \in At(p, "RD_MAC") : i < k /\ k < j /\ Own(k)}
<1>8. S = Since(p, d, j - 1)
  BY <1>3, <1>4, <1>5, <1>6, <1>7, Zenon DEF Since
<1>9. \A i \in At(p, "MAC") : {k \in FillsBefore(p, i) : d \in p[k].ch} = FillsBefore(p, i)
  <2> TAKE i \in At(p, "MAC")
  <2>1. \A k \in FillsBefore(p, i) : k \in DOMAIN p /\ p[k].op = "WRVEC"
    BY DEF FillsBefore, At
  <2>2. \A k \in FillsBefore(p, i) : d \in p[k].ch
    BY <2>1 DEF Good
  <2> QED BY <2>2
<1>10. Meant(p, j) = {<<i, Last({k \in FillsBefore(p, i) : d \in p[k].ch})>> : i \in S}
  BY <1>1 DEF Meant
<1>11. \A i \in Since(p, d, j - 1) : i \in At(p, "MAC")
  BY DEF Since
<1> HIDE DEF S
<1>12. Meant(p, j) = {<<i, Last({k \in FillsBefore(p, i) : d \in p[k].ch})>> : i \in Since(p, d, j - 1)}
  BY <1>8, <1>10
<1> QED BY <1>9, <1>11, <1>12 DEF Collected

------------------------------------------------------------------------------
(* One instruction, retired by a machine that is exact up to it.            *)

(* The controllers see one instruction at a time, and the vector in their   *)
(* buffer: what is handed over so far is as good as the whole program.      *)
LEMMA RetireSame ==
  ASSUME NEW p \in Seq(Isr), NEW n \in 1 .. Len(p), NEW s, MachineOK(s),
         \A c \in Chan : s.gb[c] = Fill(p, n)
  PROVE  Retire(s, SubSeq(p, 1, n), n) = Retire(s, p, n)
<1> DEFINE q == SubSeq(p, 1, n)
<1>1. q[n] = p[n] /\ \A i \in 1 .. n : q[i] = p[i]
  OBVIOUS
<1>2. n \in 1 .. Len(p) + 1 /\ n \in Nat
  OBVIOUS
<1>3. Fill(p, n) \in 0 .. n - 1
  BY <1>2, FillIs
<1>4. Fill(p, n) # 0 => q[Fill(p, n)] = p[Fill(p, n)]
  BY <1>1, <1>3
<1> HIDE DEF q
<1>5. \A c \in Chan : Aligned(s, q, n, c) = Aligned(s, p, n, c)
  BY <1>1, <1>4 DEF Aligned
<1>6. \A x \in DOMAIN s.latch : x[1] \in Chan
  BY DEF MachineOK
<1>7. [s EXCEPT !.gb = [c \in Chan |-> IF c \in q[n].ch THEN n ELSE s.gb[c]]]
        = [s EXCEPT !.gb = [c \in Chan |-> IF c \in p[n].ch THEN n ELSE s.gb[c]]]
  BY <1>1
<1>8. [x \in DOMAIN s.latch |->
         IF x[1] \in q[n].ch /\ x[2] = LatchOf(q[n])
         THEN s.latch[x] \cup {IF Aligned(s, q, n, x[1]) THEN <<n, s.gb[x[1]]>> ELSE Foreign}
         ELSE s.latch[x]]
      = [x \in DOMAIN s.latch |->
         IF x[1] \in p[n].ch /\ x[2] = LatchOf(p[n])
         THEN s.latch[x] \cup {IF Aligned(s, p, n, x[1]) THEN <<n, s.gb[x[1]]>> ELSE Foreign}
         ELSE s.latch[x]]
  BY <1>1, <1>5, <1>6
<1>9. [c \in Chan |-> s.skid[c] \/ (c \in q[n].ch /\ ~ Aligned(s, q, n, c))]
        = [c \in Chan |-> s.skid[c] \/ (c \in p[n].ch /\ ~ Aligned(s, p, n, c))]
  BY <1>1, <1>5, Zenon
<1>10. Retire(s, q, n) = Retire(s, p, n)
  BY SMTT(60), <1>1, <1>7, <1>8, <1>9 DEF Retire
<1> QED BY <1>10 DEF q

(* A good program loads every channel at once.                              *)
LEMMA Loads ==
  ASSUME NEW p, Good(p), NEW n \in 1 .. Len(p), p[n].op = "WRVEC", NEW s, MachineOK(s),
         NEW sure, Exact(s, p, n - 1, sure)
  PROVE  MachineOK(Retire(s, p, n)) /\ Exact(Retire(s, p, n), p, n, sure)
<1>1. p \in Seq(Isr) /\ n \in DOMAIN p /\ p[n].ch = Chan /\ n \in Nat /\ (n - 1) + 1 = n
  BY DEF Good
<1> DEFINE z == [s EXCEPT !.gb = [c \in Chan |-> IF c \in p[n].ch THEN n ELSE s.gb[c]]]
<1>2. Retire(s, p, n) = z
  BY DEF Retire
<1>3. s = [gb |-> s.gb, skid |-> s.skid, latch |-> s.latch, gpr |-> s.gpr]
  BY DEF MachineOK
<1>4. z = [gb |-> [c \in Chan |-> n], skid |-> s.skid, latch |-> s.latch, gpr |-> s.gpr]
  BY <1>1, <1>3
<1> HIDE DEF z
<1>5. z.gb = [c \in Chan |-> n] /\ z.skid = s.skid /\ z.latch = s.latch /\ z.gpr = s.gpr
  BY <1>4
<1>6. MachineOK(z)
  BY <1>4, <1>5 DEF MachineOK
<1>7. \A c \in Chan : /\ Collected(p, c, n) = Collected(p, c, n - 1)
                      /\ DrainedBy(p, c, n) <=> DrainedBy(p, c, n - 1)
  BY <1>1, SinceSame
<1>8. Fill(p, n + 1) = n
  BY <1>1, NewFill
<1>9. \A j \in At(p, "RD_MAC") : j <= n => j <= n - 1
  BY <1>1 DEF At
<1>10. Exact(z, p, n, sure)
  BY <1>5, <1>7, <1>8, <1>9, Zenon DEF Exact
<1> QED BY <1>2, <1>6, <1>10

(* It multiplies what it loaded: the beats are the vector's.                *)
LEMMA Multiplies ==
  ASSUME NEW p, Good(p), Latches = {0}, NEW n \in 1 .. Len(p), p[n].op = "MAC", NEW s, MachineOK(s),
         NEW sure, Exact(s, p, n - 1, sure)
  PROVE  MachineOK(Retire(s, p, n)) /\ Exact(Retire(s, p, n), p, n, sure)
<1>1. /\ p \in Seq(Isr) /\ n \in DOMAIN p /\ p[n].ch = Chan /\ p[n].t = 0 /\ n \in Nat
      /\ (n - 1) + 1 = n /\ n \in 1 .. Len(p) + 1 /\ n \in At(p, "MAC")
  BY DEF Good, OneLatch, At
<1>2. FillsBefore(p, n) # {} /\ p[Last(FillsBefore(p, n))].sz = p[n].sz
  BY <1>1 DEF Good, VectorMatches
<1>3. Fill(p, n) = Last(FillsBefore(p, n)) /\ Fill(p, n) \in FillsBefore(p, n)
  BY <1>1, <1>2, FillIs
<1>4. Fill(p, n) # 0 /\ p[Fill(p, n)].sz = p[n].sz
  <2>1. Fill(p, n) \in 1 .. Len(p)
    BY <1>1, <1>3 DEF FillsBefore, At
  <2> QED BY <1>2, <1>3, <2>1
<1>5. \A c \in Chan : s.gb[c] = Fill(p, n) /\ s.skid[c] = FALSE
  BY <1>1 DEF Exact
<1>6. \A c \in Chan : Aligned(s, p, n, c)
  BY <1>4, <1>5 DEF Aligned
<1>7. LatchOf(p[n]) = 0
  BY <1>1 DEF LatchOf
<1> DEFINE sum == [x \in DOMAIN s.latch |->
               IF x[1] \in p[n].ch /\ x[2] = LatchOf(p[n])
               THEN s.latch[x] \cup {IF Aligned(s, p, n, x[1]) THEN <<n, s.gb[x[1]]>> ELSE Foreign}
               ELSE s.latch[x]]
           left == [c \in Chan |-> s.skid[c] \/ (c \in p[n].ch /\ ~ Aligned(s, p, n, c))]
           z == [s EXCEPT !.latch = sum, !.skid = left]
<1>8. Retire(s, p, n) = z
  BY DEF Retire
<1>9. /\ s = [gb |-> s.gb, skid |-> s.skid, latch |-> s.latch, gpr |-> s.gpr]
      /\ DOMAIN s.latch = Chan \X Latches
  BY DEF MachineOK
<1>10. \A c \in Chan : sum[<<c, 0>>] = s.latch[<<c, 0>>] \cup {<<n, Fill(p, n)>>}
  <2> TAKE c \in Chan
  <2>1. <<c, 0>> \in DOMAIN s.latch
    BY <1>9
  <2> QED BY <1>1, <1>5, <1>6, <1>7, <2>1
<1>11. \A c \in Chan : left[c] = FALSE
  BY <1>5, <1>6, Zenon
<1>12. sum = [x \in Chan \X Latches |-> sum[x]] /\ left = [c \in Chan |-> left[c]]
  BY <1>9
<1> HIDE DEF sum, left
<1>13. z = [gb |-> s.gb, skid |-> left, latch |-> sum, gpr |-> s.gpr]
  <2>1. s = [gb |-> s.gb, skid |-> s.skid, latch |-> s.latch, gpr |-> s.gpr]
    BY <1>9
  <2>2. z = [s EXCEPT !.latch = sum, !.skid = left]
    OBVIOUS
  <2> HIDE DEF z
  <2> QED BY <2>1, <2>2
<1> HIDE DEF z
<1>14. z.gb = s.gb /\ z.skid = left /\ z.latch = sum /\ z.gpr = s.gpr
  BY <1>13
<1>15. MachineOK(z)
  BY <1>12, <1>13, <1>14, Zenon DEF MachineOK
<1>16. \A c \in Chan : /\ Collected(p, c, n) = Collected(p, c, n - 1) \cup {<<n, Fill(p, n)>>}
                       /\ DrainedBy(p, c, n) <=> DrainedBy(p, c, n - 1)
  BY <1>1, <1>3, SinceMac
<1>17. Fill(p, n + 1) = Fill(p, n)
  BY <1>1, SameFill
<1>18. \A j \in At(p, "RD_MAC") : j <= n => j <= n - 1
  BY <1>1 DEF At
<1>19. \A c \in Chan : sure \/ DrainedBy(p, c, n - 1) => s.latch[<<c, 0>>] = Collected(p, c, n - 1)
  BY DEF Exact
<1>20. \A c \in Chan : sure \/ DrainedBy(p, c, n) => z.latch[<<c, 0>>] = Collected(p, c, n)
  BY <1>10, <1>14, <1>16, <1>19, Zenon
<1>21. sure /\ p # Scrub => \A j \in At(p, "RD_MAC") : j <= n => z.gpr[p[j].row] = Meant(p, j)
  BY <1>14, <1>18, Zenon DEF Exact
<1>22. Exact(z, p, n, sure)
  BY <1>5, <1>11, <1>14, <1>17, <1>20, <1>21, Zenon DEF Exact
<1> QED BY <1>8, <1>15, <1>22

(* It drains one channel into a word of its own.                            *)
LEMMA Drains ==
  ASSUME NEW p, Good(p), Latches = {0}, NEW n \in 1 .. Len(p), p[n].op = "RD_MAC", NEW s, MachineOK(s),
         NEW sure, Exact(s, p, n - 1, sure)
  PROVE  MachineOK(Retire(s, p, n)) /\ Exact(Retire(s, p, n), p, n, sure)
<1>1. /\ p \in Seq(Isr) /\ n \in DOMAIN p /\ p[n].t = 0 /\ n \in Nat /\ p[n].row \in Word
      /\ (n - 1) + 1 = n /\ n \in At(p, "RD_MAC")
  <2>1. p \in Seq(Isr) /\ n \in DOMAIN p /\ p[n] \in Isr
    BY DEF Good
  <2> QED BY <2>1 DEF Good, OneLatch, At, Isr
<1>2. PICK d \in Chan : p[n].ch = {d}
  BY <1>1 DEF Good
<1>3. LatchOf(p[n]) = 0 /\ (CHOOSE c \in p[n].ch : TRUE) = d
  BY <1>1, <1>2 DEF LatchOf
<1> DEFINE x == <<CHOOSE c \in p[n].ch : TRUE, LatchOf(p[n])>>
           word == [s.gpr EXCEPT ![p[n].row] = s.latch[x]]
           empty == [y \in DOMAIN s.latch |-> IF y[1] \in p[n].ch /\ y[2] = x[2] THEN {} ELSE s.latch[y]]
           z == [s EXCEPT !.gpr[p[n].row] = s.latch[x],
                       !.latch = [y \in DOMAIN s.latch |->
                          IF y[1] \in p[n].ch /\ y[2] = x[2] THEN {} ELSE s.latch[y]]]
<1>4. Retire(s, p, n) = z
  BY DEF Retire
<1>5. /\ s = [gb |-> s.gb, skid |-> s.skid, latch |-> s.latch, gpr |-> s.gpr]
      /\ DOMAIN s.latch = Chan \X Latches /\ s.gpr = [w \in Word |-> s.gpr[w]]
  BY DEF MachineOK
<1>6. x = <<d, 0>>
  BY <1>3
<1>7. \A c \in Chan : empty[<<c, 0>>] = IF c = d THEN {} ELSE s.latch[<<c, 0>>]
  <2> TAKE c \in Chan
  <2>1. <<c, 0>> \in DOMAIN s.latch
    BY <1>5
  <2> HIDE DEF x
  <2>2. x[2] = 0
    BY <1>6
  <2> QED BY <1>2, <2>1, <2>2
<1>8. empty = [y \in Chan \X Latches |-> empty[y]]
  BY <1>5
<1>9. word = [w \in Word |-> word[w]] /\ word[p[n].row] = s.latch[<<d, 0>>]
      /\ \A w \in Word : w # p[n].row => word[w] = s.gpr[w]
  <2> HIDE DEF x
  <2> QED BY <1>1, <1>5, <1>6
<1>10. z = [gb |-> s.gb, skid |-> s.skid, latch |-> empty, gpr |-> word]
  <2>1. z = [s EXCEPT !.gpr = word, !.latch = empty]
    <3> HIDE DEF x
    <3> QED BY <1>5
  <2> HIDE DEF z, empty, word
  <2> QED BY <1>5, <2>1
<1> HIDE DEF x, word, empty, z
<1>11. z.gb = s.gb /\ z.skid = s.skid /\ z.latch = empty /\ z.gpr = word
  BY <1>10
<1>12. MachineOK(z)
  <2>1. s.gb = [c \in Chan |-> s.gb[c]] /\ s.skid = [c \in Chan |-> s.skid[c]]
    BY DEF MachineOK
  <2> QED BY <1>8, <1>9, <1>10, <1>11, <2>1, Zenon DEF MachineOK
<1>13. Fill(p, n + 1) = Fill(p, n)
  BY <1>1, SameFill
<1>14. /\ \A c \in Chan : s.gb[c] = Fill(p, n) /\ s.skid[c] = FALSE
       /\ \A c \in Chan : sure \/ DrainedBy(p, c, n - 1) => s.latch[<<c, 0>>] = Collected(p, c, n - 1)
       /\ sure /\ p # Scrub => \A j \in At(p, "RD_MAC") : j <= n - 1 => s.gpr[p[j].row] = Meant(p, j)
  BY <1>1 DEF Exact
<1>15. ASSUME NEW c \in Chan, sure \/ DrainedBy(p, c, n)
       PROVE  z.latch[<<c, 0>>] = Collected(p, c, n)
  <2>1. CASE c = d
    BY <1>1, <1>2, <1>7, <1>11, <2>1, SinceDrain
  <2>2. CASE c # d
    <3>1. c \notin p[n].ch
      BY <1>2, <2>2
    <3>2. Collected(p, c, n) = Collected(p, c, n - 1) /\ (DrainedBy(p, c, n) <=> DrainedBy(p, c, n - 1))
      BY <1>1, <3>1, SinceSame
    <3>3. s.latch[<<c, 0>>] = Collected(p, c, n - 1)
      BY <1>14, <1>15, <3>2, Zenon
    <3> QED BY <1>7, <1>11, <2>2, <3>2, <3>3
  <2> QED BY <2>1, <2>2
<1>16. ASSUME sure, p # Scrub, NEW j \in At(p, "RD_MAC"), j <= n
       PROVE  z.gpr[p[j].row] = Meant(p, j)
  <2>1. CASE j = n
    <3>1. Meant(p, n) = Collected(p, d, n - 1)
      BY <1>1, <1>2, MeantIs
    <3>2. s.latch[<<d, 0>>] = Collected(p, d, n - 1)
      BY <1>14, <1>16, Zenon
    <3> QED BY <1>9, <1>11, <2>1, <3>1, <3>2
  <2>2. CASE j # n
    <3>1. p[j].row # p[n].row
      BY <1>1, <1>16, <2>2 DEF Good
    <3>2. j <= n - 1 /\ p[j].row \in Word
      <4>1. j \in DOMAIN p /\ j \in Nat
        BY <1>1 DEF At
      <4>2. p[j] \in Isr
        BY <1>1, <4>1
      <4> QED BY <1>1, <1>16, <2>2, <4>1, <4>2 DEF Isr
    <3>3. s.gpr[p[j].row] = Meant(p, j)
      BY <1>14, <1>16, <3>2, Zenon
    <3> QED BY <1>9, <1>11, <3>1, <3>2, <3>3
  <2> QED BY <2>1, <2>2
<1>17. Exact(z, p, n, sure)
  BY <1>11, <1>13, <1>14, <1>15, <1>16, Zenon DEF Exact
<1> QED BY <1>4, <1>12, <1>17

(* And at its end it does nothing.                                          *)
LEMMA Ends ==
  ASSUME NEW p, Good(p), NEW n \in 1 .. Len(p), p[n].op = "EOS", NEW s, MachineOK(s),
         NEW sure, Exact(s, p, n - 1, sure)
  PROVE  MachineOK(Retire(s, p, n)) /\ Exact(Retire(s, p, n), p, n, sure)
<1>1. p \in Seq(Isr) /\ n \in DOMAIN p /\ n \in Nat /\ (n - 1) + 1 = n
  BY DEF Good
<1>2. Retire(s, p, n) = s
  BY DEF Retire
<1>3. \A c \in Chan : /\ Collected(p, c, n) = Collected(p, c, n - 1)
                      /\ DrainedBy(p, c, n) <=> DrainedBy(p, c, n - 1)
  BY <1>1, SinceSame
<1>4. Fill(p, n + 1) = Fill(p, n)
  BY <1>1, SameFill
<1>5. \A j \in At(p, "RD_MAC") : j <= n => j <= n - 1
  BY <1>1 DEF At
<1>6. Fill(p, (n - 1) + 1) = Fill(p, n)
  BY <1>1
<1>7. Exact(s, p, n, sure)
  BY <1>3, <1>4, <1>5, <1>6, Zenon DEF Exact
<1> QED BY <1>2, <1>7

LEMMA Steps ==
  ASSUME NEW p, Good(p), Latches = {0}, NEW n \in 1 .. Len(p), NEW s, MachineOK(s),
         NEW sure, Exact(s, p, n - 1, sure)
  PROVE  MachineOK(Retire(s, p, n)) /\ Exact(Retire(s, p, n), p, n, sure)
<1>1. p[n].op \in Ops
  <2>1. p[n] \in Isr
    BY DEF Good
  <2> QED BY <2>1 DEF Isr
<1> QED BY <1>1, Loads, Multiplies, Drains, Ends DEF Ops

------------------------------------------------------------------------------
(* The machine from one doorbell to the next.                               *)

(* By its last instruction but one a good program has drained what it added.*)
LEMMA DrainedEnd ==
  ASSUME NEW p, Good(p), NEW c \in Chan, NEW r \in {Len(p) - 1, Len(p)}
  PROVE  Collected(p, c, r) = {}
<1>1. p \in Seq(Isr) /\ Len(p) \in Nat /\ DOMAIN p = 1 .. Len(p) /\ p[Len(p)].op # "RD_MAC"
  BY DEF Good
<1>2. \A k \in At(p, "RD_MAC") : k <= r
  <2> TAKE k \in At(p, "RD_MAC")
  <2>1. k \in 1 .. Len(p) /\ p[k].op = "RD_MAC"
    BY <1>1 DEF At
  <2>2. k # Len(p)
    BY <1>1, <2>1
  <2>3. Len(p) \in Nat /\ (r = Len(p) - 1 \/ r = Len(p))
    BY <1>1
  <2> HIDE DEF Good
  <2> QED BY <2>1, <2>2, <2>3
<1>3. \A i \in At(p, "MAC") : \E k \in At(p, "RD_MAC") : i < k /\ c \in p[k].ch
  <2> TAKE i \in At(p, "MAC")
  <2>1. PICK k \in At(p, "RD_MAC") : k > i /\ c \in p[k].ch
    BY DEF Good
  <2> QED BY <2>1
<1>4. Since(p, c, r) = {}
  BY <1>2, <1>3, Zenon DEF Since
<1> QED BY <1>4 DEF Collected

(* A new program on a new count of what is in the machine.                  *)
LEMMA Begins ==
  ASSUME NEW p \in Seq(Isr), NEW L, NEW sure, L = [x \in Chan \X Latches |-> L[x]], Latches = {0},
         sure => \A x \in Chan \X Latches : L[x] = {}
  PROVE  MachineOK(Machine(L)) /\ Exact(Machine(L), p, 0, sure)
<1>1. /\ Machine(L).gb = [c \in Chan |-> 0] /\ Machine(L).skid = [c \in Chan |-> FALSE]
      /\ Machine(L).latch = L /\ Machine(L).gpr = [w \in Word |-> {Foreign}]
      /\ Machine(L) = [gb |-> Machine(L).gb, skid |-> Machine(L).skid,
                       latch |-> Machine(L).latch, gpr |-> Machine(L).gpr]
  BY DEF Machine
<1>2. MachineOK(Machine(L))
  BY <1>1 DEF MachineOK
<1>3. Len(p) \in Nat /\ 1 \in 1 .. Len(p) + 1 /\ 0 + 1 = 1
  OBVIOUS
<1>4. Fill(p, 1) = 0
  <2>1. Fill(p, 1) \in 0 .. 1 - 1
    BY <1>3, FillIs
  <2> QED BY <2>1
<1>5. \A op : \A j \in At(p, op) : ~ (j <= 0)
  BY <1>3 DEF At
<1>6. \A c \in Chan : ~ DrainedBy(p, c, 0) /\ Collected(p, c, 0) = {}
  BY <1>5 DEF DrainedBy, Collected, Since
<1>7. \A c \in Chan : sure => L[<<c, 0>>] = {}
  <2> TAKE c \in Chan
  <2>1. <<c, 0>> \in Chan \X Latches
    OBVIOUS
  <2> QED BY <2>1
<1>8. \A c \in Chan : Machine(L).gb[c] = 0 /\ Machine(L).skid[c] = FALSE
  BY <1>1
<1>9. Exact(Machine(L), p, 0, sure)
  BY <1>1, <1>3, <1>4, <1>5, <1>6, <1>7, <1>8, Zenon DEF Exact
<1> QED BY <1>2, <1>9

(* How far the controllers are: at most one instruction behind.             *)
LEMMA Counted ==
  ASSUME issued \in Seq(Isr), busy => issued # <<>>
  PROVE  NRetired \in Nat /\ NRetired \in {Len(issued) - 1, Len(issued)} /\ (~ busy => NRetired = Len(issued))
         /\ (busy => NRetired = Len(issued) - 1)
<1>1. Len(issued) \in Nat /\ (issued # <<>> => Len(issued) > 0)
  OBVIOUS
<1>2. CASE busy
  BY <1>1, <1>2 DEF NRetired
<1>3. CASE ~ busy
  BY <1>1, <1>3 DEF NRetired
<1> QED BY <1>2, <1>3

LEMMA MachineStarts == Session /\ Init => MInv
<1> SUFFICES ASSUME Session, Init  PROVE MInv
  OBVIOUS
<1>1. Latches = {0} /\ <<>> \in Seq(Isr)
  BY DEF Session
<1>2. PICK dirty \in SUBSET (Chan \X Latches) :
        mc = Machine([x \in Chan \X Latches |-> IF x \in dirty THEN {Foreign} ELSE {}])
  BY DEF Init
<1>3. MachineOK(mc) /\ Exact(mc, <<>>, 0, FALSE)
  BY <1>1, <1>2, Begins
<1>4. bell = FALSE /\ busy = FALSE /\ scrubbed = FALSE
  BY DEF Init
<1>5. issued = <<>> /\ rung = <<>> /\ Len(issued) = 0
  BY DEF Init
<1>6. NRetired = 0
  BY <1>1, <1>4, <1>5, Counted
<1>7. issued = SubSeq(rung, 1, Len(issued)) /\ Len(issued) <= Len(rung)
  BY <1>5
<1>8. Exact(mc, rung, NRetired, scrubbed)
  BY <1>3, <1>4, <1>5, <1>6
<1> QED BY <1>1, <1>3, <1>4, <1>5, <1>7, <1>8, Zenon DEF MInv

(* Every program the dispatcher has been through is a good one, ...         *)
LEMMA RanWhole ==
  ASSUME Session, MInv, ~ bell, fetch # "run"
  PROVE  /\ \A c \in Chan : Collected(rung, c, NRetired) = {}
         /\ NRetired \in {Len(rung) - 1, Len(rung)} /\ issued = rung
         /\ busy => rung[Len(rung)].op \notin {"MAC", "RD_MAC"}
<1>1. /\ issued = rung /\ issued \in Seq(Isr) /\ (busy => issued # <<>>)
      /\ rung = <<>> \/ Accepted(rung)
  BY DEF MInv
<1>2. NRetired \in {Len(rung) - 1, Len(rung)} /\ NRetired \in Nat
  BY <1>1, Counted
<1>3. CASE rung = <<>>
  <2>1. At(rung, "MAC") = {}
    BY <1>3 DEF At
  <2>2. \A c \in Chan : Collected(rung, c, NRetired) = {}
    BY <2>1 DEF Collected, Since
  <2> QED BY <1>1, <1>2, <1>3, <2>2
<1>4. CASE Accepted(rung)
  <2>1. Good(rung)
    BY <1>4, AcceptedIsGood
  <2>2. \A c \in Chan : Collected(rung, c, NRetired) = {}
    BY <1>2, <2>1, DrainedEnd
  <2>3. rung[Len(rung)].op \notin {"MAC", "RD_MAC"}
    BY <2>1 DEF Good
  <2> QED BY <1>1, <1>2, <2>2, <2>3
<1> QED BY <1>1, <1>3, <1>4

(* ... so in a session that has scrubbed nothing is left in any latch.      *)
LEMMA LeavesNothing ==
  ASSUME Session, MInv, ~ bell, fetch # "run", scrubbed
  PROVE  \A x \in DOMAIN mc.latch : mc.latch[x] = {}
<1>1. MachineOK(mc) /\ Exact(mc, rung, NRetired, scrubbed) /\ Latches = {0}
  BY DEF MInv, Session
<1>2. \A c \in Chan : mc.latch[<<c, 0>>] = Collected(rung, c, NRetired)
  BY <1>1 DEF Exact
<1>3. \A c \in Chan : mc.latch[<<c, 0>>] = {}
  BY <1>2, RanWhole
<1>4. DOMAIN mc.latch = Chan \X {0}
  BY <1>1 DEF MachineOK
<1>5. \A x \in Chan \X {0} : \E c \in Chan : x = <<c, 0>>
  OBVIOUS
<1> QED BY <1>3, <1>4, <1>5

LEMMA Weaker ==
  ASSUME NEW s, NEW p, NEW r, NEW sure, NEW less, Exact(s, p, r, sure), less => sure
  PROVE  Exact(s, p, r, less)
BY Zenon DEF Exact

(* The host's steps, but for the two that touch the dispatcher: nothing     *)
(* they do is seen by the machine, and a session only comes to count on     *)
(* clean latches by a scrub that it has seen end.                           *)
LEMMA HostLeavesMachine ==
  ASSUME Session, FInv, MInv,
         \/ Open \/ OpenBusy \/ Close \/ IdleToLoad \/ IdleToRing \/ IdleTimeout
         \/ PollDone \/ PollAgain \/ PollTimeout \/ Success \/ Failure \/ LoadFailed \/ Kill
         \/ LoadWord \/ LoadDone \/ SetLength \/ \E p \in Asked : Run(p)
  PROVE  MInv'
<1>1. UNCHANGED <<bell, fetch, busy, issued, mc, rung>>
  BY DEF Open, OpenBusy, Close, IdleToLoad, IdleToRing, IdleTimeout, PollDone, PollAgain,
         PollTimeout, Success, Failure, LoadFailed, Kill, FindsIdle, FindsBusy, ReadsDone, ReadsNotDone,
         Confirms, ReadsStatus, LoadWord, LoadDone, SetLength, Run, board
<1>2. \/ scrubbed' = scrubbed \/ scrubbed' = FALSE
      \/ Success /\ prog = Scrub /\ scrubbed' = TRUE
  <2>1. CASE Success
    <3>1. scrubbed' = (scrubbed \/ prog = Scrub)
      BY <2>1 DEF Success
    <3>2. scrubbed \in BOOLEAN
      BY DEF MInv
    <3> QED BY <2>1, <3>1, <3>2, Zenon
  <2>2. CASE ~ Success
    BY <2>2 DEF Open, OpenBusy, Close, IdleToLoad, IdleToRing, IdleTimeout, PollDone, PollAgain,
         PollTimeout, Failure, LoadFailed, Kill, LoadWord, LoadDone, SetLength, Run, host, board
  <2> QED BY <2>1, <2>2
<1>3. NRetired' = NRetired /\ (Accepted(rung))' = Accepted(rung)
  BY <1>1 DEF NRetired, Accepted
<1>4. /\ MachineOK(mc) /\ issued \in Seq(Isr) /\ busy \in BOOLEAN /\ scrubbed \in BOOLEAN
      /\ busy => issued # <<>>
      /\ bell => /\ busy => issued[Len(issued)].op \notin {"MAC", "RD_MAC"}
                 /\ scrubbed => \A x \in DOMAIN mc.latch : mc.latch[x] = {}
      /\ ~ bell => /\ rung = <<>> \/ Accepted(rung)
                   /\ Len(issued) <= Len(rung) /\ issued = SubSeq(rung, 1, Len(issued))
                   /\ fetch # "run" => issued = rung
                   /\ Exact(mc, rung, NRetired, scrubbed)
  BY DEF MInv
<1>5. /\ scrubbed' \in BOOLEAN
      /\ bell => (scrubbed' => \A x \in DOMAIN mc.latch : mc.latch[x] = {})
      /\ ~ bell => Exact(mc, rung, NRetired, scrubbed')
  <2>1. CASE scrubbed' = scrubbed
    BY <1>4, <2>1, Zenon
  <2>2. CASE scrubbed' = FALSE
    <3>1. ~ bell => Exact(mc, rung, NRetired, FALSE)
      BY <1>4, Weaker
    <3> QED BY <2>2, <3>1
  <2>3. CASE Success /\ prog = Scrub /\ scrubbed' = TRUE
    <3>1. pc = "last" /\ fetch = "done" /\ (bell => stale > 0)
      BY <2>3 DEF Success, Confirms, ReadsDone, ReadsStatus
    <3>2. ~ bell /\ rung = Scrub /\ Accepted(Scrub)
      BY <2>3, <3>1 DEF FInv, BellOK, HostOK, Launching, Holding
    <3>3. Good(Scrub)
      BY <3>2, AcceptedIsGood
    <3>4. NRetired \in {Len(Scrub) - 1, Len(Scrub)} /\ Len(Scrub) \in Nat
      BY <3>1, <3>2, <3>3, RanWhole DEF Good
    <3>5. Exact(mc, Scrub, NRetired, scrubbed)
      BY <1>4, <3>2
    <3>6. \A c \in Chan : DrainedBy(Scrub, c, NRetired)
      <4> TAKE c \in Chan
      <4>1. DrainedBy(Scrub, c, Len(Scrub) - 1)
        BY <3>3 DEF Good
      <4>2. PICK k \in At(Scrub, "RD_MAC") : k <= Len(Scrub) - 1 /\ c \in Scrub[k].ch
        BY <4>1 DEF DrainedBy
      <4>3. k \in Nat
        BY <3>3 DEF Good, At
      <4>4. k <= NRetired
        BY <3>4, <4>2, <4>3
      <4> QED BY <4>2, <4>4 DEF DrainedBy
    <3>7. Exact(mc, Scrub, NRetired, TRUE)
      BY <3>5, <3>6, Zenon DEF Exact
    <3> QED BY <2>3, <3>2, <3>7
  <2> QED BY <1>2, <2>1, <2>2, <2>3
<1> QED BY <1>1, <1>3, <1>4, <1>5, Zenon DEF MInv

(* The doorbell: what the program before has left cannot matter any more.   *)
LEMMA RingsQuietly ==
  ASSUME Session, FInv, MInv, Ring
  PROVE  MInv'
<1>1. /\ bell' = TRUE /\ UNCHANGED <<scrubbed, busy, issued, mc>>
      /\ pc = "ring"
  BY DEF Ring
<1>2. ~ bell /\ fetch # "run"
  BY <1>1 DEF FInv, HostOK, Holding, Launching
<1>3. busy => issued[Len(issued)].op \notin {"MAC", "RD_MAC"}
  BY <1>2, RanWhole
<1>4. scrubbed => \A x \in DOMAIN mc.latch : mc.latch[x] = {}
  BY <1>2, LeavesNothing
<1>5. /\ MachineOK(mc) /\ issued \in Seq(Isr) /\ busy \in BOOLEAN /\ scrubbed \in BOOLEAN
      /\ busy => issued # <<>>
  BY DEF MInv
<1> QED BY <1>1, <1>3, <1>4, <1>5, Zenon DEF MInv

(* The dispatcher answers it, with a machine as clean as the session knows. *)
LEMMA StartsClean ==
  ASSUME Session, FInv, MInv, Start
  PROVE  MInv'
<1>1. /\ bell /\ bell' = FALSE /\ fetch' = "run" /\ issued' = <<>> /\ mc' = Inherited(mc)
      /\ UNCHANGED <<scrubbed, rung, busy>> /\ ~ busy
  BY DEF Start, host
<1>2. Accepted(rung) /\ rung \in Seq(Isr) /\ Len(rung) \in Nat
  BY <1>1, AcceptedFacts DEF FInv, FetchOK
<1>3. Latches = {0} /\ DOMAIN mc.latch = Chan \X Latches /\ scrubbed \in BOOLEAN /\ busy \in BOOLEAN
      /\ (scrubbed => \A x \in DOMAIN mc.latch : mc.latch[x] = {})
  BY <1>1, Zenon DEF MInv, MachineOK, Session
<1> DEFINE L == [x \in DOMAIN mc.latch |-> IF mc.latch[x] = {} THEN {} ELSE {Foreign}]
<1>4. mc' = Machine(L)
  BY <1>1 DEF Inherited
<1>5. L = [x \in Chan \X Latches |-> L[x]] /\ (scrubbed => \A x \in Chan \X Latches : L[x] = {})
  <2>1. L = [x \in Chan \X Latches |-> L[x]]
    BY <1>3
  <2>2. ASSUME scrubbed, NEW x \in Chan \X Latches
        PROVE  L[x] = {}
    BY <1>3, <2>2
  <2> QED BY <2>1, <2>2
<1> HIDE DEF L
<1>6. MachineOK(mc') /\ Exact(mc', rung, 0, scrubbed)
  BY <1>2, <1>3, <1>4, <1>5, Begins
<1>7. NRetired' = 0
  <2>1. busy' = FALSE /\ Len(issued') = 0
    BY <1>1
  <2>2. NRetired' = Len(issued') - IF busy' THEN 1 ELSE 0
    BY DEF NRetired
  <2>3. NRetired' = 0 - 0
    BY <2>1, <2>2
  <2> QED BY <2>3
<1>8. Len(issued') <= Len(rung') /\ issued' = SubSeq(rung', 1, Len(issued')) /\ issued' \in Seq(Isr)
  BY <1>1, <1>2
<1>9. Exact(mc', rung', NRetired', scrubbed') /\ Accepted(rung)'
  BY <1>1, <1>2, <1>6, <1>7 DEF Accepted
<1> QED BY <1>1, <1>3, <1>6, <1>8, <1>9, Zenon DEF MInv

(* It hands over the next instruction of the program it was rung for.       *)
LEMMA HandsOver ==
  ASSUME Session, FInv, MInv, Issue
  PROVE  MInv'
<1>1. /\ fetch = "run" /\ ~ busy /\ issued' = Append(issued, imem[fpc]) /\ busy' = TRUE
      /\ fetch' = IF fpc = plen THEN "done" ELSE "run"
      /\ UNCHANGED <<scrubbed, bell, mc, rung>>
  BY DEF Issue, MayIssue, host
<1>2. /\ ~ bell /\ Accepted(rung) /\ plen = Len(rung) /\ InImem(rung, Len(rung))
      /\ fpc \in 1 .. Len(rung) /\ issued = SubSeq(rung, 1, fpc - 1)
  BY <1>1 DEF FInv, BellOK, FetchOK
<1>3. rung \in Seq(Isr) /\ Len(rung) \in Nat /\ imem[fpc] = rung[fpc]
  BY <1>2, AcceptedFacts DEF InImem
<1>4. Append(SubSeq(rung, 1, fpc - 1), rung[fpc]) = SubSeq(rung, 1, fpc)
  BY <1>2, <1>3
<1>5. issued' = SubSeq(rung, 1, fpc) /\ Len(issued) = fpc - 1
  BY <1>1, <1>2, <1>3, <1>4
<1>6. Len(issued') = fpc /\ issued' \in Seq(Isr) /\ issued' # <<>> /\ fpc <= Len(rung)
  BY <1>2, <1>3, <1>5
<1>7. fetch' # "run" => issued' = rung
  <2>1. SubSeq(rung, 1, Len(rung)) = rung
    BY <1>3
  <2> QED BY <1>1, <1>2, <1>5, <2>1
<1>8. NRetired' = NRetired
  <2>1. NRetired = fpc - 1
    BY <1>1, <1>2, <1>5 DEF NRetired
  <2>2. busy' /\ Len(issued') = fpc
    BY <1>1, <1>6
  <2>3. NRetired' = fpc - 1
    BY <2>2 DEF NRetired
  <2> QED BY <2>1, <2>3
<1>9. MachineOK(mc) /\ scrubbed \in BOOLEAN /\ Exact(mc, rung, NRetired, scrubbed)
  BY <1>2, Zenon DEF MInv
<1>10. issued' = SubSeq(rung', 1, Len(issued')) /\ Len(issued') <= Len(rung') /\ Accepted(rung)'
       /\ (fetch' # "run" => issued' = rung')
  BY <1>1, <1>2, <1>5, <1>6, <1>7 DEF Accepted
<1>11. Exact(mc', rung', NRetired', scrubbed') /\ MachineOK(mc')
  BY <1>1, <1>8, <1>9
<1>12. busy' \in BOOLEAN /\ scrubbed' \in BOOLEAN /\ ~ bell'
  BY <1>1, <1>2, <1>9
<1> QED BY <1>6, <1>10, <1>11, <1>12, Zenon DEF MInv

(* And a controller retires it.                                             *)
LEMMA RetiresNext ==
  ASSUME Session, FInv, MInv, Retired
  PROVE  MInv'
<1> DEFINE n == Len(issued)
<1>1. /\ busy /\ busy' = FALSE /\ mc' = Retire(mc, issued, n)
      /\ UNCHANGED <<scrubbed, bell, fetch, issued, rung>>
  BY DEF Retired, host
<1>2. issued \in Seq(Isr) /\ issued # <<>> /\ MachineOK(mc) /\ scrubbed \in BOOLEAN /\ Latches = {0}
  BY <1>1 DEF MInv, Session
<1>3. n \in Nat /\ n > 0 /\ n \in 1 .. n
  BY <1>2
<1>4. NRetired = n - 1 /\ NRetired' = n
  <2>1. ~ busy' /\ Len(issued') = n
    BY <1>1
  <2>2. NRetired' = n
    BY <1>3, <2>1 DEF NRetired
  <2> QED BY <1>1, <2>2 DEF NRetired
<1> HIDE DEF n
<1>5. CASE bell
  <2>1. /\ issued[n].op \notin {"MAC", "RD_MAC"}
        /\ scrubbed => \A x \in DOMAIN mc.latch : mc.latch[x] = {}
    BY <1>1, <1>5, Zenon DEF MInv, n
  <2>2. mc = [gb |-> mc.gb, skid |-> mc.skid, latch |-> mc.latch, gpr |-> mc.gpr]
    BY <1>2 DEF MachineOK
  <2>3. \/ mc' = [mc EXCEPT !.gb = [c \in Chan |-> IF c \in issued[n].ch THEN n ELSE mc.gb[c]]]
        \/ mc' = mc
    BY <1>1, <2>1 DEF Retire
  <2>4. mc'.latch = mc.latch /\ MachineOK(mc')
    <3>1. CASE mc' = mc
      BY <1>2, <3>1
    <3>2. CASE mc' = [mc EXCEPT !.gb = [c \in Chan |-> IF c \in issued[n].ch THEN n ELSE mc.gb[c]]]
      <4> DEFINE g == [c \in Chan |-> IF c \in issued[n].ch THEN n ELSE mc.gb[c]]
      <4>1. g = [c \in Chan |-> g[c]]
        OBVIOUS
      <4>2. mc' = [mc EXCEPT !.gb = g]
        BY <3>2
      <4> HIDE DEF g
      <4>3. mc' = [gb |-> g, skid |-> mc.skid, latch |-> mc.latch, gpr |-> mc.gpr]
        BY <2>2, <4>2
      <4>4. mc'.gb = g /\ mc'.skid = mc.skid /\ mc'.latch = mc.latch /\ mc'.gpr = mc.gpr
        BY <4>3
      <4> QED BY <1>2, <4>1, <4>3, <4>4 DEF MachineOK
    <3> QED BY <2>3, <3>1, <3>2
  <2>5. bell' /\ busy' \in BOOLEAN /\ ~ busy'
    BY <1>1, <1>5
  <2>6. issued' \in Seq(Isr) /\ scrubbed' \in BOOLEAN
        /\ (scrubbed' => \A x \in DOMAIN mc'.latch : mc'.latch[x] = {})
    BY <1>1, <1>2, <2>1, <2>4, Zenon
  <2> QED BY <2>4, <2>5, <2>6, Zenon DEF MInv
<1>6. CASE ~ bell
  <2>1. /\ rung = <<>> \/ Accepted(rung)
        /\ n <= Len(rung) /\ issued = SubSeq(rung, 1, n)
        /\ fetch # "run" => issued = rung
        /\ Exact(mc, rung, n - 1, scrubbed)
    BY <1>4, <1>6, Zenon DEF MInv, n
  <2>2. Accepted(rung) /\ Good(rung) /\ rung \in Seq(Isr) /\ Len(rung) \in Nat
    <3>1. rung # <<>>
      BY <1>3, <2>1
    <3> QED BY <2>1, <3>1, AcceptedIsGood, AcceptedFacts
  <2>3. n \in 1 .. Len(rung) /\ (n - 1) + 1 = n
    BY <1>3, <2>1, <2>2
  <2>4. \A c \in Chan : mc.gb[c] = Fill(rung, n)
    BY <2>1, <2>3 DEF Exact
  <2>5. mc' = Retire(mc, rung, n)
    BY <1>1, <1>2, <2>1, <2>2, <2>3, <2>4, RetireSame
  <2>6. MachineOK(mc') /\ Exact(mc', rung, n, scrubbed)
    BY <1>2, <2>1, <2>2, <2>3, <2>5, Steps
  <2>7. ~ bell' /\ busy' \in BOOLEAN /\ ~ busy' /\ issued' \in Seq(Isr) /\ scrubbed' \in BOOLEAN
    BY <1>1, <1>2, <1>6
  <2>8. /\ Accepted(rung)' /\ Len(issued') <= Len(rung') /\ issued' = SubSeq(rung', 1, Len(issued'))
        /\ fetch' # "run" => issued' = rung'
    BY <1>1, <2>1, <2>2 DEF Accepted, n
  <2>9. Exact(mc', rung', NRetired', scrubbed')
    BY <1>1, <1>4, <2>6
  <2> QED BY <2>6, <2>7, <2>8, <2>9, Zenon DEF MInv
<1> QED BY <1>5, <1>6

LEMMA ResetsClean ==
  ASSUME Session, MInv, Reset
  PROVE  MInv'
<1>1. /\ bell' = FALSE /\ busy' = FALSE /\ issued' = <<>> /\ rung' = <<>>
      /\ mc' = Machine([x \in DOMAIN mc.latch |-> {}]) /\ scrubbed' = scrubbed
  BY DEF Reset, host
<1>2. DOMAIN mc.latch = Chan \X Latches /\ scrubbed \in BOOLEAN /\ Latches = {0}
  BY DEF MInv, MachineOK, Session
<1> DEFINE L == [x \in Chan \X Latches |-> {}]
<1>3. mc' = Machine(L) /\ L = [x \in Chan \X Latches |-> L[x]] /\ \A x \in Chan \X Latches : L[x] = {}
  BY <1>1, <1>2
<1> HIDE DEF L
<1>4. <<>> \in Seq(Isr)
  OBVIOUS
<1>5. MachineOK(mc') /\ Exact(mc', <<>>, 0, scrubbed)
  BY <1>2, <1>3, <1>4, Begins
<1>6. NRetired' = 0
  <2>1. busy' = FALSE /\ Len(issued') = 0
    BY <1>1
  <2>2. NRetired' = Len(issued') - IF busy' THEN 1 ELSE 0
    BY DEF NRetired
  <2>3. NRetired' = 0 - 0
    BY <2>1, <2>2
  <2> QED BY <2>3
<1>7. Exact(mc', rung', NRetired', scrubbed')
  BY <1>1, <1>5, <1>6
<1>8. /\ issued' \in Seq(Isr) /\ rung' = <<>> /\ issued' = rung'
      /\ Len(issued') <= Len(rung') /\ issued' = SubSeq(rung', 1, Len(issued'))
  <2>1. issued' = <<>> /\ rung' = <<>>
    BY <1>1
  <2> QED BY <1>4, <2>1
<1>9. busy' \in BOOLEAN /\ ~ busy' /\ ~ bell' /\ scrubbed' \in BOOLEAN
  BY <1>1, <1>2
<1> QED BY <1>5, <1>7, <1>8, <1>9, Zenon DEF MInv

LEMMA MachineInductive == Session /\ FInv /\ MInv /\ [Next]_vars => MInv'
<1> SUFFICES ASSUME Session, FInv, MInv, [Next]_vars  PROVE MInv'
  OBVIOUS
<1>1. CASE UNCHANGED vars
  <2>1. UNCHANGED <<bell, fetch, busy, issued, mc, rung, scrubbed>>
    BY <1>1 DEF vars
  <2>2. NRetired' = NRetired
    BY <2>1 DEF NRetired
  <2> QED BY <2>1, <2>2, Zenon DEF MInv, Accepted
<1>2. CASE Next
  BY <1>2, HostLeavesMachine, RingsQuietly, StartsClean, HandsOver, RetiresNext, ResetsClean DEF Next, Board
<1> QED BY <1>1, <1>2

(* When pim_exec_run returns NULL, what the result words hold is what the   *)
(* program's own drains were meant to return: for every image, every set of *)
(* programs the builders make and the verifier lets through, and every      *)
(* history of killed, failed and refused sessions, provided a scrub has     *)
(* succeeded in this session (pim_exec.h:238-252).                          *)
THEOREM NobodyElsesSums == StaleReads <= 1 /\ Session => (Spec => []AnswersAreOwn)
<1> SUFFICES ASSUME StaleReads <= 1, Session  PROVE Spec => []AnswersAreOwn
  OBVIOUS
<1>1. Init => FInv /\ MInv
  BY FetchStarts, MachineStarts
<1>2. FInv /\ MInv /\ [Next]_vars => FInv' /\ MInv'
  BY FetchInductive, MachineInductive
<1>3. FInv /\ MInv => AnswersAreOwn
  <2> SUFFICES ASSUME FInv, MInv, pc = "ready", outcome = "ok"
               PROVE  IF rung = Scrub THEN \A x \in DOMAIN mc.latch : mc.latch[x] = {}
                      ELSE scrubbed => Answered(mc, rung)
    BY DEF AnswersAreOwn
  <2>1. Accepted(rung) /\ ~ bell /\ fetch = "done"
    BY DEF FInv, HostOK
  <2>2. Good(rung) /\ Exact(mc, rung, NRetired, scrubbed) /\ MachineOK(mc) /\ Latches = {0}
    BY <2>1, AcceptedIsGood DEF MInv, Session
  <2>3. /\ \A c \in Chan : Collected(rung, c, NRetired) = {}
        /\ NRetired \in {Len(rung) - 1, Len(rung)}
    BY <2>1, RanWhole
  <2>4. Len(rung) \in Nat /\ DOMAIN rung = 1 .. Len(rung) /\ rung[Len(rung)].op # "RD_MAC"
    BY <2>2 DEF Good
  <2>5. \A op : \A k \in At(rung, op) : k \in Nat
    BY <2>4 DEF At
  <2>6. \A r \in 1 .. Len(rung) : r # Len(rung) => r <= NRetired
    <3>1. NRetired = Len(rung) - 1 \/ NRetired = Len(rung)
      BY <2>3
    <3>2. Len(rung) \in Nat
      BY <2>4
    <3>3. \A m \in Nat : \A r \in 1 .. m : r # m => r <= m - 1 /\ r <= m
      OBVIOUS
    <3> QED BY <3>1, <3>2, <3>3, Zenon
  <2>7. \A j \in At(rung, "RD_MAC") : j <= NRetired
    BY <2>4, <2>6 DEF At
  <2>8. CASE rung = Scrub
    <3>1. \A c \in Chan : DrainedBy(rung, c, NRetired)
      <4> TAKE c \in Chan
      <4>1. DrainedBy(rung, c, Len(rung) - 1)
        BY <2>2, <2>8 DEF Good
      <4> QED BY <2>7, <4>1 DEF DrainedBy
    <3>2. \A c \in Chan : mc.latch[<<c, 0>>] = {}
      BY <2>2, <2>3, <3>1, Zenon DEF Exact
    <3>3. DOMAIN mc.latch = Chan \X {0}
      BY <2>2 DEF MachineOK
    <3>4. \A x \in Chan \X {0} : \E c \in Chan : x = <<c, 0>>
      OBVIOUS
    <3> QED BY <2>8, <3>2, <3>3, <3>4
  <2>9. CASE rung # Scrub
    <3>1. scrubbed => Answered(mc, rung)
      BY <2>2, <2>7, <2>9, Zenon DEF Exact, Answered
    <3> QED BY <2>9, <3>1
  <2> QED BY <2>8, <2>9
<1> QED BY <1>1, <1>2, <1>3, PTL DEF Spec
==============================================================================
