------------------------------ MODULE PimEngine -------------------------------
(***************************************************************************)
(* One launch after another: the host's pim_exec over MMIO and DMA, the    *)
(* dispatcher with its instruction memory and fetcher, and the channel     *)
(* controllers behind it.  Sessions follow one another (one process owns   *)
(* the board, pim_exec.h:12); a session can be killed anywhere, and what   *)
(* it rang runs on without it.                                             *)
(***************************************************************************)
EXTENDS PimIsr

CONSTANTS
  Programs,     \* what a session may ask to run
  Scrub,        \* the program pim_exec_scrub builds
  AllowT,       \* allow_t_latch of the session
  StaleReads    \* STATUS reads a doorbell may lose the race to

ASSUME EngineAssumption ==
  /\ Programs \subseteq Seq(Isr) /\ Scrub \in Seq(Isr)
  /\ AllowT \in BOOLEAN /\ StaleReads \in Nat

VARIABLES
  pc,        \* where the session is
  prog,      \* the program it is running
  nloaded,   \* words of it in IMEM
  outcome,   \* what the last call returned
  scrubbed,  \* a scrub has succeeded in this session
  imem, plen, bell, fetch, fpc,    \* the dispatcher
  stale,     \* reads that may still be answered from before the doorbell
  busy,      \* an ISR is handed over and not retired
  issued,    \* the ISRs handed over since the doorbell
  mc,        \* the channels' controllers
  rung       \* the program the doorbell was rung for

host == <<pc, prog, nloaded, outcome, scrubbed>>
board == <<imem, plen, bell, fetch, fpc, stale, busy, issued, mc, rung>>
vars == <<pc, prog, nloaded, outcome, scrubbed,
          imem, plen, bell, fetch, fpc, stale, busy, issued, mc, rung>>

Asked == Programs \cup {Scrub}
Cells == UNION {1 .. Len(p) : p \in Asked}    \* of IMEM, as many as any of them takes
Junk == [op |-> "EOS", sz |-> 0, row |-> CHOOSE w \in Word : TRUE, ch |-> Chan, t |-> 0]

(* Whatever ran before the first session may have left sums in any latch.   *)
Init ==
  /\ pc = "off" /\ prog = <<>> /\ nloaded = 0 /\ outcome = "none" /\ scrubbed = FALSE
  /\ imem = [i \in Cells |-> Junk] /\ plen = 0 /\ bell = FALSE /\ stale = 0
  /\ fetch \in {"idle", "done"} /\ fpc = 1 /\ busy = FALSE /\ issued = <<>> /\ rung = <<>>
  /\ \E dirty \in SUBSET (Chan \X Latches) :
       mc = Machine([x \in Chan \X Latches |-> IF x \in dirty THEN {Foreign} ELSE {}])

------------------------------------------------------------------------------
(* STATUS.  Until the fetcher has seen the doorbell a read returns the      *)
(* state before it; reads do not outrun it more than StaleReads times.      *)
ReadsStatus ==
  /\ bell => stale > 0
  /\ stale' = IF bell THEN stale - 1 ELSE stale
  /\ UNCHANGED <<imem, plen, bell, fetch, fpc, busy, issued, mc, rung>>

ReadsDone == ReadsStatus /\ fetch = "done"
ReadsNotDone == ReadsStatus /\ fetch # "done"

(* require_idle.  Mutant: whatever STATUS says.                             *)
FindsAnything == ReadsStatus
FindsIdle == ReadsStatus /\ fetch \in {"idle", "done"}
FindsBusy == ReadsStatus /\ fetch = "run"

Return(o) ==
  /\ pc' = "ready" /\ outcome' = o /\ prog' = <<>> /\ nloaded' = 0

(* pim_exec_open and pim_exec_close.                                        *)
Open ==
  /\ pc = "off" /\ FindsIdle
  /\ pc' = "ready" /\ outcome' = "none" /\ scrubbed' = FALSE
  /\ UNCHANGED <<prog, nloaded>>

OpenBusy == pc = "off" /\ FindsBusy /\ UNCHANGED host

Close == pc = "ready" /\ pc' = "off" /\ outcome' = "none" /\ UNCHANGED <<prog, nloaded, scrubbed, board>>

(* pim_exec_run: verify, wait for idle, ...                                 *)
Run(p) ==
  /\ pc = "ready"
  /\ IF Verify(p, AllowT)
     THEN /\ pc' = "idle1" /\ prog' = p /\ nloaded' = 0 /\ outcome' = "running"
     ELSE Return("refused")
  /\ UNCHANGED <<scrubbed, board>>

IdleToLoad == pc = "idle1" /\ FindsIdle /\ pc' = "load" /\ UNCHANGED <<prog, nloaded, outcome, scrubbed>>

(* ... load IMEM, which takes a while, ...                                  *)
LoadWord ==
  /\ pc = "load" /\ nloaded < Len(prog)
  /\ imem' = [imem EXCEPT ![nloaded + 1] = prog[nloaded + 1]]
  /\ nloaded' = nloaded + 1
  /\ UNCHANGED <<pc, prog, outcome, scrubbed, plen, bell, fetch, fpc, stale, busy, issued, mc, rung>>

(* ... in words that the DMA completes before it returns.                   *)
Loaded == nloaded = Len(prog)

LoadDone == pc = "load" /\ Loaded /\ pc' = "idle2" /\ UNCHANGED <<prog, nloaded, outcome, scrubbed, board>>

LoadFailed == pc = "load" /\ Return("error") /\ UNCHANGED <<scrubbed, board>>

IdleToRing == pc = "idle2" /\ FindsIdle /\ pc' = "ring" /\ UNCHANGED <<prog, nloaded, outcome, scrubbed>>

IdleTimeout == pc \in {"idle1", "idle2"} /\ FindsBusy /\ Return("error") /\ UNCHANGED scrubbed

(* ... PROG_LEN, read back, and then the doorbell; no program Verify lets   *)
(* through is longer than the register holds ...                            *)
SetLength ==
  /\ pc = "ring" /\ plen # Len(prog)
  /\ plen' = Len(prog)
  /\ UNCHANGED <<host, imem, bell, fetch, fpc, stale, busy, issued, mc, rung>>

LengthSet == plen = Len(prog)

Ring ==
  /\ pc = "ring" /\ LengthSet
  /\ bell' = TRUE /\ stale' = StaleReads /\ rung' = prog
  /\ pc' = "poll"
  /\ UNCHANGED <<prog, nloaded, outcome, scrubbed, imem, plen, fetch, fpc, busy, issued, mc>>

(* ... and poll until done or until time is up, then look once more.        *)
PollDone == pc = "poll" /\ ReadsDone /\ pc' = "last" /\ UNCHANGED <<prog, nloaded, outcome, scrubbed>>
PollAgain == pc = "poll" /\ ReadsNotDone /\ UNCHANGED host
PollTimeout == pc = "poll" /\ ReadsNotDone /\ pc' = "last" /\ UNCHANGED <<prog, nloaded, outcome, scrubbed>>

(* Mutant: the poll's word is taken for it.                                 *)
ConfirmsAnything == UNCHANGED board
Confirms == ReadsDone

Success ==
  /\ pc = "last" /\ Confirms
  /\ scrubbed' = (scrubbed \/ prog = Scrub)
  /\ Return("ok")

Failure == pc = "last" /\ ReadsNotDone /\ Return("error") /\ UNCHANGED scrubbed

(* The process dies; MMIO writes it posted are already on their way.        *)
Kill ==
  /\ pc # "off"
  /\ pc' = "off" /\ prog' = <<>> /\ nloaded' = 0 /\ outcome' = "none" /\ scrubbed' = FALSE
  /\ UNCHANGED board

------------------------------------------------------------------------------
(* The fetcher answers the doorbell.  The last ISR of the program before is *)
(* retired by the time the first of this one can be handed over.            *)
Start ==
  /\ bell /\ ~busy
  /\ bell' = FALSE /\ fetch' = "run" /\ fpc' = 1 /\ stale' = 0
  /\ issued' = <<>> /\ mc' = Inherited(mc)
  /\ UNCHANGED <<host, imem, plen, busy, rung>>

(* One ISR at a time; done rises as the last is handed over.                *)
MayIssue == ~busy

Issue ==
  /\ fetch = "run" /\ MayIssue
  /\ issued' = Append(issued, imem[fpc]) /\ busy' = TRUE
  /\ fpc' = fpc + 1
  /\ fetch' = IF fpc = plen THEN "done" ELSE "run"
  /\ UNCHANGED <<host, imem, plen, bell, stale, mc, rung>>

(* Mutant: EOS never retires.                                               *)
RetiredBeforeEos ==
  /\ busy /\ issued[Len(issued)].op # "EOS"
  /\ busy' = FALSE
  /\ mc' = Retire(mc, issued, Len(issued))
  /\ UNCHANGED <<host, imem, plen, bell, fetch, fpc, stale, issued, rung>>

Retired ==
  /\ busy
  /\ busy' = FALSE
  /\ mc' = Retire(mc, issued, Len(issued))
  /\ UNCHANGED <<host, imem, plen, bell, fetch, fpc, stale, issued, rung>>

(* A reset of the board, between sessions, also ends a program that hangs.  *)
Reset ==
  /\ pc = "off"
  /\ fetch' = "idle" /\ bell' = FALSE /\ stale' = 0 /\ busy' = FALSE /\ fpc' = 1 /\ plen' = 0
  /\ issued' = <<>> /\ rung' = <<>>
  /\ mc' = Machine([x \in DOMAIN mc.latch |-> {}])
  /\ UNCHANGED <<host, imem>>

Board == Start \/ Issue \/ Retired

Next ==
  \/ Open \/ OpenBusy \/ Close \/ \E p \in Asked : Run(p)
  \/ IdleToLoad \/ LoadWord \/ LoadDone \/ LoadFailed \/ IdleToRing \/ IdleTimeout
  \/ SetLength \/ Ring \/ PollDone \/ PollAgain \/ PollTimeout \/ Success \/ Failure
  \/ Kill \/ Board \/ Reset

Spec == Init /\ [][Next]_vars

------------------------------------------------------------------------------

(* From the doorbell on the dispatcher holds, and hands over, the program   *)
(* it was rung for: no later session overwrites it in IMEM, whatever was    *)
(* killed or timed out before (pim_exec.c:14-19).                           *)
FetchesTheProgram ==
  bell \/ fetch = "run" =>
    /\ plen = Len(rung) /\ \A i \in 1 .. plen : imem[i] = rung[i]
    /\ ~bell => issued = SubSeq(rung, 1, fpc - 1)

(* When pim_exec_run returns NULL in a session that has scrubbed, every     *)
(* result word holds exactly what its RD_MAC was meant to return: the       *)
(* program ran to its end, on its own vectors, with nobody else's sums      *)
(* ("there is nothing left for a caller to re-check", pim_exec.h:238-241).  *)
(* After a scrub, whoever asked for it, no latch holds anything ("Drain     *)
(* every bank's accumulator", pim_exec.h:252).                              *)
AnswersAreOwn ==
  pc = "ready" /\ outcome = "ok" =>
    IF rung = Scrub THEN \A x \in DOMAIN mc.latch : mc.latch[x] = {}
    ELSE scrubbed => Answered(mc, rung)

(* A program that has been rung is run: unless the board is reset, the      *)
(* dispatcher gets to its end, with or without a host.                      *)
Fairness == WF_vars(Board)
FairSpec == Spec /\ Fairness
RungIsRun == bell ~> (fetch = "done" /\ ~bell) \/ (fetch = "idle" /\ rung = <<>>)
==============================================================================
