------------------------------ MODULE PimLedger ------------------------------
(***************************************************************************)
(* pim.ko: one ledger of hugepages per card-memory region, one pim_file    *)
(* per open(), and the system calls that move hugepages between them.      *)
(*                                                                         *)
(* The mutexes are explicit.  A thread takes one system call at a time and *)
(* every step below is a stretch of the C code that either holds the locks *)
(* it needs or waits for the next one, so any two system calls interleave  *)
(* wherever the code lets them.  The extent loops of commit_extent and     *)
(* release_extent take one step per extent, under the locks.               *)
(***************************************************************************)
EXTENDS Integers, FiniteSets

CONSTANTS
  Fd,             \* struct pim_file instances: one per open()
  Thread,         \* threads that enter the driver, shared between the fds
  ProcReaders,    \* those of them that also read /proc/pim
  NrHugepages,    \* hugepages in each region's ledger
  SlotMod,        \* 0x8000: values the advisory slot label takes before it wraps
  AllocRequests,  \* what callers may ask PIM_IOC_ALLOC for
  FreeRequests,   \* the extent arrays callers may pass to PIM_IOC_FREE
  None            \* "no thread holds this mutex"

Region == {"dram", "gpr"}

ASSUME RegionAssumption == NrHugepages \in [Region -> Nat \ {0}]
ASSUME SlotAssumption == SlotMod \in Nat \ {0}
ASSUME ThreadAssumption == None \notin Thread \cup Fd /\ ProcReaders \subseteq Thread

Pages(m) == 0 .. NrHugepages[m] - 1

(* struct pim_extent; "at" is its place in the array it travels in, so that *)
(* two entries naming the same hugepages stay two entries.                  *)
Extent == [at : Nat, first : Nat, run : Nat \ {0}]
Hugepages(e) == e.first .. e.first + e.run - 1
Named(E) == UNION {Hugepages(e) : e \in E}
NamesEachOnce(E) == \A d, e \in E : d # e => Hugepages(d) \cap Hugepages(e) = {}

(* kcap, the extent capacity the ioctl passes on, is at most nr_hugepages.  *)
Request == {r \in [n : Nat \ {0}, cap : Nat \ {0}, contig : BOOLEAN] : r.cap <= r.n}
NoRequest == [n |-> 1, cap |-> 1, contig |-> FALSE]

ASSUME RequestAssumption ==
  /\ AllocRequests \subseteq Request
  /\ \A E \in FreeRequests : E # {} /\ E \subseteq Extent

VARIABLES
  bitmap,      \* ledger: the allocated hugepages of each region
  nr_free,     \* ledger: the free count, kept beside the bitmap
  owner,       \* ledger: per hugepage, the slot label of its owner, 0 = free
  llock,       \* ledger mutex of each region
  fstate,      \* "closed" | "open" | "closing", per pim_file
  hugepages,   \* per pim_file and region, the hugepages it holds
  nr_held,     \* per pim_file and region, the count of them
  slot,        \* per pim_file, its label in the owner table
  slot_seq,    \* pim_slot_seq, modulo SlotMod
  flock,       \* pim_file.lock
  files,       \* the pim_files list
  files_lock,  \* pim_files_lock
  pc,          \* where each thread is
  call,        \* the thread's current system call: "alloc", "free", "close", "proc"
  cfd, cmem,   \* the pim_file and region it works on
  creq,        \* ALLOC: hugepages, extent capacity, PIM_ALLOC_CONTIG
  ext,         \* extents still to commit or to release
  out,         \* ALLOC: the extents it reports
  reply,       \* errno and nr_extents of a refused call, until the caller reads it
  walk         \* /proc/pim: files still to print

ledger == <<bitmap, nr_free, owner>>
held   == <<hugepages, nr_held>>
table  == <<fstate, slot, slot_seq, files>>
locks  == <<llock, flock, files_lock>>
locals == <<pc, call, cfd, cmem, creq, ext, out, reply, walk>>
vars   == <<ledger, held, table, locks, locals>>

Pc == {"idle", "alloc_file", "alloc_led", "commit", "copyout", "free_file",
       "free_led", "release", "reply", "unlist", "reclaim_file", "reclaim",
       "free_struct", "proc_led", "proc_files", "proc_walk"}

Reply == [ret : {"none", "ok", "EINVAL", "ENOMEM", "ENOSPC", "EPERM", "EFAULT", "disagree"}, nex : Nat]
NoReply == [ret |-> "none", nex |-> 0]

Init ==
  /\ bitmap = [m \in Region |-> {}]
  /\ nr_free = NrHugepages
  /\ owner = [m \in Region |-> [p \in Pages(m) |-> 0]]
  /\ llock = [m \in Region |-> None]
  /\ fstate = [f \in Fd |-> "closed"]
  /\ hugepages = [f \in Fd |-> [m \in Region |-> {}]]
  /\ nr_held = [f \in Fd |-> [m \in Region |-> 0]]
  /\ slot = [f \in Fd |-> 0]
  /\ slot_seq = 0
  /\ flock = [f \in Fd |-> None]
  /\ files = {}
  /\ files_lock = None
  /\ pc = [t \in Thread |-> "idle"]
  /\ call = [t \in Thread |-> "none"]
  /\ cfd = [t \in Thread |-> None]
  /\ cmem = [t \in Thread |-> "dram"]
  /\ creq = [t \in Thread |-> NoRequest]
  /\ ext = [t \in Thread |-> {}]
  /\ out = [t \in Thread |-> {}]
  /\ reply = [t \in Thread |-> NoReply]
  /\ walk = [t \in Thread |-> {}]

Goto(t, label) == pc' = [pc EXCEPT ![t] = label]

(* The thread leaves the driver; its locals are reset so that equal states  *)
(* compare equal.                                                           *)
Leave(t) ==
  /\ Goto(t, "idle")
  /\ call' = [call EXCEPT ![t] = "none"]
  /\ cfd' = [cfd EXCEPT ![t] = None]
  /\ cmem' = [cmem EXCEPT ![t] = "dram"]
  /\ creq' = [creq EXCEPT ![t] = NoRequest]
  /\ ext' = [ext EXCEPT ![t] = {}]
  /\ out' = [out EXCEPT ![t] = {}]
  /\ reply' = [reply EXCEPT ![t] = NoReply]
  /\ walk' = [walk EXCEPT ![t] = {}]

Answer(t, ret, nex) ==
  /\ Goto(t, "reply")
  /\ reply' = [reply EXCEPT ![t] = [ret |-> ret, nex |-> nex]]
  /\ ext' = [ext EXCEPT ![t] = {}]

(* An ioctl or a close in flight pins its struct file, and with it f.       *)
InFlight(f) == \E t \in Thread : cfd[t] = f

------------------------------------------------------------------------------
(* open()                                                                   *)

(* Mutant: the slot label is not masked.                                    *)
OpenUnmasked(f) ==
  /\ fstate[f] = "closed" /\ files_lock = None
  /\ fstate' = [fstate EXCEPT ![f] = "open"]
  /\ slot_seq' = slot_seq + 1
  /\ slot' = [slot EXCEPT ![f] = slot_seq' + 1]
  /\ files' = files \cup {f}
  /\ UNCHANGED <<ledger, held, locks, locals>>

Open(f) ==
  /\ fstate[f] = "closed"
  /\ files_lock = None
  /\ fstate' = [fstate EXCEPT ![f] = "open"]
  /\ slot_seq' = (slot_seq + 1) % SlotMod
  /\ slot' = [slot EXCEPT ![f] = slot_seq' + 1]
  /\ files' = files \cup {f}
  /\ UNCHANGED <<ledger, held, locks, locals>>

------------------------------------------------------------------------------
(* PIM_IOC_ALLOC.  The caller's own mistakes (no hugepages, more than the   *)
(* region has, no extents) return -EINVAL before any lock, with no effect:  *)
(* the calls below are the ones that get past, with kcap as their capacity. *)

AllocCall(t, f, m, req) ==
  /\ pc[t] = "idle" /\ fstate[f] = "open"
  /\ req.n <= NrHugepages[m]
  /\ Goto(t, "alloc_file")
  /\ call' = [call EXCEPT ![t] = "alloc"]
  /\ cfd' = [cfd EXCEPT ![t] = f]
  /\ cmem' = [cmem EXCEPT ![t] = m]
  /\ creq' = [creq EXCEPT ![t] = req]
  /\ UNCHANGED <<ledger, held, table, locks, ext, out, reply, walk>>

AllocLockFile(t) ==
  /\ pc[t] = "alloc_file" /\ flock[cfd[t]] = None
  /\ flock' = [flock EXCEPT ![cfd[t]] = t]
  /\ Goto(t, "alloc_led")
  /\ UNCHANGED <<ledger, held, table, llock, files_lock, call, cfd, cmem, creq,
                 ext, out, reply, walk>>

FreePages(m) == Pages(m) \ bitmap[m]
(* Mutant: the run is checked one hugepage short.                           *)
FitsAtShort(m, i, n) == i .. i + n - 2 \subseteq FreePages(m)
FitsAt(m, i, n) == i .. i + n - 1 \subseteq FreePages(m)
Fits(m, n) == \E i \in Pages(m) : FitsAt(m, i, n)
FirstFit(m, n) == {i \in Pages(m) : /\ FitsAt(m, i, n)
                                    /\ \A j \in Pages(m) : FitsAt(m, j, n) => i <= j}

(* Stage 2 scans upwards: the n lowest free hugepages, in maximal runs.     *)
Lowest(m, n) == {S \in SUBSET FreePages(m) :
                   /\ Cardinality(S) = n
                   /\ \A p \in S, q \in FreePages(m) \ S : p < q}
Runs(S) == {e \in [at : S, first : S, run : 1 .. Cardinality(S)] :
              /\ e.at = e.first
              /\ Hugepages(e) \subseteq S
              /\ e.first - 1 \notin S /\ e.first + e.run \notin S}

NeedsMore(S, cap) == Cardinality(Runs(S)) > cap

Unlock(t) == flock' = [flock EXCEPT ![cfd[t]] = None]

AllocRefused(t, ret, nex) ==
  /\ Answer(t, ret, nex)
  /\ Unlock(t)
  /\ UNCHANGED <<llock, creq, out>>

AllocTaken(t, E) ==
  /\ Goto(t, "commit")
  /\ ext' = [ext EXCEPT ![t] = E]
  /\ out' = [out EXCEPT ![t] = E]
  /\ llock' = [llock EXCEPT ![cmem[t]] = t]
  /\ creq' = [creq EXCEPT ![t] = NoRequest]
  /\ UNCHANGED <<flock, reply>>

AllocDecide(t) ==
  LET m == cmem[t]
      n == creq[t].n
      scattered == /\ ~Fits(m, n)
                   /\ ~creq[t].contig
  IN
  /\ pc[t] = "alloc_led" /\ llock[m] = None
  /\ \/ /\ nr_free[m] < n
        /\ AllocRefused(t, "ENOMEM", 0)
     \/ /\ nr_free[m] >= n
        /\ \E i \in FirstFit(m, n) :
             AllocTaken(t, {[at |-> i, first |-> i, run |-> n]})
     \/ /\ nr_free[m] >= n
        /\ ~Fits(m, n) /\ creq[t].contig
        /\ AllocRefused(t, "ENOSPC", 0)
     \/ /\ nr_free[m] >= n /\ scattered
        /\ Cardinality(FreePages(m)) < n
        /\ AllocRefused(t, "disagree", Cardinality(Runs(FreePages(m))))
     \/ /\ nr_free[m] >= n /\ scattered
        /\ \E S \in Lowest(m, n) :
             IF NeedsMore(S, creq[t].cap)
             THEN AllocRefused(t, "ENOSPC", Cardinality(Runs(S)))
             ELSE AllocTaken(t, Runs(S))
  /\ UNCHANGED <<ledger, held, table, files_lock, call, cfd, cmem, walk>>

CommitExtent(t, e) ==
  LET f == cfd[t]
      m == cmem[t]
  IN
  /\ bitmap' = [bitmap EXCEPT ![m] = @ \cup Hugepages(e)]
  /\ hugepages' = [hugepages EXCEPT ![f][m] = @ \cup Hugepages(e)]
  /\ owner' = [owner EXCEPT ![m] = [p \in Pages(m) |->
                 IF p \in Hugepages(e) THEN slot[f] ELSE @[p]]]
  /\ nr_free' = [nr_free EXCEPT ![m] = @ - e.run]
  /\ nr_held' = [nr_held EXCEPT ![f][m] = @ + e.run]

Commit(t) ==
  /\ pc[t] = "commit"
  /\ \E e \in ext[t] :
       /\ \A d \in ext[t] : e.at <= d.at
       /\ CommitExtent(t, e)
       /\ ext' = [ext EXCEPT ![t] = @ \ {e}]
       /\ IF ext[t] = {e}
          THEN /\ Goto(t, "copyout")
               /\ llock' = [llock EXCEPT ![cmem[t]] = None]
               /\ Unlock(t)
          ELSE UNCHANGED <<pc, llock, flock>>
  /\ UNCHANGED <<table, files_lock, call, cfd, cmem, creq, out, reply, walk>>

(* copy_to_user succeeds and the caller learns its extents ...              *)
CopyOut(t) ==
  /\ pc[t] = "copyout"
  /\ Leave(t)
  /\ UNCHANGED <<ledger, held, table, locks>>

(* Mutant: the fault is reported, the hugepages stay committed.             *)
CopyFaultKeep(t) ==
  /\ pc[t] = "copyout"
  /\ Answer(t, "EFAULT", 0)
  /\ UNCHANGED <<ledger, held, table, locks, call, cfd, cmem, creq, out, walk>>

(* ... or faults, and the call takes its extents back the way FREE does.    *)
CopyFault(t) ==
  /\ pc[t] = "copyout"
  /\ Goto(t, "free_file")
  /\ ext' = [ext EXCEPT ![t] = out[t]]
  /\ UNCHANGED <<ledger, held, table, locks, call, cfd, cmem, creq, out, reply, walk>>

------------------------------------------------------------------------------
(* PIM_IOC_FREE, and the rollback of an ALLOC whose reply faulted           *)

FreeCall(t, f, m, E) ==
  /\ pc[t] = "idle" /\ fstate[f] = "open"
  /\ Goto(t, "free_file")
  /\ call' = [call EXCEPT ![t] = "free"]
  /\ cfd' = [cfd EXCEPT ![t] = f]
  /\ cmem' = [cmem EXCEPT ![t] = m]
  /\ ext' = [ext EXCEPT ![t] = E]
  /\ UNCHANGED <<ledger, held, table, locks, creq, out, reply, walk>>

FreeLockFile(t) ==
  /\ pc[t] = "free_file" /\ flock[cfd[t]] = None
  /\ flock' = [flock EXCEPT ![cfd[t]] = t]
  /\ Goto(t, "free_led")
  /\ UNCHANGED <<ledger, held, table, llock, files_lock, call, cfd, cmem, creq,
                 ext, out, reply, walk>>

(* Every extent is validated before any is released; the first bad one      *)
(* names the error.                                                         *)
FreeError(E, f, m) ==
  LET bad == {e \in E : ~(Hugepages(e) \subseteq hugepages[f][m])}
      first == CHOOSE e \in bad : \A d \in bad : e.at <= d.at
  IN  IF Hugepages(first) \subseteq Pages(m) THEN "EPERM" ELSE "EINVAL"

(* Mutant: validated against the ledger's bitmap, not this fd's.            *)
MayFreeAnyones(E, f, m) == Named(E) \subseteq bitmap[m]
MayFree(E, f, m) == Named(E) \subseteq hugepages[f][m]

FreeValidate(t) ==
  LET f == cfd[t]
      m == cmem[t]
  IN
  /\ pc[t] = "free_led" /\ llock[m] = None
  /\ IF MayFree(ext[t], f, m)
     THEN /\ Goto(t, "release")
          /\ llock' = [llock EXCEPT ![m] = t]
          /\ UNCHANGED <<flock, ext, reply>>
     ELSE /\ Answer(t, IF call[t] = "alloc" THEN "EFAULT" ELSE FreeError(ext[t], f, m), 0)
          /\ Unlock(t)
          /\ UNCHANGED llock
  /\ UNCHANGED <<ledger, held, table, files_lock, call, cfd, cmem, creq, out, walk>>

(* Mutant: nr_free is not raised.                                           *)
ReleaseExtentNoCount(t, e) ==
  /\ bitmap' = [bitmap EXCEPT ![cmem[t]] = @ \ Hugepages(e)]
  /\ hugepages' = [hugepages EXCEPT ![cfd[t]][cmem[t]] = @ \ Hugepages(e)]
  /\ nr_held' = [nr_held EXCEPT ![cfd[t]][cmem[t]] = @ - e.run]
  /\ UNCHANGED <<owner, nr_free>>

ReleaseExtent(t, e) ==
  LET f == cfd[t]
      m == cmem[t]
  IN
  /\ bitmap' = [bitmap EXCEPT ![m] = @ \ Hugepages(e)]
  /\ hugepages' = [hugepages EXCEPT ![f][m] = @ \ Hugepages(e)]
  /\ owner' = [owner EXCEPT ![m] = [p \in Pages(m) |->
                 IF p \in Hugepages(e) THEN 0 ELSE @[p]]]
  /\ nr_free' = [nr_free EXCEPT ![m] = @ + e.run]
  /\ nr_held' = [nr_held EXCEPT ![f][m] = @ - e.run]

Release(t) ==
  /\ pc[t] = "release"
  /\ \E e \in ext[t] :
       /\ \A d \in ext[t] : e.at <= d.at
       /\ ReleaseExtent(t, e)
       /\ ext' = [ext EXCEPT ![t] = @ \ {e}]
       /\ IF ext[t] = {e}
          THEN /\ Goto(t, "reply")
               /\ reply' = [reply EXCEPT ![t] =
                    [ret |-> IF call[t] = "alloc" THEN "EFAULT" ELSE "ok", nex |-> 0]]
               /\ llock' = [llock EXCEPT ![cmem[t]] = None]
               /\ Unlock(t)
          ELSE UNCHANGED <<pc, reply, llock, flock>>
  /\ UNCHANGED <<table, files_lock, call, cfd, cmem, creq, out, walk>>

Return(t) ==
  /\ pc[t] = "reply"
  /\ Leave(t)
  /\ UNCHANGED <<ledger, held, table, locks>>

------------------------------------------------------------------------------
(* release(): the last reference to f is dropped by close, exit or kill -9  *)

CloseCall(t, f) ==
  /\ pc[t] = "idle" /\ fstate[f] = "open" /\ ~InFlight(f)
  /\ fstate' = [fstate EXCEPT ![f] = "closing"]
  /\ Goto(t, "unlist")
  /\ call' = [call EXCEPT ![t] = "close"]
  /\ cfd' = [cfd EXCEPT ![t] = f]
  /\ UNCHANGED <<ledger, held, slot, slot_seq, files, locks, cmem, creq, ext, out, reply, walk>>

(* Mutant: the list is edited without pim_files_lock.                       *)
CloseUnlistUnlocked(t) ==
  /\ pc[t] = "unlist"
  /\ files' = files \ {cfd[t]}
  /\ Goto(t, "reclaim_file")
  /\ UNCHANGED <<ledger, held, fstate, slot, slot_seq, locks, call, cfd, cmem, creq,
                 ext, out, reply, walk>>

CloseUnlist(t) ==
  /\ pc[t] = "unlist" /\ files_lock = None
  /\ files' = files \ {cfd[t]}
  /\ Goto(t, "reclaim_file")
  /\ UNCHANGED <<ledger, held, fstate, slot, slot_seq, locks, call, cfd, cmem, creq,
                 ext, out, reply, walk>>

ReclaimLockFile(t) ==
  /\ pc[t] = "reclaim_file" /\ flock[cfd[t]] = None
  /\ flock' = [flock EXCEPT ![cfd[t]] = t]
  /\ Goto(t, "reclaim")
  /\ UNCHANGED <<ledger, held, table, llock, files_lock, call, cfd, cmem, creq,
                 ext, out, reply, walk>>

NextRegion(m) == m = "dram"

(* Mutant: the owner table keeps the label of the closed file.              *)
RelabelStale(p, m, f) == owner[m][p]
RelabelFree(p, m, f) == IF p \in hugepages[f][m] THEN 0 ELSE owner[m][p]

(* One region at a time: f->lock stays held, the ledger locks do not.       *)
Reclaim(t) ==
  LET f == cfd[t]
      m == cmem[t]
  IN
  /\ pc[t] = "reclaim" /\ llock[m] = None
  /\ bitmap' = [bitmap EXCEPT ![m] = @ \ hugepages[f][m]]
  /\ owner' = [owner EXCEPT ![m] = [p \in Pages(m) |->
                 RelabelFree(p, m, f)]]
  /\ nr_free' = [nr_free EXCEPT ![m] = @ + Cardinality(hugepages[f][m])]
  /\ nr_held' = [nr_held EXCEPT ![f][m] = @ - Cardinality(hugepages[f][m])]
  /\ hugepages' = [hugepages EXCEPT ![f][m] = {}]
  /\ IF NextRegion(m)
     THEN /\ cmem' = [cmem EXCEPT ![t] = "gpr"]
          /\ UNCHANGED <<pc, flock>>
     ELSE /\ Goto(t, "free_struct")
          /\ Unlock(t)
          /\ UNCHANGED cmem
  /\ UNCHANGED <<table, llock, files_lock, call, cfd, creq, ext, out, reply, walk>>

(* kfree: whatever nr_held says is forgotten, and the next open starts at 0 *)
FreeStruct(t) ==
  /\ pc[t] = "free_struct"
  /\ fstate' = [fstate EXCEPT ![cfd[t]] = "closed"]
  /\ slot' = [slot EXCEPT ![cfd[t]] = 0]
  /\ nr_held' = [nr_held EXCEPT ![cfd[t]] = [m \in Region |-> 0]]
  /\ Leave(t)
  /\ UNCHANGED <<ledger, hugepages, slot_seq, files, locks>>

------------------------------------------------------------------------------
(* /proc/pim                                                                *)

ProcCall(t) ==
  /\ pc[t] = "idle"
  /\ Goto(t, "proc_led")
  /\ call' = [call EXCEPT ![t] = "proc"]
  /\ UNCHANGED <<ledger, held, table, locks, cfd, cmem, creq, ext, out, reply, walk>>

(* Mutant: the last ledger's lock is still held when the files are walked.  *)
ProcReadLedgerHold(t) ==
  /\ pc[t] = "proc_led" /\ llock[cmem[t]] = None
  /\ llock' = [llock EXCEPT ![cmem[t]] = IF cmem[t] = "gpr" THEN t ELSE @]
  /\ cmem' = [cmem EXCEPT ![t] = "gpr"]
  /\ pc' = [pc EXCEPT ![t] = IF cmem[t] = "gpr" THEN "proc_files" ELSE @]
  /\ UNCHANGED <<ledger, held, table, flock, files_lock, call, cfd, creq, ext, out, reply, walk>>

ProcReadLedger(t) ==
  /\ pc[t] = "proc_led" /\ llock[cmem[t]] = None
  /\ IF cmem[t] = "dram"
     THEN /\ cmem' = [cmem EXCEPT ![t] = "gpr"]
          /\ UNCHANGED pc
     ELSE /\ Goto(t, "proc_files")
          /\ UNCHANGED cmem
  /\ UNCHANGED <<ledger, held, table, locks, call, cfd, creq, ext, out, reply, walk>>

ProcLockFiles(t) ==
  /\ pc[t] = "proc_files" /\ files_lock = None
  /\ files_lock' = t
  /\ walk' = [walk EXCEPT ![t] = files]
  /\ Goto(t, "proc_walk")
  /\ UNCHANGED <<ledger, held, table, llock, flock, call, cfd, cmem, creq, ext, out, reply>>

(* f->lock is taken and dropped around each line that is printed.  Mutant:  *)
(* after each line the walk begins again.                                   *)
ProcVisitAgain(t, f) ==
  /\ pc[t] = "proc_walk" /\ f \in walk[t] /\ flock[f] = None
  /\ walk' = [walk EXCEPT ![t] = files]
  /\ UNCHANGED <<ledger, held, table, locks, pc, call, cfd, cmem, creq, ext, out, reply>>
ProcVisit(t, f) ==
  /\ pc[t] = "proc_walk" /\ f \in walk[t] /\ flock[f] = None
  /\ walk' = [walk EXCEPT ![t] = @ \ {f}]
  /\ UNCHANGED <<ledger, held, table, locks, pc, call, cfd, cmem, creq, ext, out, reply>>

ProcDone(t) ==
  /\ pc[t] = "proc_walk" /\ walk[t] = {}
  /\ files_lock' = None
  /\ Leave(t)
  /\ UNCHANGED <<ledger, held, table, llock, flock>>

------------------------------------------------------------------------------
(* The steps a thread takes once it is inside the driver ...                *)
Step(t) ==
  \/ AllocLockFile(t) \/ AllocDecide(t) \/ Commit(t) \/ CopyOut(t) \/ CopyFault(t)
  \/ FreeLockFile(t) \/ FreeValidate(t) \/ Release(t) \/ Return(t)
  \/ CloseUnlist(t) \/ ReclaimLockFile(t) \/ Reclaim(t) \/ FreeStruct(t)
  \/ ProcReadLedger(t) \/ ProcLockFiles(t) \/ (\E f \in Fd : ProcVisit(t, f)) \/ ProcDone(t)

(* ... and the ways in.                                                     *)
Enter(t) ==
  \/ \E f \in Fd, m \in Region, req \in AllocRequests : AllocCall(t, f, m, req)
  \/ \E f \in Fd : CloseCall(t, f)
  \/ t \in ProcReaders /\ ProcCall(t)

FreeCalls(t, Ok(_)) ==
  \E f \in Fd, m \in Region, E \in FreeRequests : Ok(E) /\ FreeCall(t, f, m, E)

Next ==
  \/ \E f \in Fd : Open(f)
  \/ \E t \in Thread : Enter(t) \/ FreeCalls(t, NamesEachOnce) \/ Step(t)

Spec == Init /\ [][Next]_vars

(* mutex_lock hands a contended mutex to its longest waiter, so a thread    *)
(* that waits for one gets it (SF); everything else only has to be          *)
(* scheduled, which SF implies.                                             *)
Fairness == \A t \in Thread : SF_vars(Step(t))
FairSpec == Spec /\ Fairness

(* The same driver under callers that may name a hugepage twice in one FREE *)
AnyCallerSpec == Init /\ [][Next \/ \E t \in Thread : FreeCalls(t, LAMBDA E : TRUE)]_vars

------------------------------------------------------------------------------
(* Every variable holds a value of its C type.  The two counters are left   *)
(* unbounded here: that they never wrap is part of CountersExact.           *)
TypeOK ==
  /\ bitmap \in [Region -> SUBSET Nat] /\ \A m \in Region : bitmap[m] \subseteq Pages(m)
  /\ nr_free \in [Region -> Int]
  /\ owner = [m \in Region |-> [p \in Pages(m) |-> owner[m][p]]]
  /\ \A m \in Region : \A p \in Pages(m) : owner[m][p] \in 0 .. SlotMod
  /\ llock \in [Region -> Thread \cup {None}]
  /\ fstate \in [Fd -> {"closed", "open", "closing"}]
  /\ hugepages \in [Fd -> [Region -> SUBSET Nat]]
  /\ nr_held \in [Fd -> [Region -> Int]]
  /\ slot \in [Fd -> 0 .. SlotMod] /\ slot_seq \in 0 .. SlotMod - 1
  /\ flock \in [Fd -> Thread \cup {None}]
  /\ files \subseteq Fd /\ files_lock \in Thread \cup {None}
  /\ pc \in [Thread -> Pc]
  /\ call \in [Thread -> {"none", "alloc", "free", "close", "proc"}]
  /\ cfd \in [Thread -> Fd \cup {None}] /\ cmem \in [Thread -> Region]
  /\ creq \in [Thread -> Request] /\ reply \in [Thread -> Reply]
  /\ ext \in [Thread -> SUBSET Extent] /\ out \in [Thread -> SUBSET Extent]
  /\ walk \in [Thread -> SUBSET Fd]

(* A hugepage belongs to at most one fd, and the ledger's bitmap marks      *)
(* exactly the hugepages some fd holds: commit_extent and release_extent    *)
(* keep two bitmaps in step (pim_chunk.c:38-64), across fds whose calls     *)
(* interleave and files that are closed under them.                         *)
Exclusive ==
  /\ \A m \in Region : bitmap[m] = UNION {hugepages[f][m] : f \in Fd}
  /\ \A m \in Region, f, g \in Fd : f # g => hugepages[f][m] \cap hugepages[g][m] = {}

(* nr_free and nr_held count what the bitmaps mark, so the -ENOMEM test of  *)
(* pim_chunk.c:96 and the GET_INFO answer are exact under the lock.         *)
CountersExact ==
  /\ \A m \in Region : nr_free[m] = NrHugepages[m] - Cardinality(bitmap[m])
  /\ \A f \in Fd, m \in Region : nr_held[f][m] = Cardinality(hugepages[f][m])

(* The owner table labels a hugepage with its owner's slot, 0 when free,    *)
(* across reopened fds and wrapped labels (pim_file.c:66, pim_chunk.c:45).  *)
OwnerLabels ==
  \A m \in Region : \A p \in Pages(m) :
    /\ p \notin bitmap[m] => owner[m][p] = 0
    /\ \A f \in Fd : p \in hugepages[f][m] => owner[m][p] = slot[f] /\ slot[f] # 0

(* "nr_free said there was room, so this can only fire if the ledger and    *)
(* the counter disagree" (pim_chunk.c:145): it never fires.                 *)
NeverDisagrees == \A t \in Thread : reply[t].ret # "disagree"

(* A closed file holds nothing in either region: release() makes the leak   *)
(* impossible (pim_chunk.c:224-229), before the struct is freed.            *)
ClosedHoldsNothing ==
  \A f \in Fd, m \in Region : fstate[f] = "closed" => hugepages[f][m] = {}

(* /proc/pim only visits structs that are still allocated: release() cannot *)
(* free a file the walk has listed (pim_main.c:251-267, pim_file.c:84).     *)
ProcSeesLiveFiles ==
  \A t \in Thread : \A f \in walk[t] : fstate[f] # "closed"

(* The mutexes, and who waits for whom.                                     *)
WaitsFor(t) ==
  {u \in Thread :
     \/ pc[t] \in {"alloc_file", "free_file", "reclaim_file"} /\ flock[cfd[t]] = u
     \/ pc[t] \in {"alloc_led", "free_led", "reclaim", "proc_led"} /\ llock[cmem[t]] = u
     \/ pc[t] \in {"unlist", "proc_files"} /\ files_lock = u
     \/ pc[t] = "proc_walk" /\ \E f \in walk[t] : flock[f] = u}

(* No set of threads waits for itself: f->lock before a ledger lock, and    *)
(* /proc takes no ledger lock under pim_files_lock (pim_main.c:248-250).    *)
NoLockCycle ==
  \A S \in SUBSET Thread : S # {} => \E t \in S : WaitsFor(t) \cap S = {}

(* An -ENOSPC that scanned tells the caller a capacity that suffices and    *)
(* that it did not offer (pim_ioctl.h:143-145).                             *)
EnospcTellsCapacity ==
  \A t \in Thread :
    reply[t].ret = "ENOSPC" /\ ~creq[t].contig =>
      creq[t].cap < reply[t].nex /\ reply[t].nex <= creq[t].n

(* Ownership as a caller may see it: an ALLOC takes its hugepages when it   *)
(* is decided and a FREE returns them when it is validated, all at once.    *)
Pending(label, f, m) ==
  UNION {Named(ext[t]) : t \in {u \in Thread : pc[u] = label /\ cfd[u] = f /\ cmem[u] = m}}
Owned(f, m) == (hugepages[f][m] \cup Pending("commit", f, m)) \ Pending("release", f, m)

Ownership == INSTANCE PimOwnership WITH
  own <- [f \in Fd |-> [m \in Region |-> Owned(f, m)]],
  alive <- {f \in Fd : fstate[f] # "closed"}

(* The driver implements indivisible allocation, free and reclaim of whole  *)
(* requests: all of it or none of it, and never a hugepage two fds own.     *)
Indivisible == Ownership!Spec

(* Every system call returns: ioctls, close and /proc reads always finish.  *)
EveryCallReturns == \A t \in Thread : pc[t] # "idle" ~> pc[t] = "idle"

==============================================================================
