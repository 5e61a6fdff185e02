--------------------------- MODULE PimLedgerProofs ----------------------------
(***************************************************************************)
(* Proofs about PimLedger, for any number of fds and threads, any regions' *)
(* sizes, and any requests that name a hugepage at most once: what the     *)
(* driver never does, that it implements PimOwnership, and (PimCallers)    *)
(* that what its callers know they hold is what it wrote down for them.    *)
(***************************************************************************)
EXTENDS PimCallers, FiniteSetTheorems, TLAPS

(* The mutexes are held exactly over the code between lock and unlock.      *)
HoldsFile == {"alloc_led", "commit", "free_led", "release", "reclaim"}
HoldsLedger == {"commit", "release"}

Locked ==
  /\ \A f \in Fd, t \in Thread : flock[f] = t <=> cfd[t] = f /\ pc[t] \in HoldsFile
  /\ \A m \in Region, t \in Thread : llock[m] = t <=> cmem[t] = m /\ pc[t] \in HoldsLedger

(* A thread inside an ioctl pins an open file; a closing file has one thread *)
InIoctl == {"alloc_file", "alloc_led", "commit", "copyout", "free_file", "free_led",
            "release", "reply"}
InClose == {"unlist", "reclaim_file", "reclaim", "free_struct"}

Pinned ==
  \A t \in Thread :
    /\ pc[t] \in InIoctl \cup InClose <=> cfd[t] # None
    /\ pc[t] \in InIoctl => fstate[cfd[t]] = "open"
    /\ pc[t] \in InClose => /\ fstate[cfd[t]] = "closing"
                            /\ \A u \in Thread : u # t => cfd[u] # cfd[t]

(* What is left to commit is free and what is left to release is held, and  *)
(* no hugepage is named twice: the checks of the first pass still hold when *)
(* the second pass gets there, because the locks were not dropped.          *)
Checked ==
  \A t \in Thread :
    /\ pc[t] = "commit" => Named(ext[t]) \subseteq FreePages(cmem[t])
    /\ pc[t] = "release" => Named(ext[t]) \subseteq hugepages[cfd[t]][cmem[t]]
    /\ NamesEachOnce(ext[t]) /\ NamesEachOnce(out[t])

(* A file's hugepages are gone region by region before its struct is.        *)
Emptied ==
  /\ ClosedHoldsNothing
  /\ \A t \in Thread :
       /\ pc[t] \in {"idle", "unlist", "reclaim_file"} => cmem[t] = "dram"
       /\ pc[t] = "reclaim" /\ cmem[t] = "gpr" => hugepages[cfd[t]]["dram"] = {}
       /\ pc[t] = "free_struct" => \A m \in Region : hugepages[cfd[t]][m] = {}

(* 0 labels nobody: every live file has another label.                      *)
Labels == OwnerLabels /\ \A f \in Fd : fstate[f] # "closed" => slot[f] # 0

(* The list holds live files, and a walk sees it frozen.                    *)
PastUnlist == {"reclaim_file", "reclaim", "free_struct"}
Listed ==
  /\ \A f \in files : fstate[f] # "closed"
  /\ \A t \in Thread : pc[t] \in PastUnlist => cfd[t] \notin files
  /\ \A t \in Thread : files_lock = t <=> pc[t] = "proc_walk"
  /\ \A t \in Thread : walk[t] # {} => walk[t] \subseteq files /\ pc[t] = "proc_walk"

(* A reply is there to be read only where the call returns.                 *)
Answers ==
  /\ NeverDisagrees /\ EnospcTellsCapacity
  /\ \A t \in Thread : pc[t] # "reply" => reply[t].ret = "none"

IInv ==
  /\ TypeOK /\ Locked /\ Pinned /\ Checked
  /\ Exclusive /\ CountersExact /\ Emptied /\ Labels /\ Listed /\ Answers

(* A run of hugepages has as many elements as its count says.               *)
LEMMA RunSize ==
  ASSUME NEW e \in Extent
  PROVE  IsFiniteSet(Hugepages(e)) /\ Cardinality(Hugepages(e)) = e.run
<1> DEFINE last == e.first + e.run - 1
<1>1. e.first \in Int /\ last \in Int /\ e.run \in Nat /\ ~(e.first > last)
      /\ last - e.first + 1 = e.run
  BY DEF Extent
<1> HIDE DEF last
<1>2. IsFiniteSet(e.first .. last) /\ Cardinality(e.first .. last) = last - e.first + 1
  BY <1>1, FS_Interval
<1>3. Hugepages(e) = e.first .. last
  BY DEF Hugepages, last
<1>4. QED
  BY <1>1, <1>2, <1>3

(* The pages of a region are finite, and so is any part of them.            *)
LEMMA PagesFinite ==
  ASSUME NEW m \in Region, NEW S, S \subseteq Pages(m)
  PROVE  /\ IsFiniteSet(S) /\ Cardinality(S) \in 0 .. NrHugepages[m]
         /\ Cardinality(Pages(m)) = NrHugepages[m]
<1> DEFINE last == NrHugepages[m] - 1
<1>1. last \in Int /\ ~(0 > last) /\ last - 0 + 1 = NrHugepages[m] /\ NrHugepages[m] \in Nat
  BY RegionAssumption
<1> HIDE DEF last
<1>2. IsFiniteSet(0 .. last) /\ Cardinality(0 .. last) = NrHugepages[m]
  <2>1. 0 \in Int /\ last \in Int
    BY <1>1
  <2>2. /\ IsFiniteSet(0 .. last)
        /\ Cardinality(0 .. last) = IF 0 > last THEN 0 ELSE last - 0 + 1
    BY <2>1, FS_Interval
  <2>3. QED
    BY <1>1, <2>2
<1>3. Pages(m) = 0 .. last
  BY DEF Pages, last
<1>4. IsFiniteSet(Pages(m)) /\ Cardinality(Pages(m)) = NrHugepages[m]
  BY <1>2, <1>3
<1>5. IsFiniteSet(S) /\ Cardinality(S) <= Cardinality(Pages(m))
  BY <1>4, FS_Subset
<1>6. Cardinality(S) \in Nat
  BY <1>5, FS_CardinalityType
<1>7. QED
  BY <1>1, <1>4, <1>5, <1>6

(* Committing a run of free hugepages, or releasing a run of held ones,     *)
(* moves the count by exactly the length of the run.                        *)
LEMMA AddRun ==
  ASSUME NEW S, IsFiniteSet(S), NEW e \in Extent, Hugepages(e) \cap S = {}
  PROVE  Cardinality(S \cup Hugepages(e)) = Cardinality(S) + e.run
<1>1. Cardinality(S \cap Hugepages(e)) = 0
  BY FS_EmptySet
<1>2. Cardinality(S) \in Nat /\ e.run \in Nat
  BY FS_CardinalityType DEF Extent
<1>3. QED
  BY <1>1, <1>2, RunSize, FS_Union

(* Taking an extent of a finite set out of it leaves that many fewer.       *)
LEMMA RemoveRun ==
  ASSUME NEW S, IsFiniteSet(S), NEW e \in Extent, Hugepages(e) \subseteq S
  PROVE  Cardinality(S \ Hugepages(e)) = Cardinality(S) - e.run
<1>1. S \cap Hugepages(e) = Hugepages(e)
  OBVIOUS
<1>2. Cardinality(S \ Hugepages(e)) = Cardinality(S) - Cardinality(S \cap Hugepages(e))
  BY FS_Difference
<1>3. QED
  BY <1>1, <1>2, RunSize

------------------------------------------------------------------------------
(* The ledger starts in the invariant.                                      *)
LEMMA InitIInv == Init => IInv
<1> SUFFICES ASSUME Init PROVE IInv
  OBVIOUS
<1> USE RegionAssumption, SlotAssumption, ThreadAssumption
<1>1. TypeOK
  BY DEF Init, TypeOK, Pc, Request, Reply, NoRequest, NoReply, Region, Pages
<1>2. Locked /\ Pinned
  BY DEF Init, Locked, Pinned, HoldsFile, HoldsLedger, InIoctl, InClose
<1>3. Checked
  BY DEF Init, Checked, NamesEachOnce
<1>4. Exclusive /\ Emptied
  BY DEF Init, Exclusive, Emptied, ClosedHoldsNothing, Region
<1>5. CountersExact
  BY FS_EmptySet DEF Init, CountersExact, Region
<1>6. Labels /\ Listed
  BY DEF Init, Labels, OwnerLabels, Listed, PastUnlist
<1>7. Answers
  BY DEF Init, Answers, NeverDisagrees, EnospcTellsCapacity, NoReply
<1>8. QED
  BY <1>1, <1>2, <1>3, <1>4, <1>5, <1>6, <1>7 DEF IInv

------------------------------------------------------------------------------
(* Maximal runs are extents of the set they cover, no two of them overlap,  *)
(* and there are finitely many: a run is known by its first hugepage.       *)
LEMMA RunsSound ==
  ASSUME NEW S, S \subseteq Nat, IsFiniteSet(S)
  PROVE  /\ Runs(S) \subseteq Extent
         /\ Named(Runs(S)) \subseteq S
         /\ NamesEachOnce(Runs(S))
         /\ Cardinality(Runs(S)) \in Nat /\ Cardinality(Runs(S)) <= Cardinality(S)
<1>1. Cardinality(S) \in Nat
  BY FS_CardinalityType
<1>2. ASSUME NEW e \in Runs(S)
      PROVE  /\ e \in Extent /\ e.at = e.first /\ Hugepages(e) \subseteq S
             /\ e.first \in S /\ e.first - 1 \notin S /\ e.first + e.run \notin S
             /\ e = [at |-> e.first, first |-> e.first, run |-> e.run]
  <2>1. 1 .. Cardinality(S) \subseteq Nat \ {0}
    BY <1>1
  <2>2. /\ e \in [at : S, first : S, run : 1 .. Cardinality(S)]
        /\ e.at = e.first /\ Hugepages(e) \subseteq S
        /\ e.first - 1 \notin S /\ e.first + e.run \notin S
    BY DEF Runs
  <2>3. e = [at |-> e.at, first |-> e.first, run |-> e.run] /\ e.at \in S /\ e.first \in S
        /\ e.run \in Nat \ {0}
    BY <2>1, <2>2
  <2>4. QED
    BY <2>2, <2>3 DEF Extent
<1>3. ASSUME NEW d \in Runs(S), NEW e \in Runs(S), NEW p \in Hugepages(d) \cap Hugepages(e)
      PROVE  d = e
  <2>1. d.first = e.first
    <3>1. ~(d.first < e.first)
      <4>1. d.first < e.first => e.first - 1 \in Hugepages(d)
        BY <1>2, <1>3 DEF Hugepages, Extent
      <4>2. QED
        BY <4>1, <1>2
    <3>2. ~(e.first < d.first)
      <4>1. e.first < d.first => d.first - 1 \in Hugepages(e)
        BY <1>2, <1>3 DEF Hugepages, Extent
      <4>2. QED
        BY <4>1, <1>2
    <3>3. QED
      BY <3>1, <3>2, <1>2 DEF Extent
  <2>2. d.run = e.run
    <3>1. ~(d.run < e.run)
      <4>1. d.run < e.run => d.first + d.run \in Hugepages(e)
        BY <1>2, <2>1 DEF Hugepages, Extent
      <4>2. QED
        BY <4>1, <1>2
    <3>2. ~(e.run < d.run)
      <4>1. e.run < d.run => e.first + e.run \in Hugepages(d)
        BY <1>2, <2>1 DEF Hugepages, Extent
      <4>2. QED
        BY <4>1, <1>2
    <3>3. QED
      BY <3>1, <3>2, <1>2 DEF Extent
  <2>3. QED
    BY <2>1, <2>2, <1>2
<1>4. ASSUME NEW d \in Runs(S), NEW e \in Runs(S), d.first = e.first
      PROVE  d = e
  <2>1. d.first \in Hugepages(d) /\ e.first \in Hugepages(e)
    BY <1>2 DEF Hugepages, Extent
  <2>2. QED
    BY <1>3, <1>4, <2>1
<1>5. Cardinality(Runs(S)) \in Nat /\ Cardinality(Runs(S)) <= Cardinality(S)
  <2> DEFINE f == [e \in Runs(S) |-> e.first]
  <2>1. f \in [Runs(S) -> S]
    BY <1>2
  <2>2. \A d, e \in Runs(S) : f[d] = f[e] => d = e
    BY <1>4
  <2> HIDE DEF f
  <2>3. f \in Injection(Runs(S), S)
    BY <2>1, <2>2 DEF Injection, IsInjective
  <2>4. QED
    BY <2>3, FS_Injection, FS_CardinalityType
<1>6. QED
  BY <1>2, <1>3, <1>5 DEF Named, NamesEachOnce

(* However AllocDecide goes, it refuses with an error or stages extents     *)
(* that are free and name no hugepage twice.                                *)
LEMMA AllocOutcome ==
  ASSUME TypeOK, NEW t \in Thread, AllocDecide(t)
  PROVE  \/ \E ret \in {"ENOMEM", "ENOSPC", "disagree"}, nex \in Nat : AllocRefused(t, ret, nex)
         \/ \E E \in SUBSET Extent : /\ AllocTaken(t, E)
                                     /\ Named(E) \subseteq FreePages(cmem[t])
                                     /\ NamesEachOnce(E)
<1> DEFINE m == cmem[t]
           n == creq[t].n
<1>1. m \in Region /\ n \in Nat \ {0} /\ FreePages(m) \subseteq Pages(m) /\ Pages(m) \subseteq Nat
  BY DEF TypeOK, Request, FreePages, Pages
<1>2. \A S \in SUBSET FreePages(m) :
        /\ Runs(S) \subseteq Extent /\ Named(Runs(S)) \subseteq S
        /\ NamesEachOnce(Runs(S)) /\ Cardinality(Runs(S)) \in Nat
  BY <1>1, RunsSound, PagesFinite
<1>3. CASE \E nex \in Nat : AllocRefused(t, "ENOMEM", nex) \/ AllocRefused(t, "ENOSPC", nex)
                            \/ AllocRefused(t, "disagree", nex)
  BY <1>3
<1>4. CASE \E i \in FirstFit(m, n) : AllocTaken(t, {[at |-> i, first |-> i, run |-> n]})
  <2>1. PICK i \in FirstFit(m, n) : AllocTaken(t, {[at |-> i, first |-> i, run |-> n]})
    BY <1>4
  <2> DEFINE e == [at |-> i, first |-> i, run |-> n]
  <2>2. i \in Nat /\ i .. i + n - 1 \subseteq FreePages(m)
    BY <1>1, <2>1 DEF FirstFit, FitsAt
  <2>3. e \in Extent /\ Hugepages(e) = i .. i + n - 1
    BY <1>1, <2>2 DEF Extent, Hugepages
  <2>4. {e} \in SUBSET Extent /\ Named({e}) \subseteq FreePages(m) /\ NamesEachOnce({e})
    BY <2>2, <2>3 DEF Named, NamesEachOnce
  <2>5. QED
    BY <2>1, <2>4
<1>5. CASE \E S \in Lowest(m, n) : AllocTaken(t, Runs(S))
  BY <1>2, <1>5 DEF Lowest
<1>6. QED
  <2>1. 0 \in Nat /\ FreePages(m) \in SUBSET FreePages(m) /\ Lowest(m, n) \subseteq SUBSET FreePages(m)
    BY DEF Lowest
  <2>2. \/ AllocRefused(t, "ENOMEM", 0) \/ AllocRefused(t, "ENOSPC", 0)
        \/ AllocRefused(t, "disagree", Cardinality(Runs(FreePages(m))))
        \/ \E S \in Lowest(m, n) : AllocRefused(t, "ENOSPC", Cardinality(Runs(S)))
        \/ \E i \in FirstFit(m, n) : AllocTaken(t, {[at |-> i, first |-> i, run |-> n]})
        \/ \E S \in Lowest(m, n) : AllocTaken(t, Runs(S))
    BY Zenon DEF AllocDecide
  <2>3. QED
    BY <1>2, <1>3, <1>4, <1>5, <2>1, <2>2

(* TypeOK is preserved, one step per action.                                *)
LEMMA TypeStep == IInv /\ [Next]_vars => TypeOK'
<1> SUFFICES ASSUME IInv, [Next]_vars PROVE TypeOK'
  OBVIOUS
<1> USE RegionAssumption, SlotAssumption, RequestAssumption DEF IInv
<1>0. 0 \in 0 .. SlotMod
  OBVIOUS
<1>1. ASSUME NEW f \in Fd, Open(f) PROVE TypeOK'
  BY <1>1 DEF Open, TypeOK, ledger, held, locks, locals
<1>2. ASSUME NEW t \in Thread, NEW f \in Fd, NEW m \in Region, NEW req \in AllocRequests,
             AllocCall(t, f, m, req)
      PROVE TypeOK'
  BY <1>2 DEF AllocCall, TypeOK, ledger, held, table, locks, Goto, Pc
<1>3. ASSUME NEW t \in Thread, NEW f \in Fd, NEW m \in Region, NEW E \in FreeRequests,
             FreeCall(t, f, m, E)
      PROVE TypeOK'
  BY <1>3 DEF FreeCall, TypeOK, ledger, held, table, locks, Goto, Pc
<1>4. ASSUME NEW t \in Thread, AllocLockFile(t) PROVE TypeOK'
  BY ZenonT(60), <1>4 DEF AllocLockFile, TypeOK, ledger, held, table, Goto, Pc
<1>5. ASSUME NEW t \in Thread, AllocDecide(t) PROVE TypeOK'
  <2>1. ASSUME NEW ret \in {"ENOMEM", "ENOSPC", "disagree"}, NEW nex \in Nat, AllocRefused(t, ret, nex)
        PROVE  /\ pc' \in [Thread -> Pc] /\ flock' \in [Fd -> Thread \cup {None}]
               /\ reply' \in [Thread -> Reply] /\ ext' \in [Thread -> SUBSET Extent]
               /\ UNCHANGED <<llock, creq, out>>
    BY <2>1 DEF AllocRefused, Answer, Unlock, TypeOK, Goto, Pc, Reply
  <2>2. ASSUME NEW E \in SUBSET Extent, AllocTaken(t, E)
        PROVE  /\ pc' \in [Thread -> Pc] /\ llock' \in [Region -> Thread \cup {None}]
               /\ creq' \in [Thread -> Request] /\ ext' \in [Thread -> SUBSET Extent]
               /\ out' \in [Thread -> SUBSET Extent]
               /\ UNCHANGED <<flock, reply>>
    BY <2>2 DEF AllocTaken, TypeOK, Goto, Pc, NoRequest, Request
  <2>3. \/ \E ret \in {"ENOMEM", "ENOSPC", "disagree"}, nex \in Nat : AllocRefused(t, ret, nex)
        \/ \E E \in SUBSET Extent : AllocTaken(t, E)
    BY <1>5, AllocOutcome
  <2>4. QED
    BY <1>5, <2>1, <2>2, <2>3 DEF AllocDecide, TypeOK, ledger, held, table
<1>6. ASSUME NEW t \in Thread, Commit(t) PROVE TypeOK'
  <2>1. PICK e \in ext[t] : CommitExtent(t, e) /\ ext' = [ext EXCEPT ![t] = @ \ {e}]
    BY <1>6 DEF Commit
  <2>2. /\ e \in Extent /\ cmem[t] \in Region /\ cfd[t] \in Fd
        /\ Hugepages(e) \subseteq Pages(cmem[t]) /\ Hugepages(e) \subseteq Nat
        /\ slot[cfd[t]] \in 0 .. SlotMod
    BY <1>6, <2>1 DEF Commit, Checked, Pinned, TypeOK, Named, FreePages, InIoctl, Pages
  <2>3. /\ bitmap' \in [Region -> SUBSET Nat] /\ \A m \in Region : bitmap'[m] \subseteq Pages(m)
        /\ hugepages' \in [Fd -> [Region -> SUBSET Nat]]
    BY <2>1, <2>2 DEF CommitExtent, TypeOK
  <2>4. nr_free' \in [Region -> Int] /\ nr_held' \in [Fd -> [Region -> Int]]
    BY <2>1, <2>2 DEF CommitExtent, TypeOK, Extent
  <2>5. /\ owner' = [m \in Region |-> [p \in Pages(m) |-> owner'[m][p]]]
        /\ \A m \in Region : \A p \in Pages(m) : owner'[m][p] \in 0 .. SlotMod
    BY <2>1, <2>2 DEF CommitExtent, TypeOK
  <2>6. /\ pc' \in [Thread -> Pc] /\ llock' \in [Region -> Thread \cup {None}]
        /\ flock' \in [Fd -> Thread \cup {None}] /\ ext' \in [Thread -> SUBSET Extent]
    BY ZenonT(60), <1>6, <2>1, <2>2 DEF Commit, TypeOK, Goto, Pc, Unlock
  <2>7. QED
    BY <1>6, <2>3, <2>4, <2>5, <2>6 DEF Commit, TypeOK, table
<1>7. ASSUME NEW t \in Thread, CopyOut(t) PROVE TypeOK'
  BY <1>7 DEF CopyOut, Leave, TypeOK, ledger, held, table, locks, Goto, Pc, NoRequest, Request, NoReply, Reply, Region
<1>8. ASSUME NEW t \in Thread, CopyFault(t) PROVE TypeOK'
  BY <1>8 DEF CopyFault, TypeOK, ledger, held, table, locks, Goto, Pc
<1>9. ASSUME NEW t \in Thread, FreeLockFile(t) PROVE TypeOK'
  BY ZenonT(60), <1>9 DEF FreeLockFile, TypeOK, ledger, held, table, Goto, Pc
<1>10. ASSUME NEW t \in Thread, FreeValidate(t) PROVE TypeOK'
  <2>1. CASE MayFree(ext[t], cfd[t], cmem[t])
    <3>1. pc' = [pc EXCEPT ![t] = "release"] /\ llock' = [llock EXCEPT ![cmem[t]] = t]
          /\ UNCHANGED <<flock, ext, reply>>
      BY <1>10, <2>1 DEF FreeValidate, Goto
    <3>2. pc' \in [Thread -> Pc] /\ llock' \in [Region -> Thread \cup {None}]
      BY <3>1 DEF TypeOK, Pc
    <3>3. QED
      BY <1>10, <3>1, <3>2 DEF FreeValidate, TypeOK, ledger, held, table
  <2>2. CASE ~MayFree(ext[t], cfd[t], cmem[t])
    <3>1. PICK ret \in {"EFAULT", "EPERM", "EINVAL"} : Answer(t, ret, 0)
      BY <1>10, <2>2 DEF FreeValidate, FreeError
    <3>2. /\ pc' \in [Thread -> Pc] /\ reply' \in [Thread -> Reply]
          /\ ext' \in [Thread -> SUBSET Extent]
      BY <3>1 DEF Answer, TypeOK, Goto, Pc, Reply
    <3>3. flock' \in [Fd -> Thread \cup {None}]
      BY <1>10, <2>2 DEF FreeValidate, Unlock, TypeOK
    <3>4. QED
      BY <1>10, <2>2, <3>2, <3>3 DEF FreeValidate, TypeOK, ledger, held, table
  <2>3. QED
    BY <2>1, <2>2
<1>11. ASSUME NEW t \in Thread, Release(t) PROVE TypeOK'
  <2>1. PICK e \in ext[t] : ReleaseExtent(t, e) /\ ext' = [ext EXCEPT ![t] = @ \ {e}]
    BY <1>11 DEF Release
  <2>2. e \in Extent /\ cmem[t] \in Region /\ cfd[t] \in Fd
    BY <1>11, <2>1 DEF Release, Pinned, TypeOK, InIoctl
  <2>3. /\ bitmap' \in [Region -> SUBSET Nat] /\ \A m \in Region : bitmap'[m] \subseteq Pages(m)
        /\ hugepages' \in [Fd -> [Region -> SUBSET Nat]]
    BY <2>1, <2>2 DEF ReleaseExtent, TypeOK
  <2>4. nr_free' \in [Region -> Int] /\ nr_held' \in [Fd -> [Region -> Int]]
    BY <2>1, <2>2 DEF ReleaseExtent, TypeOK, Extent
  <2>5. /\ owner' = [m \in Region |-> [p \in Pages(m) |-> owner'[m][p]]]
        /\ \A m \in Region : \A p \in Pages(m) : owner'[m][p] \in 0 .. SlotMod
    BY <1>0, <2>1, <2>2 DEF ReleaseExtent, TypeOK
  <2>6. /\ pc' \in [Thread -> Pc] /\ llock' \in [Region -> Thread \cup {None}]
        /\ flock' \in [Fd -> Thread \cup {None}] /\ ext' \in [Thread -> SUBSET Extent]
    BY ZenonT(60), <1>11, <2>1, <2>2 DEF Release, TypeOK, Goto, Pc, Unlock
  <2>7. reply' \in [Thread -> Reply]
    <3>1. \/ reply' = reply
          \/ \E r \in Reply : reply' = [reply EXCEPT ![t] = r]
      BY <1>11 DEF Release, Reply
    <3>2. QED
      BY <3>1 DEF TypeOK
  <2>8. QED
    BY <1>11, <2>3, <2>4, <2>5, <2>6, <2>7 DEF Release, TypeOK, table
<1>12. ASSUME NEW t \in Thread, Return(t) PROVE TypeOK'
  BY <1>12 DEF Return, Leave, TypeOK, ledger, held, table, locks, Goto, Pc, NoRequest, Request, NoReply, Reply, Region
<1>13. ASSUME NEW t \in Thread, NEW f \in Fd, CloseCall(t, f) PROVE TypeOK'
  BY <1>13 DEF CloseCall, TypeOK, ledger, held, locks, Goto, Pc
<1>14. ASSUME NEW t \in Thread, CloseUnlist(t) PROVE TypeOK'
  BY <1>14 DEF CloseUnlist, TypeOK, ledger, held, locks, Goto, Pc
<1>15. ASSUME NEW t \in Thread, ReclaimLockFile(t) PROVE TypeOK'
  BY ZenonT(60), <1>15 DEF ReclaimLockFile, TypeOK, ledger, held, table, Goto, Pc
<1>16. ASSUME NEW t \in Thread, Reclaim(t) PROVE TypeOK'
  <2>1. cmem[t] \in Region /\ cfd[t] \in Fd
    BY <1>16 DEF Reclaim, Pinned, TypeOK, InClose
  <2>2. Cardinality(hugepages[cfd[t]][cmem[t]]) \in Nat
    BY <2>1, PagesFinite DEF Exclusive, TypeOK
  <2>3. /\ bitmap' \in [Region -> SUBSET Nat] /\ \A m \in Region : bitmap'[m] \subseteq Pages(m)
        /\ hugepages' \in [Fd -> [Region -> SUBSET Nat]]
    BY <1>16, <2>1 DEF Reclaim, TypeOK
  <2>4. nr_free' \in [Region -> Int] /\ nr_held' \in [Fd -> [Region -> Int]]
    BY <1>16, <2>1, <2>2 DEF Reclaim, TypeOK
  <2>5. /\ owner' = [m \in Region |-> [p \in Pages(m) |-> owner'[m][p]]]
        /\ \A m \in Region : \A p \in Pages(m) : owner'[m][p] \in 0 .. SlotMod
    <3>1. \A p \in Pages(cmem[t]) : RelabelFree(p, cmem[t], cfd[t]) \in 0 .. SlotMod
      BY <1>0, <2>1 DEF RelabelFree, TypeOK
    <3>2. owner' = [owner EXCEPT ![cmem[t]] =
                      [p \in Pages(cmem[t]) |-> RelabelFree(p, cmem[t], cfd[t])]]
      BY <1>16 DEF Reclaim
    <3>3. QED
      BY <2>1, <3>1, <3>2 DEF TypeOK
  <2>6. /\ pc' \in [Thread -> Pc] /\ flock' \in [Fd -> Thread \cup {None}]
        /\ cmem' \in [Thread -> Region]
    BY ZenonT(60), <1>16, <2>1 DEF Reclaim, TypeOK, Goto, Pc, Unlock, NextRegion, Region
  <2>7. QED
    BY <1>16, <2>3, <2>4, <2>5, <2>6 DEF Reclaim, TypeOK, table
<1>17. ASSUME NEW t \in Thread, FreeStruct(t) PROVE TypeOK'
  <2>1. cfd[t] \in Fd
    BY <1>17 DEF FreeStruct, Pinned, TypeOK, InClose
  <2>2. /\ fstate' \in [Fd -> {"closed", "open", "closing"}]
        /\ slot' \in [Fd -> 0 .. SlotMod] /\ nr_held' \in [Fd -> [Region -> Int]]
    BY <1>0, <1>17, <2>1 DEF FreeStruct, TypeOK
  <2>3. QED
    BY <1>17, <2>2 DEF FreeStruct, Leave, TypeOK, ledger, locks, Goto, Pc, NoRequest, Request, NoReply,
                       Reply, Region
<1>18. ASSUME NEW t \in Thread, ProcCall(t) PROVE TypeOK'
  BY <1>18 DEF ProcCall, TypeOK, ledger, held, table, locks, Goto, Pc
<1>19. ASSUME NEW t \in Thread, ProcReadLedger(t) PROVE TypeOK'
  <2>1. pc' \in [Thread -> Pc] /\ cmem' \in [Thread -> Region]
    BY ZenonT(60), <1>19 DEF ProcReadLedger, TypeOK, Goto, Pc, Region
  <2>2. QED
    BY <1>19, <2>1 DEF ProcReadLedger, TypeOK, ledger, held, table, locks
<1>20. ASSUME NEW t \in Thread, ProcLockFiles(t) PROVE TypeOK'
  BY <1>20 DEF ProcLockFiles, TypeOK, ledger, held, table, Goto, Pc
<1>21. ASSUME NEW t \in Thread, NEW f \in Fd, ProcVisit(t, f) PROVE TypeOK'
  BY <1>21 DEF ProcVisit, TypeOK, ledger, held, table, locks
<1>22. ASSUME NEW t \in Thread, ProcDone(t) PROVE TypeOK'
  BY <1>22 DEF ProcDone, Leave, TypeOK, ledger, held, table, Goto, Pc, NoRequest, Request, NoReply, Reply, Region
<1>23. CASE UNCHANGED vars
  BY <1>23 DEF vars, TypeOK, ledger, held, table, locks, locals
<1>24. QED
  BY <1>1, <1>2, <1>3, <1>4, <1>5, <1>6, <1>7, <1>8, <1>9, <1>10, <1>11, <1>12, <1>13, <1>14,
     <1>15, <1>16, <1>17, <1>18, <1>19, <1>20, <1>21, <1>22, <1>23
     DEF Next, Enter, FreeCalls, Step

(* Each mutex is held by exactly the thread inside its critical section.    *)
LEMMA LockedStep == IInv /\ [Next]_vars => Locked'
<1> SUFFICES ASSUME IInv, [Next]_vars PROVE Locked'
  OBVIOUS
<1> USE ThreadAssumption DEF IInv, TypeOK, Pinned
<1>1. ASSUME NEW f \in Fd, Open(f) PROVE Locked'
  BY <1>1 DEF Open, locals, locks, Locked
<1>2. ASSUME NEW t \in Thread, NEW f \in Fd, NEW m \in Region, NEW req \in AllocRequests,
             AllocCall(t, f, m, req)
      PROVE Locked'
  BY <1>2 DEF AllocCall, Locked, HoldsFile, HoldsLedger, InIoctl, InClose, Goto, Leave, Unlock, Answer, ledger, held, table, locks
<1>3. ASSUME NEW t \in Thread, NEW f \in Fd, NEW m \in Region, NEW E \in FreeRequests, NamesEachOnce(E),
             FreeCall(t, f, m, E)
      PROVE Locked'
  BY <1>3 DEF FreeCall, Locked, HoldsFile, HoldsLedger, InIoctl, InClose, Goto, Leave, Unlock, Answer, ledger, held, table, locks
<1>4. ASSUME NEW t \in Thread, AllocLockFile(t) PROVE Locked'
  BY <1>4 DEF AllocLockFile, Locked, HoldsFile, HoldsLedger, InIoctl, InClose, Goto, Leave, Unlock, Answer, ledger, held, table, locks
<1>5. ASSUME NEW t \in Thread, AllocDecide(t) PROVE Locked'
  <2>1. ASSUME NEW ret \in {"ENOMEM", "ENOSPC", "disagree"}, NEW nex \in Nat, AllocRefused(t, ret, nex)
        PROVE  Locked'
    BY <1>5, <2>1 DEF AllocRefused, AllocDecide, Locked, HoldsFile, HoldsLedger, InIoctl, InClose, Goto, Leave, Unlock, Answer, ledger, held, table, locks
  <2>2. ASSUME NEW E \in SUBSET Extent, AllocTaken(t, E), Named(E) \subseteq FreePages(cmem[t]),
               NamesEachOnce(E)
        PROVE  Locked'
    BY <1>5, <2>2 DEF AllocTaken, AllocDecide, Locked, HoldsFile, HoldsLedger, InIoctl, InClose, Goto, Leave, Unlock, Answer, ledger, held, table, locks
  <2>3. \/ \E ret \in {"ENOMEM", "ENOSPC", "disagree"}, nex \in Nat : AllocRefused(t, ret, nex)
        \/ \E E \in SUBSET Extent : /\ AllocTaken(t, E)
                                    /\ Named(E) \subseteq FreePages(cmem[t])
                                    /\ NamesEachOnce(E)
    BY <1>5, AllocOutcome DEF TypeOK
  <2>4. QED
    BY <2>1, <2>2, <2>3
<1>6. ASSUME NEW t \in Thread, Commit(t) PROVE Locked'
  BY SMTT(60), <1>6 DEF Commit, Locked, HoldsFile, HoldsLedger, InIoctl, InClose, Goto, Leave, Unlock, Answer, ledger, held, table, locks
<1>7. ASSUME NEW t \in Thread, CopyOut(t) PROVE Locked'
  BY <1>7 DEF CopyOut, Locked, HoldsFile, HoldsLedger, InIoctl, InClose, Goto, Leave, Unlock, Answer, ledger, held, table, locks
<1>8. ASSUME NEW t \in Thread, CopyFault(t) PROVE Locked'
  BY <1>8 DEF CopyFault, Locked, HoldsFile, HoldsLedger, InIoctl, InClose, Goto, Leave, Unlock, Answer, ledger, held, table, locks
<1>9. ASSUME NEW t \in Thread, FreeLockFile(t) PROVE Locked'
  BY <1>9 DEF FreeLockFile, Locked, HoldsFile, HoldsLedger, InIoctl, InClose, Goto, Leave, Unlock, Answer, ledger, held, table, locks
<1>10. ASSUME NEW t \in Thread, FreeValidate(t) PROVE Locked'
  BY <1>10 DEF FreeValidate, Locked, HoldsFile, HoldsLedger, InIoctl, InClose, Goto, Leave, Unlock, Answer, ledger, held, table, locks
<1>11. ASSUME NEW t \in Thread, Release(t) PROVE Locked'
  BY <1>11 DEF Release, Locked, HoldsFile, HoldsLedger, InIoctl, InClose, Goto, Leave, Unlock, Answer, ledger, held, table, locks
<1>12. ASSUME NEW t \in Thread, Return(t) PROVE Locked'
  BY <1>12 DEF Return, Locked, HoldsFile, HoldsLedger, InIoctl, InClose, Goto, Leave, Unlock, Answer, ledger, held, table, locks
<1>13. ASSUME NEW t \in Thread, NEW f \in Fd, CloseCall(t, f) PROVE Locked'
  BY <1>13 DEF CloseCall, Locked, HoldsFile, HoldsLedger, InIoctl, InClose, Goto, Leave, Unlock, Answer, ledger, held, table, locks
<1>14. ASSUME NEW t \in Thread, CloseUnlist(t) PROVE Locked'
  BY <1>14 DEF CloseUnlist, Locked, HoldsFile, HoldsLedger, InIoctl, InClose, Goto, Leave, Unlock, Answer, ledger, held, table, locks
<1>15. ASSUME NEW t \in Thread, ReclaimLockFile(t) PROVE Locked'
  BY <1>15 DEF ReclaimLockFile, Locked, HoldsFile, HoldsLedger, InIoctl, InClose, Goto, Leave, Unlock, Answer, ledger, held, table, locks
<1>16. ASSUME NEW t \in Thread, Reclaim(t) PROVE Locked'
  BY <1>16 DEF Reclaim, Locked, HoldsFile, HoldsLedger, InIoctl, InClose, Goto, Leave, Unlock, Answer, ledger, held, table, locks
<1>17. ASSUME NEW t \in Thread, FreeStruct(t) PROVE Locked'
  BY <1>17 DEF FreeStruct, Locked, HoldsFile, HoldsLedger, InIoctl, InClose, Goto, Leave, Unlock, Answer, ledger, held, table, locks
<1>18. ASSUME NEW t \in Thread, ProcCall(t) PROVE Locked'
  BY <1>18 DEF ProcCall, Locked, HoldsFile, HoldsLedger, InIoctl, InClose, Goto, Leave, Unlock, Answer, ledger, held, table, locks
<1>19. ASSUME NEW t \in Thread, ProcReadLedger(t) PROVE Locked'
  BY <1>19 DEF ProcReadLedger, Locked, HoldsFile, HoldsLedger, InIoctl, InClose, Goto, Leave, Unlock, Answer, ledger, held, table, locks
<1>20. ASSUME NEW t \in Thread, ProcLockFiles(t) PROVE Locked'
  BY <1>20 DEF ProcLockFiles, Locked, HoldsFile, HoldsLedger, InIoctl, InClose, Goto, Leave, Unlock, Answer, ledger, held, table, locks
<1>21. ASSUME NEW t \in Thread, NEW f \in Fd, ProcVisit(t, f) PROVE Locked'
  BY <1>21 DEF ProcVisit, Locked, HoldsFile, HoldsLedger, InIoctl, InClose, Goto, Leave, Unlock, Answer, ledger, held, table, locks
<1>22. ASSUME NEW t \in Thread, ProcDone(t) PROVE Locked'
  BY <1>22 DEF ProcDone, Locked, HoldsFile, HoldsLedger, InIoctl, InClose, Goto, Leave, Unlock, Answer, ledger, held, table, locks
<1>23. CASE UNCHANGED vars
  BY <1>23 DEF vars, ledger, held, table, locks, locals, Locked, HoldsFile, HoldsLedger, InIoctl, InClose, Goto, Leave, Unlock, Answer, ledger, held, table, locks
<1>24. QED
  BY <1>1, <1>2, <1>3, <1>4, <1>5, <1>6, <1>7, <1>8, <1>9, <1>10, <1>11, <1>12, <1>13, <1>14, <1>15, <1>16, <1>17, <1>18, <1>19, <1>20, <1>21, <1>22, <1>23
     DEF Next, Enter, FreeCalls, Step, IInv

(* A file with an ioctl in flight stays open, and a closing file has one thread. *)
LEMMA PinnedStep == IInv /\ [Next]_vars => Pinned'
<1> SUFFICES ASSUME IInv, [Next]_vars PROVE Pinned'
  OBVIOUS
<1> USE ThreadAssumption DEF IInv, TypeOK
<1>1. ASSUME NEW f \in Fd, Open(f) PROVE Pinned'
  BY <1>1 DEF Open, locals, Pinned, InIoctl, InClose
<1>2. ASSUME NEW t \in Thread, NEW f \in Fd, NEW m \in Region, NEW req \in AllocRequests,
             AllocCall(t, f, m, req)
      PROVE Pinned'
  BY <1>2 DEF AllocCall, Pinned, InIoctl, InClose, Goto, Leave, Answer, InFlight, ledger, held, table, locks
<1>3. ASSUME NEW t \in Thread, NEW f \in Fd, NEW m \in Region, NEW E \in FreeRequests, NamesEachOnce(E),
             FreeCall(t, f, m, E)
      PROVE Pinned'
  BY <1>3 DEF FreeCall, Pinned, InIoctl, InClose, Goto, Leave, Answer, InFlight, ledger, held, table, locks
<1>4. ASSUME NEW t \in Thread, AllocLockFile(t) PROVE Pinned'
  BY <1>4 DEF AllocLockFile, Pinned, InIoctl, InClose, Goto, Leave, Answer, InFlight, ledger, held, table, locks
<1>5. ASSUME NEW t \in Thread, AllocDecide(t) PROVE Pinned'
  <2>1. ASSUME NEW ret \in {"ENOMEM", "ENOSPC", "disagree"}, NEW nex \in Nat, AllocRefused(t, ret, nex)
        PROVE  Pinned'
    BY <1>5, <2>1 DEF AllocRefused, AllocDecide, Pinned, InIoctl, InClose, Goto, Leave, Answer, InFlight, ledger, held, table, locks
  <2>2. ASSUME NEW E \in SUBSET Extent, AllocTaken(t, E), Named(E) \subseteq FreePages(cmem[t]),
               NamesEachOnce(E)
        PROVE  Pinned'
    BY <1>5, <2>2 DEF AllocTaken, AllocDecide, Pinned, InIoctl, InClose, Goto, Leave, Answer, InFlight, ledger, held, table, locks
  <2>3. QED
    BY <1>5, <2>1, <2>2, AllocOutcome
<1>6. ASSUME NEW t \in Thread, Commit(t) PROVE Pinned'
  BY <1>6 DEF Commit, Pinned, InIoctl, InClose, Goto, Leave, Answer, InFlight, ledger, held, table, locks
<1>7. ASSUME NEW t \in Thread, CopyOut(t) PROVE Pinned'
  BY <1>7 DEF CopyOut, Pinned, InIoctl, InClose, Goto, Leave, Answer, InFlight, ledger, held, table, locks
<1>8. ASSUME NEW t \in Thread, CopyFault(t) PROVE Pinned'
  BY <1>8 DEF CopyFault, Pinned, InIoctl, InClose, Goto, Leave, Answer, InFlight, ledger, held, table, locks
<1>9. ASSUME NEW t \in Thread, FreeLockFile(t) PROVE Pinned'
  BY <1>9 DEF FreeLockFile, Pinned, InIoctl, InClose, Goto, Leave, Answer, InFlight, ledger, held, table, locks
<1>10. ASSUME NEW t \in Thread, FreeValidate(t) PROVE Pinned'
  BY <1>10 DEF FreeValidate, Pinned, InIoctl, InClose, Goto, Leave, Answer, InFlight, ledger, held, table, locks
<1>11. ASSUME NEW t \in Thread, Release(t) PROVE Pinned'
  BY <1>11 DEF Release, Pinned, InIoctl, InClose, Goto, Leave, Answer, InFlight, ledger, held, table, locks
<1>12. ASSUME NEW t \in Thread, Return(t) PROVE Pinned'
  BY <1>12 DEF Return, Pinned, InIoctl, InClose, Goto, Leave, Answer, InFlight, ledger, held, table, locks
<1>13. ASSUME NEW t \in Thread, NEW f \in Fd, CloseCall(t, f) PROVE Pinned'
  BY <1>13 DEF CloseCall, Pinned, InIoctl, InClose, Goto, Leave, Answer, InFlight, ledger, held, table, locks
<1>14. ASSUME NEW t \in Thread, CloseUnlist(t) PROVE Pinned'
  BY <1>14 DEF CloseUnlist, Pinned, InIoctl, InClose, Goto, Leave, Answer, InFlight, ledger, held, table, locks
<1>15. ASSUME NEW t \in Thread, ReclaimLockFile(t) PROVE Pinned'
  BY <1>15 DEF ReclaimLockFile, Pinned, InIoctl, InClose, Goto, Leave, Answer, InFlight, ledger, held, table, locks
<1>16. ASSUME NEW t \in Thread, Reclaim(t) PROVE Pinned'
  BY <1>16 DEF Reclaim, Pinned, InIoctl, InClose, Goto, Leave, Answer, InFlight, ledger, held, table, locks
<1>17. ASSUME NEW t \in Thread, FreeStruct(t) PROVE Pinned'
  BY <1>17 DEF FreeStruct, Pinned, InIoctl, InClose, Goto, Leave, Answer, InFlight, ledger, held, table, locks
<1>18. ASSUME NEW t \in Thread, ProcCall(t) PROVE Pinned'
  BY <1>18 DEF ProcCall, Pinned, InIoctl, InClose, Goto, Leave, Answer, InFlight, ledger, held, table, locks
<1>19. ASSUME NEW t \in Thread, ProcReadLedger(t) PROVE Pinned'
  BY <1>19 DEF ProcReadLedger, Pinned, InIoctl, InClose, Goto, Leave, Answer, InFlight, ledger, held, table, locks
<1>20. ASSUME NEW t \in Thread, ProcLockFiles(t) PROVE Pinned'
  BY <1>20 DEF ProcLockFiles, Pinned, InIoctl, InClose, Goto, Leave, Answer, InFlight, ledger, held, table, locks
<1>21. ASSUME NEW t \in Thread, NEW f \in Fd, ProcVisit(t, f) PROVE Pinned'
  BY <1>21 DEF ProcVisit, Pinned, InIoctl, InClose, Goto, Leave, Answer, InFlight, ledger, held, table, locks
<1>22. ASSUME NEW t \in Thread, ProcDone(t) PROVE Pinned'
  BY <1>22 DEF ProcDone, Pinned, InIoctl, InClose, Goto, Leave, Answer, InFlight, ledger, held, table, locks
<1>23. CASE UNCHANGED vars
  BY <1>23 DEF vars, ledger, held, table, locks, locals, Pinned, InIoctl, InClose, Goto, Leave, Answer, InFlight, ledger, held, table, locks
<1>24. QED
  BY <1>1, <1>2, <1>3, <1>4, <1>5, <1>6, <1>7, <1>8, <1>9, <1>10, <1>11, <1>12, <1>13, <1>14, <1>15, <1>16, <1>17, <1>18, <1>19, <1>20, <1>21, <1>22, <1>23
     DEF Next, Enter, FreeCalls, Step, IInv

(* What validation established stays true until the loop under the lock is done. *)
LEMMA CheckedStep == IInv /\ [Next]_vars => Checked'
<1> SUFFICES ASSUME IInv, [Next]_vars PROVE Checked'
  OBVIOUS
<1> USE ThreadAssumption DEF IInv, TypeOK
<1>0. NamesEachOnce({})
  BY DEF NamesEachOnce
<1>1. ASSUME NEW f \in Fd, Open(f) PROVE Checked'
  BY <1>1 DEF Open, locals, held, ledger, Checked, FreePages
<1>2. ASSUME NEW t \in Thread, NEW f \in Fd, NEW m \in Region, NEW req \in AllocRequests,
             AllocCall(t, f, m, req)
      PROVE Checked'
  BY <1>2, <1>0 DEF AllocCall, Checked, FreePages, Goto, Leave, Answer, ledger, held, table, locks
<1>3. ASSUME NEW t \in Thread, NEW f \in Fd, NEW m \in Region, NEW E \in FreeRequests, NamesEachOnce(E),
             FreeCall(t, f, m, E)
      PROVE Checked'
  BY <1>3, <1>0 DEF FreeCall, Checked, FreePages, Goto, Leave, Answer, ledger, held, table, locks
<1>4. ASSUME NEW t \in Thread, AllocLockFile(t) PROVE Checked'
  BY <1>4, <1>0 DEF AllocLockFile, Checked, FreePages, Goto, Leave, Answer, ledger, held, table, locks
<1>5. ASSUME NEW t \in Thread, AllocDecide(t) PROVE Checked'
  <2>1. ASSUME NEW ret \in {"ENOMEM", "ENOSPC", "disagree"}, NEW nex \in Nat, AllocRefused(t, ret, nex)
        PROVE  Checked'
    BY <1>5, <2>1, <1>0 DEF AllocRefused, AllocDecide, Checked, FreePages, Goto, Leave, Answer, ledger, held, table, locks
  <2>2. ASSUME NEW E \in SUBSET Extent, AllocTaken(t, E), Named(E) \subseteq FreePages(cmem[t]),
               NamesEachOnce(E)
        PROVE  Checked'
    BY <1>5, <2>2, <1>0 DEF AllocTaken, AllocDecide, Checked, FreePages, Goto, Leave, Answer, ledger, held, table, locks
  <2>3. QED
    BY <1>5, <2>1, <2>2, AllocOutcome
<1>6. ASSUME NEW t \in Thread, Commit(t) PROVE Checked'
  <2>1. PICK e \in ext[t] : CommitExtent(t, e) /\ ext' = [ext EXCEPT ![t] = @ \ {e}]
    BY <1>6 DEF Commit
  <2>2. /\ Hugepages(e) \cap Named(ext[t] \ {e}) = {}
        /\ Named(ext[t] \ {e}) \subseteq Named(ext[t])
        /\ NamesEachOnce(ext[t] \ {e})
    BY <2>1 DEF Checked, Named, NamesEachOnce
  <2>3. pc[t] = "commit" /\ cmem[t] \in Region /\ cfd[t] \in Fd
    BY <1>6 DEF Commit, Pinned, InIoctl
  <2>4. ASSUME NEW u \in Thread, u # t
        PROVE  /\ pc'[u] = pc[u] /\ cmem'[u] = cmem[u] /\ cfd'[u] = cfd[u] /\ ext'[u] = ext[u]
               /\ pc[u] \in HoldsLedger => cmem[u] # cmem[t] /\ cfd[u] # cfd[t]
               /\ pc[u] \in HoldsLedger => cfd[u] \in Fd
    BY <1>6, <2>1, <2>3, <2>4 DEF Commit, Locked, HoldsFile, HoldsLedger, Pinned, InIoctl, Goto
  <2>5. ASSUME NEW u \in Thread, u # t
        PROVE  /\ pc'[u] = "commit" => Named(ext'[u]) \subseteq FreePages(cmem[u])'
               /\ pc'[u] = "release" => Named(ext'[u]) \subseteq hugepages'[cfd'[u]][cmem'[u]]
    BY <2>1, <2>3, <2>4, <2>5 DEF CommitExtent, Checked, FreePages, HoldsLedger
  <2>6. /\ pc'[t] = "commit" => Named(ext'[t]) \subseteq FreePages(cmem[t])'
        /\ pc'[t] = "release" => Named(ext'[t]) \subseteq hugepages'[cfd'[t]][cmem'[t]]
    <3>1. /\ ext'[t] = ext[t] \ {e} /\ cmem'[t] = cmem[t] /\ cfd'[t] = cfd[t]
          /\ pc'[t] \in {"commit", "copyout"}
      BY <1>6, <2>1, <2>3 DEF Commit, Goto
    <3>2. bitmap'[cmem[t]] = bitmap[cmem[t]] \cup Hugepages(e)
      BY <2>1, <2>3 DEF CommitExtent
    <3>3. QED
      BY <2>2, <2>3, <3>1, <3>2 DEF Checked, FreePages
  <2>7. \A u \in Thread : NamesEachOnce(ext'[u]) /\ NamesEachOnce(out'[u])
    BY <1>6, <2>1, <2>2, <2>4 DEF Commit, Checked
  <2>8. QED
    BY <1>6, <2>4, <2>5, <2>6, <2>7 DEF Commit, Checked
<1>7. ASSUME NEW t \in Thread, CopyOut(t) PROVE Checked'
  BY <1>7, <1>0 DEF CopyOut, Checked, FreePages, Goto, Leave, Answer, ledger, held, table, locks
<1>8. ASSUME NEW t \in Thread, CopyFault(t) PROVE Checked'
  BY <1>8, <1>0 DEF CopyFault, Checked, FreePages, Goto, Leave, Answer, ledger, held, table, locks
<1>9. ASSUME NEW t \in Thread, FreeLockFile(t) PROVE Checked'
  BY <1>9, <1>0 DEF FreeLockFile, Checked, FreePages, Goto, Leave, Answer, ledger, held, table, locks
<1>10. ASSUME NEW t \in Thread, FreeValidate(t) PROVE Checked'
  <2>1. CASE MayFree(ext[t], cfd[t], cmem[t])
    <3>1. pc' = [pc EXCEPT ![t] = "release"] /\ ext' = ext
      BY <1>10, <2>1 DEF FreeValidate, Goto
    <3>2. QED
      BY <1>10, <2>1, <3>1 DEF FreeValidate, MayFree, Checked, FreePages, ledger, held
  <2>2. CASE ~MayFree(ext[t], cfd[t], cmem[t])
    <3>1. pc' = [pc EXCEPT ![t] = "reply"] /\ ext' = [ext EXCEPT ![t] = {}]
      BY <1>10, <2>2 DEF FreeValidate, Answer, Goto
    <3>2. QED
      BY <1>10, <1>0, <3>1 DEF FreeValidate, Checked, FreePages, ledger, held
  <2>3. QED
    BY <2>1, <2>2
<1>11. ASSUME NEW t \in Thread, Release(t) PROVE Checked'
  <2>1. PICK e \in ext[t] : ReleaseExtent(t, e) /\ ext' = [ext EXCEPT ![t] = @ \ {e}]
    BY <1>11 DEF Release
  <2>2. /\ Hugepages(e) \cap Named(ext[t] \ {e}) = {}
        /\ Named(ext[t] \ {e}) \subseteq Named(ext[t])
        /\ NamesEachOnce(ext[t] \ {e})
    BY <2>1 DEF Checked, Named, NamesEachOnce
  <2>3. pc[t] = "release" /\ cmem[t] \in Region /\ cfd[t] \in Fd
    BY <1>11 DEF Release, Pinned, InIoctl
  <2>4. ASSUME NEW u \in Thread, u # t
        PROVE  /\ pc'[u] = pc[u] /\ cmem'[u] = cmem[u] /\ cfd'[u] = cfd[u] /\ ext'[u] = ext[u]
               /\ pc[u] \in HoldsLedger => cmem[u] # cmem[t] /\ cfd[u] # cfd[t]
               /\ pc[u] \in HoldsLedger => cfd[u] \in Fd
    BY <1>11, <2>1, <2>3, <2>4 DEF Release, Locked, HoldsFile, HoldsLedger, Pinned, InIoctl, Goto
  <2>5. ASSUME NEW u \in Thread, u # t
        PROVE  /\ pc'[u] = "commit" => Named(ext'[u]) \subseteq FreePages(cmem[u])'
               /\ pc'[u] = "release" => Named(ext'[u]) \subseteq hugepages'[cfd'[u]][cmem'[u]]
    BY <2>1, <2>3, <2>4, <2>5 DEF ReleaseExtent, Checked, FreePages, HoldsLedger
  <2>6. /\ pc'[t] = "commit" => Named(ext'[t]) \subseteq FreePages(cmem[t])'
        /\ pc'[t] = "release" => Named(ext'[t]) \subseteq hugepages'[cfd'[t]][cmem'[t]]
    <3>1. /\ ext'[t] = ext[t] \ {e} /\ cmem'[t] = cmem[t] /\ cfd'[t] = cfd[t]
          /\ pc'[t] \in {"release", "reply"}
      BY <1>11, <2>1, <2>3 DEF Release, Goto
    <3>2. hugepages'[cfd[t]][cmem[t]] = hugepages[cfd[t]][cmem[t]] \ Hugepages(e)
      BY <2>1, <2>3 DEF ReleaseExtent
    <3>3. QED
      BY <2>2, <2>3, <3>1, <3>2 DEF Checked, FreePages
  <2>7. \A u \in Thread : NamesEachOnce(ext'[u]) /\ NamesEachOnce(out'[u])
    BY <1>11, <2>1, <2>2, <2>4 DEF Release, Checked
  <2>8. QED
    BY <1>11, <2>4, <2>5, <2>6, <2>7 DEF Release, Checked
<1>12. ASSUME NEW t \in Thread, Return(t) PROVE Checked'
  BY <1>12, <1>0 DEF Return, Checked, FreePages, Goto, Leave, Answer, ledger, held, table, locks
<1>13. ASSUME NEW t \in Thread, NEW f \in Fd, CloseCall(t, f) PROVE Checked'
  BY <1>13, <1>0 DEF CloseCall, Checked, FreePages, Goto, Leave, Answer, ledger, held, table, locks
<1>14. ASSUME NEW t \in Thread, CloseUnlist(t) PROVE Checked'
  BY <1>14, <1>0 DEF CloseUnlist, Checked, FreePages, Goto, Leave, Answer, ledger, held, table, locks
<1>15. ASSUME NEW t \in Thread, ReclaimLockFile(t) PROVE Checked'
  BY <1>15, <1>0 DEF ReclaimLockFile, Checked, FreePages, Goto, Leave, Answer, ledger, held, table, locks
<1>16. ASSUME NEW t \in Thread, Reclaim(t) PROVE Checked'
  BY <1>16, <1>0 DEF Reclaim, Locked, HoldsLedger, HoldsFile, Pinned, InIoctl, InClose, Checked, FreePages, Goto, Leave, Answer, ledger, held, table, locks
<1>17. ASSUME NEW t \in Thread, FreeStruct(t) PROVE Checked'
  BY <1>17, <1>0 DEF FreeStruct, Checked, FreePages, Goto, Leave, Answer, ledger, held, table, locks
<1>18. ASSUME NEW t \in Thread, ProcCall(t) PROVE Checked'
  BY <1>18, <1>0 DEF ProcCall, Checked, FreePages, Goto, Leave, Answer, ledger, held, table, locks
<1>19. ASSUME NEW t \in Thread, ProcReadLedger(t) PROVE Checked'
  <2>1. pc[t] = "proc_led" /\ pc'[t] \in {"proc_led", "proc_files"}
    BY <1>19 DEF ProcReadLedger, Goto
  <2>2. \A u \in Thread : u # t => pc'[u] = pc[u] /\ cmem'[u] = cmem[u]
    BY <1>19 DEF ProcReadLedger, Goto
  <2>3. UNCHANGED <<bitmap, hugepages, ext, out, cfd>>
    BY <1>19 DEF ProcReadLedger, ledger, held
  <2>4. QED
    BY <2>1, <2>2, <2>3 DEF Checked, FreePages
<1>20. ASSUME NEW t \in Thread, ProcLockFiles(t) PROVE Checked'
  BY <1>20, <1>0 DEF ProcLockFiles, Checked, FreePages, Goto, Leave, Answer, ledger, held, table, locks
<1>21. ASSUME NEW t \in Thread, NEW f \in Fd, ProcVisit(t, f) PROVE Checked'
  BY <1>21, <1>0 DEF ProcVisit, Checked, FreePages, Goto, Leave, Answer, ledger, held, table, locks
<1>22. ASSUME NEW t \in Thread, ProcDone(t) PROVE Checked'
  BY <1>22, <1>0 DEF ProcDone, Checked, FreePages, Goto, Leave, Answer, ledger, held, table, locks
<1>23. CASE UNCHANGED vars
  BY <1>23 DEF vars, ledger, held, table, locks, locals, Checked, FreePages, Goto, Leave, Answer, ledger, held, table, locks
<1>24. QED
  BY <1>1, <1>2, <1>3, <1>4, <1>5, <1>6, <1>7, <1>8, <1>9, <1>10, <1>11, <1>12, <1>13, <1>14, <1>15, <1>16, <1>17, <1>18, <1>19, <1>20, <1>21, <1>22, <1>23
     DEF Next, Enter, FreeCalls, Step, IInv

(* No step gives a hugepage to two files or loses one from the bitmap.      *)
LEMMA ExclusiveStep == IInv /\ [Next]_vars => Exclusive'
<1> SUFFICES ASSUME IInv, [Next]_vars PROVE Exclusive'
  OBVIOUS
<1> USE ThreadAssumption DEF IInv, TypeOK
<1>1. ASSUME NEW f \in Fd, Open(f) PROVE Exclusive'
  BY <1>1 DEF Open, ledger, held, Exclusive
<1>2. ASSUME NEW t \in Thread, NEW f \in Fd, NEW m \in Region, NEW req \in AllocRequests,
             AllocCall(t, f, m, req)
      PROVE Exclusive'
  BY <1>2 DEF AllocCall, ledger, held, table, locks, Exclusive
<1>3. ASSUME NEW t \in Thread, NEW f \in Fd, NEW m \in Region, NEW E \in FreeRequests, NamesEachOnce(E),
             FreeCall(t, f, m, E)
      PROVE Exclusive'
  BY <1>3 DEF FreeCall, ledger, held, table, locks, Exclusive
<1>4. ASSUME NEW t \in Thread, AllocLockFile(t) PROVE Exclusive'
  BY <1>4 DEF AllocLockFile, ledger, held, table, locks, Exclusive
<1>5. ASSUME NEW t \in Thread, AllocDecide(t) PROVE Exclusive'
  BY <1>5 DEF AllocDecide, ledger, held, table, locks, Exclusive
<1>6. ASSUME NEW t \in Thread, Commit(t) PROVE Exclusive'
  <2>1. PICK e \in ext[t] : CommitExtent(t, e) /\ ext' = [ext EXCEPT ![t] = @ \ {e}]
    BY <1>6 DEF Commit
  <2> DEFINE f == cfd[t]
             m == cmem[t]
             H == Hugepages(e)
  <2>2. /\ f \in Fd /\ m \in Region /\ e \in Extent
        /\ H \subseteq FreePages(m)
    BY <1>6, <2>1 DEF Commit, Checked, Pinned, InIoctl, Named, FreePages
  <2>3. H \cap bitmap[m] = {}
    BY <2>2 DEF FreePages
  <2>4. /\ bitmap' = [bitmap EXCEPT ![m] = bitmap[m] \cup H]
        /\ hugepages' = [hugepages EXCEPT ![f] = [hugepages[f] EXCEPT ![m] = hugepages[f][m] \cup H]]
    BY <2>1 DEF CommitExtent
  <2> HIDE DEF f, m, H
  <2>5. QED
    BY <2>2, <2>3, <2>4 DEF Exclusive
<1>7. ASSUME NEW t \in Thread, CopyOut(t) PROVE Exclusive'
  BY <1>7 DEF CopyOut, ledger, held, table, locks, Exclusive
<1>8. ASSUME NEW t \in Thread, CopyFault(t) PROVE Exclusive'
  BY <1>8 DEF CopyFault, ledger, held, table, locks, Exclusive
<1>9. ASSUME NEW t \in Thread, FreeLockFile(t) PROVE Exclusive'
  BY <1>9 DEF FreeLockFile, ledger, held, table, locks, Exclusive
<1>10. ASSUME NEW t \in Thread, FreeValidate(t) PROVE Exclusive'
  BY <1>10 DEF FreeValidate, ledger, held, table, locks, Exclusive
<1>11. ASSUME NEW t \in Thread, Release(t) PROVE Exclusive'
  <2>1. PICK e \in ext[t] : ReleaseExtent(t, e) /\ ext' = [ext EXCEPT ![t] = @ \ {e}]
    BY <1>11 DEF Release
  <2> DEFINE f == cfd[t]
             m == cmem[t]
             H == Hugepages(e)
  <2>2. /\ f \in Fd /\ m \in Region /\ e \in Extent
        /\ H \subseteq hugepages[f][m]
    BY <1>11, <2>1 DEF Release, Checked, Pinned, InIoctl, Named, FreePages
  <2>3. /\ bitmap' = [bitmap EXCEPT ![m] = bitmap[m] \ H]
        /\ hugepages' = [hugepages EXCEPT ![f] = [hugepages[f] EXCEPT ![m] = hugepages[f][m] \ H]]
    BY <2>1 DEF ReleaseExtent
  <2> HIDE DEF f, m, H
  <2>4. QED
    BY <2>2, <2>3 DEF Exclusive
<1>12. ASSUME NEW t \in Thread, Return(t) PROVE Exclusive'
  BY <1>12 DEF Return, ledger, held, table, locks, Exclusive
<1>13. ASSUME NEW t \in Thread, NEW f \in Fd, CloseCall(t, f) PROVE Exclusive'
  BY <1>13 DEF CloseCall, ledger, held, table, locks, Exclusive
<1>14. ASSUME NEW t \in Thread, CloseUnlist(t) PROVE Exclusive'
  BY <1>14 DEF CloseUnlist, ledger, held, table, locks, Exclusive
<1>15. ASSUME NEW t \in Thread, ReclaimLockFile(t) PROVE Exclusive'
  BY <1>15 DEF ReclaimLockFile, ledger, held, table, locks, Exclusive
<1>16. ASSUME NEW t \in Thread, Reclaim(t) PROVE Exclusive'
  <2> DEFINE f == cfd[t]
             m == cmem[t]
  <2>1. f \in Fd /\ m \in Region
    BY <1>16 DEF Reclaim, Pinned, InClose
  <2>2. /\ bitmap' = [bitmap EXCEPT ![m] = bitmap[m] \ hugepages[f][m]]
        /\ hugepages' = [hugepages EXCEPT ![f] = [hugepages[f] EXCEPT ![m] = {}]]
    BY <1>16 DEF Reclaim
  <2> HIDE DEF f, m
  <2>3. QED
    BY <2>1, <2>2 DEF Exclusive
<1>17. ASSUME NEW t \in Thread, FreeStruct(t) PROVE Exclusive'
  BY <1>17 DEF FreeStruct, ledger, held, table, locks, Exclusive
<1>18. ASSUME NEW t \in Thread, ProcCall(t) PROVE Exclusive'
  BY <1>18 DEF ProcCall, ledger, held, table, locks, Exclusive
<1>19. ASSUME NEW t \in Thread, ProcReadLedger(t) PROVE Exclusive'
  BY <1>19 DEF ProcReadLedger, ledger, held, table, locks, Exclusive
<1>20. ASSUME NEW t \in Thread, ProcLockFiles(t) PROVE Exclusive'
  BY <1>20 DEF ProcLockFiles, ledger, held, table, locks, Exclusive
<1>21. ASSUME NEW t \in Thread, NEW f \in Fd, ProcVisit(t, f) PROVE Exclusive'
  BY <1>21 DEF ProcVisit, ledger, held, table, locks, Exclusive
<1>22. ASSUME NEW t \in Thread, ProcDone(t) PROVE Exclusive'
  BY <1>22 DEF ProcDone, ledger, held, table, locks, Exclusive
<1>23. CASE UNCHANGED vars
  BY <1>23 DEF vars, ledger, held, table, locks, locals, Exclusive
<1>24. QED
  BY <1>1, <1>2, <1>3, <1>4, <1>5, <1>6, <1>7, <1>8, <1>9, <1>10, <1>11, <1>12, <1>13, <1>14, <1>15, <1>16, <1>17, <1>18, <1>19, <1>20, <1>21, <1>22, <1>23
     DEF Next, Enter, FreeCalls, Step, IInv

(* Every step that changes a bitmap changes its counter by as much.         *)
LEMMA CountersStep == IInv /\ [Next]_vars => CountersExact'
<1> SUFFICES ASSUME IInv, [Next]_vars PROVE CountersExact'
  OBVIOUS
<1> USE ThreadAssumption, RegionAssumption DEF IInv, TypeOK
<1>1. ASSUME NEW f \in Fd, Open(f) PROVE CountersExact'
  BY <1>1 DEF Open, ledger, held, CountersExact
<1>2. ASSUME NEW t \in Thread, NEW f \in Fd, NEW m \in Region, NEW req \in AllocRequests,
             AllocCall(t, f, m, req)
      PROVE CountersExact'
  BY <1>2 DEF AllocCall, ledger, held, table, locks, CountersExact
<1>3. ASSUME NEW t \in Thread, NEW f \in Fd, NEW m \in Region, NEW E \in FreeRequests, NamesEachOnce(E),
             FreeCall(t, f, m, E)
      PROVE CountersExact'
  BY <1>3 DEF FreeCall, ledger, held, table, locks, CountersExact
<1>4. ASSUME NEW t \in Thread, AllocLockFile(t) PROVE CountersExact'
  BY <1>4 DEF AllocLockFile, ledger, held, table, locks, CountersExact
<1>5. ASSUME NEW t \in Thread, AllocDecide(t) PROVE CountersExact'
  BY <1>5 DEF AllocDecide, ledger, held, table, locks, CountersExact
<1>6. ASSUME NEW t \in Thread, Commit(t) PROVE CountersExact'
  <2>1. PICK e \in ext[t] : CommitExtent(t, e) /\ ext' = [ext EXCEPT ![t] = @ \ {e}]
    BY <1>6 DEF Commit
  <2> DEFINE f == cfd[t]
             m == cmem[t]
             H == Hugepages(e)
  <2>2. /\ f \in Fd /\ m \in Region /\ e \in Extent
        /\ H \subseteq FreePages(m)
    BY <1>6, <2>1 DEF Commit, Checked, Pinned, InIoctl, Named, FreePages
  <2>3. /\ IsFiniteSet(bitmap[m]) /\ IsFiniteSet(hugepages[f][m])
        /\ hugepages[f][m] \subseteq bitmap[m]
    BY <2>2, PagesFinite DEF Exclusive
  <2>4. /\ Cardinality(bitmap[m] \cup H) = Cardinality(bitmap[m]) + e.run
        /\ Cardinality(hugepages[f][m] \cup H) = Cardinality(hugepages[f][m]) + e.run
    BY ZenonT(60), <2>2, <2>3, AddRun DEF FreePages
  <2>5. /\ Cardinality(bitmap[m]) \in Nat /\ Cardinality(hugepages[f][m]) \in Nat /\ e.run \in Nat
        /\ NrHugepages[m] \in Nat
    BY <2>2, <2>3, FS_CardinalityType DEF Extent
  <2>6. /\ bitmap' = [bitmap EXCEPT ![m] = bitmap[m] \cup H]
        /\ hugepages' = [hugepages EXCEPT ![f] = [hugepages[f] EXCEPT ![m] = hugepages[f][m] \cup H]]
        /\ nr_free' = [nr_free EXCEPT ![m] = nr_free[m] - e.run]
        /\ nr_held' = [nr_held EXCEPT ![f] = [nr_held[f] EXCEPT ![m] = nr_held[f][m] + e.run]]
    BY <2>1 DEF CommitExtent
  <2> HIDE DEF f, m, H
  <2>7. \A n \in Region : nr_free'[n] = NrHugepages[n] - Cardinality(bitmap'[n])
    BY <2>2, <2>4, <2>5, <2>6 DEF CountersExact
  <2>8. \A g \in Fd, n \in Region : nr_held'[g][n] = Cardinality(hugepages'[g][n])
    BY <2>2, <2>4, <2>5, <2>6 DEF CountersExact
  <2>9. QED
    BY <2>7, <2>8 DEF CountersExact
<1>7. ASSUME NEW t \in Thread, CopyOut(t) PROVE CountersExact'
  BY <1>7 DEF CopyOut, ledger, held, table, locks, CountersExact
<1>8. ASSUME NEW t \in Thread, CopyFault(t) PROVE CountersExact'
  BY <1>8 DEF CopyFault, ledger, held, table, locks, CountersExact
<1>9. ASSUME NEW t \in Thread, FreeLockFile(t) PROVE CountersExact'
  BY <1>9 DEF FreeLockFile, ledger, held, table, locks, CountersExact
<1>10. ASSUME NEW t \in Thread, FreeValidate(t) PROVE CountersExact'
  BY <1>10 DEF FreeValidate, ledger, held, table, locks, CountersExact
<1>11. ASSUME NEW t \in Thread, Release(t) PROVE CountersExact'
  <2>1. PICK e \in ext[t] : ReleaseExtent(t, e) /\ ext' = [ext EXCEPT ![t] = @ \ {e}]
    BY <1>11 DEF Release
  <2> DEFINE f == cfd[t]
             m == cmem[t]
             H == Hugepages(e)
  <2>2. /\ f \in Fd /\ m \in Region /\ e \in Extent
        /\ H \subseteq hugepages[f][m]
    BY <1>11, <2>1 DEF Release, Checked, Pinned, InIoctl, Named, FreePages
  <2>3. /\ IsFiniteSet(bitmap[m]) /\ IsFiniteSet(hugepages[f][m])
        /\ hugepages[f][m] \subseteq bitmap[m]
    BY <2>2, PagesFinite DEF Exclusive
  <2>4. /\ Cardinality(bitmap[m] \ H) = Cardinality(bitmap[m]) - e.run
        /\ Cardinality(hugepages[f][m] \ H) = Cardinality(hugepages[f][m]) - e.run
    BY <2>2, <2>3, RemoveRun DEF FreePages
  <2>5. /\ Cardinality(bitmap[m]) \in Nat /\ Cardinality(hugepages[f][m]) \in Nat /\ e.run \in Nat
        /\ NrHugepages[m] \in Nat
    BY <2>2, <2>3, FS_CardinalityType DEF Extent
  <2>6. /\ bitmap' = [bitmap EXCEPT ![m] = bitmap[m] \ H]
        /\ hugepages' = [hugepages EXCEPT ![f] = [hugepages[f] EXCEPT ![m] = hugepages[f][m] \ H]]
        /\ nr_free' = [nr_free EXCEPT ![m] = nr_free[m] + e.run]
        /\ nr_held' = [nr_held EXCEPT ![f] = [nr_held[f] EXCEPT ![m] = nr_held[f][m] - e.run]]
    BY <2>1 DEF ReleaseExtent
  <2> HIDE DEF f, m, H
  <2>7. \A n \in Region : nr_free'[n] = NrHugepages[n] - Cardinality(bitmap'[n])
    BY <2>2, <2>4, <2>5, <2>6 DEF CountersExact
  <2>8. \A g \in Fd, n \in Region : nr_held'[g][n] = Cardinality(hugepages'[g][n])
    BY <2>2, <2>4, <2>5, <2>6 DEF CountersExact
  <2>9. QED
    BY <2>7, <2>8 DEF CountersExact
<1>12. ASSUME NEW t \in Thread, Return(t) PROVE CountersExact'
  BY <1>12 DEF Return, ledger, held, table, locks, CountersExact
<1>13. ASSUME NEW t \in Thread, NEW f \in Fd, CloseCall(t, f) PROVE CountersExact'
  BY <1>13 DEF CloseCall, ledger, held, table, locks, CountersExact
<1>14. ASSUME NEW t \in Thread, CloseUnlist(t) PROVE CountersExact'
  BY <1>14 DEF CloseUnlist, ledger, held, table, locks, CountersExact
<1>15. ASSUME NEW t \in Thread, ReclaimLockFile(t) PROVE CountersExact'
  BY <1>15 DEF ReclaimLockFile, ledger, held, table, locks, CountersExact
<1>16. ASSUME NEW t \in Thread, Reclaim(t) PROVE CountersExact'
  <2> DEFINE f == cfd[t]
             m == cmem[t]
             H == hugepages[f][m]
  <2>1. f \in Fd /\ m \in Region
    BY <1>16 DEF Reclaim, Pinned, InClose
  <2>2. IsFiniteSet(bitmap[m]) /\ H \subseteq bitmap[m]
    BY <2>1, PagesFinite DEF Exclusive
  <2>3. /\ IsFiniteSet(H)
        /\ Cardinality(bitmap[m] \ H) = Cardinality(bitmap[m]) - Cardinality(H)
    <3>1. bitmap[m] \cap H = H
      BY <2>2
    <3>2. IsFiniteSet(H)
      BY <2>2, FS_Subset
    <3>3. Cardinality(bitmap[m] \ H) = Cardinality(bitmap[m]) - Cardinality(bitmap[m] \cap H)
      BY <2>2, FS_Difference
    <3>4. QED
      BY <3>1, <3>2, <3>3
  <2>4. Cardinality(H) \in Nat /\ Cardinality(bitmap[m]) \in Nat /\ NrHugepages[m] \in Nat
    BY <2>1, <2>2, <2>3, FS_CardinalityType
  <2>5. /\ bitmap' = [bitmap EXCEPT ![m] = bitmap[m] \ H]
        /\ hugepages' = [hugepages EXCEPT ![f] = [hugepages[f] EXCEPT ![m] = {}]]
        /\ nr_free' = [nr_free EXCEPT ![m] = nr_free[m] + Cardinality(H)]
        /\ nr_held' = [nr_held EXCEPT ![f] = [nr_held[f] EXCEPT ![m] = nr_held[f][m] - Cardinality(H)]]
    BY <1>16 DEF Reclaim
  <2>6. nr_held[f][m] = Cardinality(H)
    BY <2>1 DEF CountersExact
  <2> HIDE DEF f, m, H
  <2>7. ASSUME NEW n \in Region
        PROVE  nr_free'[n] = NrHugepages[n] - Cardinality(bitmap'[n])
    <3>1. CASE n = m
      BY <2>1, <2>3, <2>4, <2>5, <3>1 DEF CountersExact
    <3>2. CASE n # m
      BY <2>1, <2>5, <3>2 DEF CountersExact
    <3>3. QED
      BY <3>1, <3>2
  <2>8. \A g \in Fd, n \in Region : nr_held'[g][n] = Cardinality(hugepages'[g][n])
    BY <2>1, <2>4, <2>5, <2>6, FS_EmptySet DEF CountersExact
  <2>9. QED
    BY <2>7, <2>8 DEF CountersExact
<1>17. ASSUME NEW t \in Thread, FreeStruct(t) PROVE CountersExact'
  <2>1. /\ UNCHANGED <<bitmap, nr_free, hugepages>> /\ cfd[t] \in Fd
        /\ nr_held' = [nr_held EXCEPT ![cfd[t]] = [m \in Region |-> 0]]
        /\ \A m \in Region : hugepages[cfd[t]][m] = {}
    BY <1>17 DEF FreeStruct, ledger, Pinned, InClose, Emptied
  <2>2. QED
    BY <2>1, FS_EmptySet DEF CountersExact
<1>18. ASSUME NEW t \in Thread, ProcCall(t) PROVE CountersExact'
  BY <1>18 DEF ProcCall, ledger, held, table, locks, CountersExact
<1>19. ASSUME NEW t \in Thread, ProcReadLedger(t) PROVE CountersExact'
  BY <1>19 DEF ProcReadLedger, ledger, held, table, locks, CountersExact
<1>20. ASSUME NEW t \in Thread, ProcLockFiles(t) PROVE CountersExact'
  BY <1>20 DEF ProcLockFiles, ledger, held, table, locks, CountersExact
<1>21. ASSUME NEW t \in Thread, NEW f \in Fd, ProcVisit(t, f) PROVE CountersExact'
  BY <1>21 DEF ProcVisit, ledger, held, table, locks, CountersExact
<1>22. ASSUME NEW t \in Thread, ProcDone(t) PROVE CountersExact'
  BY <1>22 DEF ProcDone, ledger, held, table, locks, CountersExact
<1>23. CASE UNCHANGED vars
  BY <1>23 DEF vars, ledger, held, table, locks, locals, CountersExact
<1>24. QED
  BY <1>1, <1>2, <1>3, <1>4, <1>5, <1>6, <1>7, <1>8, <1>9, <1>10, <1>11, <1>12, <1>13, <1>14, <1>15, <1>16, <1>17, <1>18, <1>19, <1>20, <1>21, <1>22, <1>23
     DEF Next, Enter, FreeCalls, Step, IInv

(* Reclaim empties both regions of a file before its struct is freed.       *)
LEMMA EmptiedStep == IInv /\ [Next]_vars => Emptied'
<1> SUFFICES ASSUME IInv, [Next]_vars PROVE Emptied'
  OBVIOUS
<1> USE ThreadAssumption DEF IInv, TypeOK, Pinned
<1>1. ASSUME NEW f \in Fd, Open(f) PROVE Emptied'
  BY <1>1 DEF Open, held, locals, Emptied, ClosedHoldsNothing
<1>2. ASSUME NEW t \in Thread, NEW f \in Fd, NEW m \in Region, NEW req \in AllocRequests,
             AllocCall(t, f, m, req)
      PROVE Emptied'
  BY <1>2 DEF AllocCall, Emptied, ClosedHoldsNothing, InIoctl, InClose, Goto, Leave, Answer, ledger, held, table, locks
<1>3. ASSUME NEW t \in Thread, NEW f \in Fd, NEW m \in Region, NEW E \in FreeRequests, NamesEachOnce(E),
             FreeCall(t, f, m, E)
      PROVE Emptied'
  BY <1>3 DEF FreeCall, Emptied, ClosedHoldsNothing, InIoctl, InClose, Goto, Leave, Answer, ledger, held, table, locks
<1>4. ASSUME NEW t \in Thread, AllocLockFile(t) PROVE Emptied'
  BY <1>4 DEF AllocLockFile, Emptied, ClosedHoldsNothing, InIoctl, InClose, Goto, Leave, Answer, ledger, held, table, locks
<1>5. ASSUME NEW t \in Thread, AllocDecide(t) PROVE Emptied'
  <2>1. ASSUME NEW ret \in {"ENOMEM", "ENOSPC", "disagree"}, NEW nex \in Nat, AllocRefused(t, ret, nex)
        PROVE  Emptied'
    BY <1>5, <2>1 DEF AllocRefused, AllocDecide, Emptied, ClosedHoldsNothing, InIoctl, InClose, Goto, Leave, Answer, ledger, held, table, locks
  <2>2. ASSUME NEW E \in SUBSET Extent, AllocTaken(t, E), Named(E) \subseteq FreePages(cmem[t]),
               NamesEachOnce(E)
        PROVE  Emptied'
    BY <1>5, <2>2 DEF AllocTaken, AllocDecide, Emptied, ClosedHoldsNothing, InIoctl, InClose, Goto, Leave, Answer, ledger, held, table, locks
  <2>3. \/ \E ret \in {"ENOMEM", "ENOSPC", "disagree"}, nex \in Nat : AllocRefused(t, ret, nex)
        \/ \E E \in SUBSET Extent : /\ AllocTaken(t, E)
                                    /\ Named(E) \subseteq FreePages(cmem[t])
                                    /\ NamesEachOnce(E)
    BY <1>5, AllocOutcome DEF TypeOK
  <2>4. QED
    BY <2>1, <2>2, <2>3
<1>6. ASSUME NEW t \in Thread, Commit(t) PROVE Emptied'
  <2>1. PICK e \in ext[t] : CommitExtent(t, e)
    BY <1>6 DEF Commit
  <2>2. /\ \A g \in Fd, m \in Region : g # cfd[t] => hugepages'[g][m] = hugepages[g][m]
        /\ cfd[t] \in Fd /\ fstate[cfd[t]] = "open"
        /\ \A u \in Thread : pc[u] \in InClose => cfd[u] # cfd[t] /\ cfd[u] \in Fd
    BY <1>6, <2>1 DEF Commit, CommitExtent, InIoctl, InClose
  <2>3. /\ pc'[t] \in {"commit", "copyout"} /\ \A u \in Thread : u # t => pc'[u] = pc[u]
        /\ UNCHANGED <<fstate, cfd, cmem>>
    BY <1>6 DEF Commit, Goto, table
  <2>4. ClosedHoldsNothing'
    <3>1. ASSUME NEW g \in Fd, NEW m \in Region, fstate'[g] = "closed" PROVE hugepages'[g][m] = {}
      BY <2>2, <2>3, <3>1 DEF Emptied, ClosedHoldsNothing
    <3>2. QED
      BY <3>1 DEF ClosedHoldsNothing
  <2>5. ASSUME NEW u \in Thread
        PROVE  /\ pc'[u] \in {"idle", "unlist", "reclaim_file"} => cmem'[u] = "dram"
               /\ pc'[u] = "reclaim" /\ cmem'[u] = "gpr" => hugepages'[cfd'[u]]["dram"] = {}
               /\ pc'[u] = "free_struct" => \A m \in Region : hugepages'[cfd'[u]][m] = {}
    <3>1. CASE u = t
      BY <2>3, <3>1
    <3>2. CASE u # t
      BY <2>2, <2>3, <3>2 DEF Emptied, InClose, Region
    <3>3. QED
      BY <3>1, <3>2
  <2>6. QED
    BY <2>4, <2>5 DEF Emptied
<1>7. ASSUME NEW t \in Thread, CopyOut(t) PROVE Emptied'
  BY <1>7 DEF CopyOut, Emptied, ClosedHoldsNothing, InIoctl, InClose, Goto, Leave, Answer, ledger, held, table, locks
<1>8. ASSUME NEW t \in Thread, CopyFault(t) PROVE Emptied'
  BY <1>8 DEF CopyFault, Emptied, ClosedHoldsNothing, InIoctl, InClose, Goto, Leave, Answer, ledger, held, table, locks
<1>9. ASSUME NEW t \in Thread, FreeLockFile(t) PROVE Emptied'
  BY <1>9 DEF FreeLockFile, Emptied, ClosedHoldsNothing, InIoctl, InClose, Goto, Leave, Answer, ledger, held, table, locks
<1>10. ASSUME NEW t \in Thread, FreeValidate(t) PROVE Emptied'
  BY <1>10 DEF FreeValidate, Emptied, ClosedHoldsNothing, InIoctl, InClose, Goto, Leave, Answer, ledger, held, table, locks
<1>11. ASSUME NEW t \in Thread, Release(t) PROVE Emptied'
  <2>1. PICK e \in ext[t] : ReleaseExtent(t, e)
    BY <1>11 DEF Release
  <2>2. /\ \A g \in Fd, m \in Region : g # cfd[t] => hugepages'[g][m] = hugepages[g][m]
        /\ cfd[t] \in Fd /\ fstate[cfd[t]] = "open"
        /\ \A u \in Thread : pc[u] \in InClose => cfd[u] # cfd[t] /\ cfd[u] \in Fd
    BY <1>11, <2>1 DEF Release, ReleaseExtent, InIoctl, InClose
  <2>3. /\ pc'[t] \in {"release", "reply"} /\ \A u \in Thread : u # t => pc'[u] = pc[u]
        /\ UNCHANGED <<fstate, cfd, cmem>>
    BY <1>11 DEF Release, Goto, table
  <2>4. ClosedHoldsNothing'
    <3>1. ASSUME NEW g \in Fd, NEW m \in Region, fstate'[g] = "closed" PROVE hugepages'[g][m] = {}
      BY <2>2, <2>3, <3>1 DEF Emptied, ClosedHoldsNothing
    <3>2. QED
      BY <3>1 DEF ClosedHoldsNothing
  <2>5. ASSUME NEW u \in Thread
        PROVE  /\ pc'[u] \in {"idle", "unlist", "reclaim_file"} => cmem'[u] = "dram"
               /\ pc'[u] = "reclaim" /\ cmem'[u] = "gpr" => hugepages'[cfd'[u]]["dram"] = {}
               /\ pc'[u] = "free_struct" => \A m \in Region : hugepages'[cfd'[u]][m] = {}
    <3>1. CASE u = t
      BY <2>3, <3>1
    <3>2. CASE u # t
      BY <2>2, <2>3, <3>2 DEF Emptied, InClose, Region
    <3>3. QED
      BY <3>1, <3>2
  <2>6. QED
    BY <2>4, <2>5 DEF Emptied
<1>12. ASSUME NEW t \in Thread, Return(t) PROVE Emptied'
  BY <1>12 DEF Return, Emptied, ClosedHoldsNothing, InIoctl, InClose, Goto, Leave, Answer, ledger, held, table, locks
<1>13. ASSUME NEW t \in Thread, NEW f \in Fd, CloseCall(t, f) PROVE Emptied'
  BY <1>13 DEF CloseCall, Emptied, ClosedHoldsNothing, InIoctl, InClose, Goto, Leave, Answer, ledger, held, table, locks
<1>14. ASSUME NEW t \in Thread, CloseUnlist(t) PROVE Emptied'
  BY <1>14 DEF CloseUnlist, Emptied, ClosedHoldsNothing, InIoctl, InClose, Goto, Leave, Answer, ledger, held, table, locks
<1>15. ASSUME NEW t \in Thread, ReclaimLockFile(t) PROVE Emptied'
  BY <1>15 DEF ReclaimLockFile, Emptied, ClosedHoldsNothing, InIoctl, InClose, Goto, Leave, Answer, ledger, held, table, locks
<1>16. ASSUME NEW t \in Thread, Reclaim(t) PROVE Emptied'
  <2>1. /\ cfd[t] \in Fd /\ cmem[t] \in Region /\ fstate[cfd[t]] = "closing"
        /\ \A u \in Thread : u # t => cfd[u] # cfd[t]
        /\ \A u \in Thread : pc[u] \in InClose => cfd[u] \in Fd
    BY <1>16 DEF Reclaim, InClose
  <2>2. /\ hugepages'[cfd[t]][cmem[t]] = {}
        /\ \A g \in Fd, n \in Region : g # cfd[t] \/ n # cmem[t] => hugepages'[g][n] = hugepages[g][n]
    BY <1>16, <2>1 DEF Reclaim
  <2>3. /\ UNCHANGED <<fstate, cfd>>
        /\ \A u \in Thread : u # t => pc'[u] = pc[u] /\ cmem'[u] = cmem[u]
        /\ \/ cmem[t] = "dram" /\ cmem'[t] = "gpr" /\ pc'[t] = "reclaim"
           \/ cmem[t] = "gpr" /\ cmem'[t] = "gpr" /\ pc'[t] = "free_struct"
    BY <1>16, <2>1 DEF Reclaim, NextRegion, Region, Goto, table
  <2>4. pc[t] = "reclaim"
    BY <1>16 DEF Reclaim
  <2>5. ClosedHoldsNothing'
    <3>1. ASSUME NEW g \in Fd, NEW n \in Region, fstate'[g] = "closed" PROVE hugepages'[g][n] = {}
      BY ZenonT(60), <2>1, <2>2, <2>3, <3>1 DEF Emptied, ClosedHoldsNothing
    <3>2. QED
      BY <3>1 DEF ClosedHoldsNothing
  <2>6. ASSUME NEW u \in Thread
        PROVE  /\ pc'[u] \in {"idle", "unlist", "reclaim_file"} => cmem'[u] = "dram"
               /\ pc'[u] = "reclaim" /\ cmem'[u] = "gpr" => hugepages'[cfd'[u]]["dram"] = {}
               /\ pc'[u] = "free_struct" => \A m \in Region : hugepages'[cfd'[u]][m] = {}
    <3>1. CASE u = t
      BY <2>1, <2>2, <2>3, <2>4, <3>1 DEF Emptied, Region
    <3>2. CASE u # t
      BY <2>1, <2>2, <2>3, <3>2 DEF Emptied, InClose, Region
    <3>3. QED
      BY <3>1, <3>2
  <2>7. QED
    BY <2>5, <2>6 DEF Emptied
<1>17. ASSUME NEW t \in Thread, FreeStruct(t) PROVE Emptied'
  BY <1>17 DEF FreeStruct, Emptied, ClosedHoldsNothing, InIoctl, InClose, Goto, Leave, Answer, ledger, held, table, locks
<1>18. ASSUME NEW t \in Thread, ProcCall(t) PROVE Emptied'
  BY <1>18 DEF ProcCall, Emptied, ClosedHoldsNothing, InIoctl, InClose, Goto, Leave, Answer, ledger, held, table, locks
<1>19. ASSUME NEW t \in Thread, ProcReadLedger(t) PROVE Emptied'
  <2>1. /\ pc[t] = "proc_led" /\ pc'[t] \in {"proc_led", "proc_files"}
        /\ \A u \in Thread : u # t => pc'[u] = pc[u] /\ cmem'[u] = cmem[u]
        /\ UNCHANGED <<fstate, hugepages, cfd>>
    BY <1>19 DEF ProcReadLedger, Goto, held, table
  <2>2. QED
    BY <2>1 DEF Emptied, ClosedHoldsNothing, InClose
<1>20. ASSUME NEW t \in Thread, ProcLockFiles(t) PROVE Emptied'
  BY <1>20 DEF ProcLockFiles, Emptied, ClosedHoldsNothing, InIoctl, InClose, Goto, Leave, Answer, ledger, held, table, locks
<1>21. ASSUME NEW t \in Thread, NEW f \in Fd, ProcVisit(t, f) PROVE Emptied'
  BY <1>21 DEF ProcVisit, Emptied, ClosedHoldsNothing, InIoctl, InClose, Goto, Leave, Answer, ledger, held, table, locks
<1>22. ASSUME NEW t \in Thread, ProcDone(t) PROVE Emptied'
  BY <1>22 DEF ProcDone, Emptied, ClosedHoldsNothing, InIoctl, InClose, Goto, Leave, Answer, ledger, held, table, locks
<1>23. CASE UNCHANGED vars
  BY <1>23 DEF vars, ledger, held, table, locks, locals, Emptied, ClosedHoldsNothing, InIoctl, InClose, Goto, Leave, Answer, ledger, held, table, locks
<1>24. QED
  BY <1>1, <1>2, <1>3, <1>4, <1>5, <1>6, <1>7, <1>8, <1>9, <1>10, <1>11, <1>12, <1>13, <1>14, <1>15, <1>16, <1>17, <1>18, <1>19, <1>20, <1>21, <1>22, <1>23
     DEF Next, Enter, FreeCalls, Step, IInv

(* The owner table follows the bitmaps through commit, release and reclaim. *)
LEMMA LabelsStep == IInv /\ [Next]_vars => Labels'
<1> SUFFICES ASSUME IInv, [Next]_vars PROVE Labels'
  OBVIOUS
<1> USE SlotAssumption DEF IInv, TypeOK
<1>1. ASSUME NEW f \in Fd, Open(f) PROVE Labels'
  <2>1. /\ slot' = [slot EXCEPT ![f] = slot'[f]] /\ slot'[f] # 0
        /\ fstate' = [fstate EXCEPT ![f] = "open"] /\ fstate[f] = "closed"
        /\ UNCHANGED <<owner, bitmap, hugepages>>
    BY <1>1 DEF Open, ledger, held
  <2>2. \A m \in Region : hugepages[f][m] = {}
    BY <2>1 DEF Emptied, ClosedHoldsNothing
  <2>3. \A g \in Fd : g # f => slot'[g] = slot[g] /\ fstate'[g] = fstate[g]
    BY <2>1
  <2>4. QED
    BY <2>1, <2>2, <2>3 DEF Labels, OwnerLabels
<1>2. ASSUME NEW t \in Thread, NEW f \in Fd, NEW m \in Region, NEW req \in AllocRequests,
             AllocCall(t, f, m, req)
      PROVE Labels'
  BY <1>2 DEF AllocCall, Labels, OwnerLabels, ledger, held, table, locks
<1>3. ASSUME NEW t \in Thread, NEW f \in Fd, NEW m \in Region, NEW E \in FreeRequests, NamesEachOnce(E),
             FreeCall(t, f, m, E)
      PROVE Labels'
  BY <1>3 DEF FreeCall, Labels, OwnerLabels, ledger, held, table, locks
<1>4. ASSUME NEW t \in Thread, AllocLockFile(t) PROVE Labels'
  BY <1>4 DEF AllocLockFile, Labels, OwnerLabels, ledger, held, table, locks
<1>5. ASSUME NEW t \in Thread, AllocDecide(t) PROVE Labels'
  BY <1>5 DEF AllocDecide, Labels, OwnerLabels, ledger, held, table, locks
<1>6. ASSUME NEW t \in Thread, Commit(t) PROVE Labels'
  <2>1. PICK e \in ext[t] : CommitExtent(t, e)
    BY <1>6 DEF Commit
  <2> DEFINE f == cfd[t]
             m == cmem[t]
             H == Hugepages(e)
  <2>2. /\ f \in Fd /\ m \in Region /\ slot[f] # 0 /\ slot[f] \in 0 .. SlotMod
        /\ H \subseteq FreePages(m)
    BY <1>6, <2>1 DEF Commit, Labels, Checked, Pinned, InIoctl, Named, FreePages
  <2>3. /\ bitmap' = [bitmap EXCEPT ![m] = bitmap[m] \cup H]
        /\ hugepages' = [hugepages EXCEPT ![f] = [hugepages[f] EXCEPT ![m] = hugepages[f][m] \cup H]]
        /\ owner' = [owner EXCEPT ![m] = [p \in Pages(m) |-> IF p \in H THEN slot[f] ELSE owner[m][p]]]
        /\ UNCHANGED <<slot, fstate>>
    BY <1>6, <2>1 DEF Commit, CommitExtent, table
  <2> HIDE DEF f, m, H
  <2>4. ASSUME NEW k \in Region, NEW p \in Pages(k)
        PROVE  /\ p \notin bitmap'[k] => owner'[k][p] = 0
               /\ \A g \in Fd : p \in hugepages'[g][k] => owner'[k][p] = slot'[g] /\ slot'[g] # 0
    <3>1. CASE k = m /\ p \in H
      BY <2>2, <2>3, <3>1 DEF Labels, OwnerLabels, Exclusive, FreePages
    <3>2. CASE k = m /\ p \notin H
      BY <2>2, <2>3, <3>2 DEF Labels, OwnerLabels
    <3>3. CASE k # m
      BY <2>2, <2>3, <3>3 DEF Labels, OwnerLabels
    <3>4. QED
      BY <3>1, <3>2, <3>3
  <2>5. QED
    BY <2>3, <2>4 DEF Labels, OwnerLabels
<1>7. ASSUME NEW t \in Thread, CopyOut(t) PROVE Labels'
  BY <1>7 DEF CopyOut, Labels, OwnerLabels, ledger, held, table, locks
<1>8. ASSUME NEW t \in Thread, CopyFault(t) PROVE Labels'
  BY <1>8 DEF CopyFault, Labels, OwnerLabels, ledger, held, table, locks
<1>9. ASSUME NEW t \in Thread, FreeLockFile(t) PROVE Labels'
  BY <1>9 DEF FreeLockFile, Labels, OwnerLabels, ledger, held, table, locks
<1>10. ASSUME NEW t \in Thread, FreeValidate(t) PROVE Labels'
  BY <1>10 DEF FreeValidate, Labels, OwnerLabels, ledger, held, table, locks
<1>11. ASSUME NEW t \in Thread, Release(t) PROVE Labels'
  <2>1. PICK e \in ext[t] : ReleaseExtent(t, e)
    BY <1>11 DEF Release
  <2> DEFINE f == cfd[t]
             m == cmem[t]
             H == Hugepages(e)
  <2>2. /\ f \in Fd /\ m \in Region /\ slot[f] # 0 /\ slot[f] \in 0 .. SlotMod
        /\ H \subseteq hugepages[f][m]
    BY <1>11, <2>1 DEF Release, Labels, Checked, Pinned, InIoctl, Named, FreePages
  <2>3. /\ bitmap' = [bitmap EXCEPT ![m] = bitmap[m] \ H]
        /\ hugepages' = [hugepages EXCEPT ![f] = [hugepages[f] EXCEPT ![m] = hugepages[f][m] \ H]]
        /\ owner' = [owner EXCEPT ![m] = [p \in Pages(m) |-> IF p \in H THEN 0 ELSE owner[m][p]]]
        /\ UNCHANGED <<slot, fstate>>
    BY <1>11, <2>1 DEF Release, ReleaseExtent, table
  <2> HIDE DEF f, m, H
  <2>4. ASSUME NEW k \in Region, NEW p \in Pages(k)
        PROVE  /\ p \notin bitmap'[k] => owner'[k][p] = 0
               /\ \A g \in Fd : p \in hugepages'[g][k] => owner'[k][p] = slot'[g] /\ slot'[g] # 0
    <3>1. CASE k = m /\ p \in H
      BY <2>2, <2>3, <3>1 DEF Labels, OwnerLabels, Exclusive, FreePages
    <3>2. CASE k = m /\ p \notin H
      BY <2>2, <2>3, <3>2 DEF Labels, OwnerLabels
    <3>3. CASE k # m
      BY <2>2, <2>3, <3>3 DEF Labels, OwnerLabels
    <3>4. QED
      BY <3>1, <3>2, <3>3
  <2>5. QED
    BY <2>3, <2>4 DEF Labels, OwnerLabels
<1>12. ASSUME NEW t \in Thread, Return(t) PROVE Labels'
  BY <1>12 DEF Return, Labels, OwnerLabels, ledger, held, table, locks
<1>13. ASSUME NEW t \in Thread, NEW f \in Fd, CloseCall(t, f) PROVE Labels'
  BY <1>13 DEF CloseCall, Labels, OwnerLabels, ledger, held, table, locks
<1>14. ASSUME NEW t \in Thread, CloseUnlist(t) PROVE Labels'
  BY <1>14 DEF CloseUnlist, Labels, OwnerLabels, ledger, held, table, locks
<1>15. ASSUME NEW t \in Thread, ReclaimLockFile(t) PROVE Labels'
  BY <1>15 DEF ReclaimLockFile, Labels, OwnerLabels, ledger, held, table, locks
<1>16. ASSUME NEW t \in Thread, Reclaim(t) PROVE Labels'
  <2> DEFINE f == cfd[t]
             m == cmem[t]
             H == hugepages[f][m]
  <2>1. f \in Fd /\ m \in Region
    BY <1>16 DEF Reclaim, Pinned, InClose
  <2>2. /\ bitmap' = [bitmap EXCEPT ![m] = bitmap[m] \ H]
        /\ hugepages' = [hugepages EXCEPT ![f] = [hugepages[f] EXCEPT ![m] = {}]]
        /\ owner' = [owner EXCEPT ![m] = [p \in Pages(m) |-> IF p \in H THEN 0 ELSE owner[m][p]]]
        /\ UNCHANGED <<slot, fstate>>
    BY <1>16 DEF Reclaim, RelabelFree, table
  <2>3. \A g \in Fd : g # f => hugepages[g][m] \cap H = {}
    BY <2>1 DEF Exclusive
  <2> HIDE DEF f, m, H
  <2>4. ASSUME NEW k \in Region, NEW p \in Pages(k)
        PROVE  /\ p \notin bitmap'[k] => owner'[k][p] = 0
               /\ \A g \in Fd : p \in hugepages'[g][k] => owner'[k][p] = slot'[g] /\ slot'[g] # 0
    <3>1. CASE k = m /\ p \in H
      BY <2>1, <2>2, <2>3, <3>1 DEF Labels, OwnerLabels
    <3>2. CASE k = m /\ p \notin H
      BY <2>1, <2>2, <3>2 DEF Labels, OwnerLabels
    <3>3. CASE k # m
      BY <2>1, <2>2, <3>3 DEF Labels, OwnerLabels
    <3>4. QED
      BY <3>1, <3>2, <3>3
  <2>5. QED
    BY <2>2, <2>4 DEF Labels, OwnerLabels
<1>17. ASSUME NEW t \in Thread, FreeStruct(t) PROVE Labels'
  <2>1. /\ \A g \in Fd : g # cfd[t] => slot'[g] = slot[g] /\ fstate'[g] = fstate[g]
        /\ fstate'[cfd[t]] = "closed" /\ cfd[t] \in Fd
        /\ \A m \in Region : hugepages[cfd[t]][m] = {}
        /\ UNCHANGED <<owner, bitmap, hugepages>>
    BY <1>17 DEF FreeStruct, ledger, Pinned, InClose, Emptied
  <2>2. QED
    BY ZenonT(60), <2>1 DEF Labels, OwnerLabels
<1>18. ASSUME NEW t \in Thread, ProcCall(t) PROVE Labels'
  BY <1>18 DEF ProcCall, Labels, OwnerLabels, ledger, held, table, locks
<1>19. ASSUME NEW t \in Thread, ProcReadLedger(t) PROVE Labels'
  BY <1>19 DEF ProcReadLedger, Labels, OwnerLabels, ledger, held, table, locks
<1>20. ASSUME NEW t \in Thread, ProcLockFiles(t) PROVE Labels'
  BY <1>20 DEF ProcLockFiles, Labels, OwnerLabels, ledger, held, table, locks
<1>21. ASSUME NEW t \in Thread, NEW f \in Fd, ProcVisit(t, f) PROVE Labels'
  BY <1>21 DEF ProcVisit, Labels, OwnerLabels, ledger, held, table, locks
<1>22. ASSUME NEW t \in Thread, ProcDone(t) PROVE Labels'
  BY <1>22 DEF ProcDone, Labels, OwnerLabels, ledger, held, table, locks
<1>23. CASE UNCHANGED vars
  BY <1>23 DEF vars, ledger, held, table, locks, locals, Labels, OwnerLabels, ledger, held, table, locks
<1>24. QED
  BY <1>1, <1>2, <1>3, <1>4, <1>5, <1>6, <1>7, <1>8, <1>9, <1>10, <1>11, <1>12, <1>13, <1>14, <1>15, <1>16, <1>17, <1>18, <1>19, <1>20, <1>21, <1>22, <1>23
     DEF Next, Enter, FreeCalls, Step, IInv

(* A file leaves the list before it is torn down, and never under a walk.   *)
LEMMA ListedStep == IInv /\ [Next]_vars => Listed'
<1> SUFFICES ASSUME IInv, [Next]_vars PROVE Listed'
  OBVIOUS
<1> USE ThreadAssumption DEF IInv, TypeOK
<1>1. ASSUME NEW f \in Fd, Open(f) PROVE Listed'
  BY <1>1 DEF Open, locals, locks, Listed, PastUnlist, Pinned, InIoctl, InClose
<1>2. ASSUME NEW t \in Thread, NEW f \in Fd, NEW m \in Region, NEW req \in AllocRequests,
             AllocCall(t, f, m, req)
      PROVE Listed'
  BY <1>2 DEF AllocCall, Listed, Goto, Leave, Answer, table, locks, PastUnlist
<1>3. ASSUME NEW t \in Thread, NEW f \in Fd, NEW m \in Region, NEW E \in FreeRequests, NamesEachOnce(E),
             FreeCall(t, f, m, E)
      PROVE Listed'
  BY <1>3 DEF FreeCall, Listed, Goto, Leave, Answer, table, locks, PastUnlist
<1>4. ASSUME NEW t \in Thread, AllocLockFile(t) PROVE Listed'
  BY <1>4 DEF AllocLockFile, Listed, Goto, Leave, Answer, table, locks, PastUnlist
<1>5. ASSUME NEW t \in Thread, AllocDecide(t) PROVE Listed'
  <2>1. ASSUME NEW ret \in {"ENOMEM", "ENOSPC", "disagree"}, NEW nex \in Nat, AllocRefused(t, ret, nex)
        PROVE  Listed'
    BY <1>5, <2>1 DEF AllocRefused, AllocDecide, Listed, Goto, Leave, Answer, table, locks, PastUnlist, InIoctl, InClose, Unlock
  <2>2. ASSUME NEW E \in SUBSET Extent, AllocTaken(t, E), Named(E) \subseteq FreePages(cmem[t]),
               NamesEachOnce(E)
        PROVE  Listed'
    BY <1>5, <2>2 DEF AllocTaken, AllocDecide, Listed, Goto, Leave, Answer, table, locks, PastUnlist, InIoctl, InClose, Unlock
  <2>3. \/ \E ret \in {"ENOMEM", "ENOSPC", "disagree"}, nex \in Nat : AllocRefused(t, ret, nex)
        \/ \E E \in SUBSET Extent : /\ AllocTaken(t, E)
                                    /\ Named(E) \subseteq FreePages(cmem[t])
                                    /\ NamesEachOnce(E)
    BY <1>5, AllocOutcome DEF TypeOK
  <2>4. QED
    BY <2>1, <2>2, <2>3
<1>6. ASSUME NEW t \in Thread, Commit(t) PROVE Listed'
  <2>1. /\ pc[t] = "commit" /\ pc'[t] \in {"commit", "copyout"} /\ \A u \in Thread : u # t => pc'[u] = pc[u]
        /\ UNCHANGED <<fstate, files, files_lock, cfd, walk>>
    BY <1>6 DEF Commit, Goto, Answer, table, locks
  <2>2. QED
    BY <2>1 DEF Listed, PastUnlist
<1>7. ASSUME NEW t \in Thread, CopyOut(t) PROVE Listed'
  BY <1>7 DEF CopyOut, Listed, Goto, Leave, Answer, table, locks, PastUnlist
<1>8. ASSUME NEW t \in Thread, CopyFault(t) PROVE Listed'
  BY <1>8 DEF CopyFault, Listed, Goto, Leave, Answer, table, locks, PastUnlist
<1>9. ASSUME NEW t \in Thread, FreeLockFile(t) PROVE Listed'
  BY <1>9 DEF FreeLockFile, Listed, Goto, Leave, Answer, table, locks, PastUnlist
<1>10. ASSUME NEW t \in Thread, FreeValidate(t) PROVE Listed'
  <2>1. /\ pc[t] = "free_led" /\ pc'[t] \in {"release", "reply"} /\ \A u \in Thread : u # t => pc'[u] = pc[u]
        /\ UNCHANGED <<fstate, files, files_lock, cfd, walk>>
    BY <1>10 DEF FreeValidate, Goto, Answer, table, locks
  <2>2. QED
    BY <2>1 DEF Listed, PastUnlist
<1>11. ASSUME NEW t \in Thread, Release(t) PROVE Listed'
  <2>1. /\ pc[t] = "release" /\ pc'[t] \in {"release", "reply"} /\ \A u \in Thread : u # t => pc'[u] = pc[u]
        /\ UNCHANGED <<fstate, files, files_lock, cfd, walk>>
    BY <1>11 DEF Release, Goto, Answer, table, locks
  <2>2. QED
    BY <2>1 DEF Listed, PastUnlist
<1>12. ASSUME NEW t \in Thread, Return(t) PROVE Listed'
  BY <1>12 DEF Return, Listed, Goto, Leave, Answer, table, locks, PastUnlist
<1>13. ASSUME NEW t \in Thread, NEW f \in Fd, CloseCall(t, f) PROVE Listed'
  BY <1>13 DEF CloseCall, Goto, locks, Listed, PastUnlist, Pinned, InIoctl, InClose
<1>14. ASSUME NEW t \in Thread, CloseUnlist(t) PROVE Listed'
  BY <1>14 DEF CloseUnlist, Listed, Goto, Leave, Answer, table, locks, PastUnlist
<1>15. ASSUME NEW t \in Thread, ReclaimLockFile(t) PROVE Listed'
  BY <1>15 DEF ReclaimLockFile, Listed, Goto, Leave, Answer, table, locks, PastUnlist
<1>16. ASSUME NEW t \in Thread, Reclaim(t) PROVE Listed'
  BY <1>16 DEF Reclaim, Listed, Goto, Leave, Answer, table, locks, PastUnlist
<1>17. ASSUME NEW t \in Thread, FreeStruct(t) PROVE Listed'
  <2>1. /\ cfd[t] \in Fd /\ cfd[t] \notin files /\ pc[t] = "free_struct" /\ pc'[t] = "idle"
        /\ \A g \in Fd : g # cfd[t] => fstate'[g] = fstate[g]
        /\ \A u \in Thread : u # t => pc'[u] = pc[u] /\ cfd'[u] = cfd[u] /\ walk'[u] = walk[u]
        /\ walk'[t] = {} /\ UNCHANGED <<files, files_lock>>
    BY <1>17 DEF FreeStruct, Leave, Goto, locks, Pinned, InClose, Listed, PastUnlist
  <2>2. QED
    BY ZenonT(60), <2>1 DEF Listed, PastUnlist
<1>18. ASSUME NEW t \in Thread, ProcCall(t) PROVE Listed'
  BY <1>18 DEF ProcCall, Listed, Goto, Leave, Answer, table, locks, PastUnlist
<1>19. ASSUME NEW t \in Thread, ProcReadLedger(t) PROVE Listed'
  BY <1>19 DEF ProcReadLedger, Listed, Goto, Leave, Answer, table, locks, PastUnlist
<1>20. ASSUME NEW t \in Thread, ProcLockFiles(t) PROVE Listed'
  BY <1>20 DEF ProcLockFiles, Listed, Goto, Leave, Answer, table, locks, PastUnlist
<1>21. ASSUME NEW t \in Thread, NEW f \in Fd, ProcVisit(t, f) PROVE Listed'
  BY <1>21 DEF ProcVisit, Listed, Goto, Leave, Answer, table, locks, PastUnlist
<1>22. ASSUME NEW t \in Thread, ProcDone(t) PROVE Listed'
  BY <1>22 DEF ProcDone, Listed, Goto, Leave, Answer, table, locks, PastUnlist
<1>23. CASE UNCHANGED vars
  BY <1>23 DEF vars, ledger, held, table, locks, locals, Listed, Goto, Leave, Answer, table, locks, PastUnlist
<1>24. QED
  BY <1>1, <1>2, <1>3, <1>4, <1>5, <1>6, <1>7, <1>8, <1>9, <1>10, <1>11, <1>12, <1>13, <1>14, <1>15, <1>16, <1>17, <1>18, <1>19, <1>20, <1>21, <1>22, <1>23
     DEF Next, Enter, FreeCalls, Step, IInv

(* The refusals of AllocDecide: a disagreeing counter is impossible.        *)
LEMMA AnswersStep == IInv /\ [Next]_vars => Answers'
<1> SUFFICES ASSUME IInv, [Next]_vars PROVE Answers'
  OBVIOUS
<1> USE RegionAssumption DEF IInv, TypeOK
<1>1. ASSUME NEW f \in Fd, Open(f) PROVE Answers'
  BY <1>1 DEF Open, locals, Answers, NeverDisagrees, EnospcTellsCapacity
<1>2. ASSUME NEW t \in Thread, NEW f \in Fd, NEW m \in Region, NEW req \in AllocRequests,
             AllocCall(t, f, m, req)
      PROVE Answers'
  BY <1>2 DEF AllocCall, Answers, NeverDisagrees, EnospcTellsCapacity, Goto, Leave, Answer, NoReply, ledger, held, table, locks
<1>3. ASSUME NEW t \in Thread, NEW f \in Fd, NEW m \in Region, NEW E \in FreeRequests, NamesEachOnce(E),
             FreeCall(t, f, m, E)
      PROVE Answers'
  BY <1>3 DEF FreeCall, Answers, NeverDisagrees, EnospcTellsCapacity, Goto, Leave, Answer, NoReply, ledger, held, table, locks
<1>4. ASSUME NEW t \in Thread, AllocLockFile(t) PROVE Answers'
  BY <1>4 DEF AllocLockFile, Answers, NeverDisagrees, EnospcTellsCapacity, Goto, Leave, Answer, NoReply, ledger, held, table, locks
<1>5. ASSUME NEW t \in Thread, AllocDecide(t) PROVE Answers'
  <2> DEFINE m == cmem[t]
             n == creq[t].n
             cap == creq[t].cap
  <2>1. m \in Region /\ n \in Nat \ {0} /\ cap \in Nat \ {0} /\ NrHugepages[m] \in Nat
        /\ FreePages(m) \subseteq Pages(m) /\ bitmap[m] \subseteq Pages(m) /\ Pages(m) \subseteq Nat
    BY DEF Request, FreePages, Pages
  <2>2. Cardinality(FreePages(m)) = nr_free[m]
    <3>1. IsFiniteSet(Pages(m)) /\ Cardinality(Pages(m)) = NrHugepages[m]
      BY <2>1, PagesFinite
    <3>2. Pages(m) \cap bitmap[m] = bitmap[m] /\ Cardinality(bitmap[m]) \in Nat
      BY <2>1, PagesFinite
    <3>3. Cardinality(Pages(m) \ bitmap[m]) = Cardinality(Pages(m)) - Cardinality(Pages(m) \cap bitmap[m])
      BY <3>1, FS_Difference
    <3>4. QED
      BY <2>1, <3>1, <3>2, <3>3 DEF FreePages, CountersExact
  <2>3. \A S \in SUBSET FreePages(m) :
          Cardinality(Runs(S)) \in Nat /\ Cardinality(Runs(S)) <= Cardinality(S)
    BY <2>1, RunsSound, PagesFinite
  <2>4. ASSUME NEW ret \in {"ENOMEM", "ENOSPC", "disagree"}, NEW nex \in Nat, AllocRefused(t, ret, nex),
               ret # "disagree", ret = "ENOSPC" /\ ~creq[t].contig => cap < nex /\ nex <= n
        PROVE  Answers'
    BY <1>5, <2>4 DEF AllocRefused, AllocDecide, Answers, NeverDisagrees, EnospcTellsCapacity, Goto, Answer
  <2>5. ASSUME NEW E, AllocTaken(t, E) PROVE Answers'
    BY <1>5, <2>5 DEF AllocTaken, AllocDecide, Answers, NeverDisagrees, EnospcTellsCapacity, Goto
  <2>6. \/ AllocRefused(t, "ENOMEM", 0)
        \/ creq[t].contig /\ AllocRefused(t, "ENOSPC", 0)
        \/ nr_free[m] >= n /\ Cardinality(FreePages(m)) < n
        \/ \E S \in Lowest(m, n) : NeedsMore(S, cap) /\ AllocRefused(t, "ENOSPC", Cardinality(Runs(S)))
        \/ \E E : AllocTaken(t, E)
    BY <1>5, Zenon DEF AllocDecide
  <2>7. ASSUME NEW S \in Lowest(m, n), NeedsMore(S, cap),
               AllocRefused(t, "ENOSPC", Cardinality(Runs(S)))
        PROVE  Answers'
    <3>1. Cardinality(S) = n /\ S \in SUBSET FreePages(m)
      BY <2>7 DEF Lowest
    <3>2. cap < Cardinality(Runs(S)) /\ Cardinality(Runs(S)) <= n /\ Cardinality(Runs(S)) \in Nat
      BY <2>1, <2>3, <2>7, <3>1 DEF NeedsMore
    <3>3. QED
      BY <2>4, <2>7, <3>2
  <2>8. ~(nr_free[m] >= n /\ Cardinality(FreePages(m)) < n)
    BY <2>1, <2>2
  <2>9. QED
    BY <2>4, <2>5, <2>6, <2>7, <2>8
<1>6. ASSUME NEW t \in Thread, Commit(t) PROVE Answers'
  <2>1. UNCHANGED <<reply, creq>> /\ \A u \in Thread : u # t => pc'[u] = pc[u]
    BY <1>6 DEF Commit, Goto
  <2>2. pc[t] = "commit" /\ pc'[t] # "reply"
    BY <1>6 DEF Commit, Goto
  <2>3. QED
    BY <2>1, <2>2 DEF Answers, NeverDisagrees, EnospcTellsCapacity
<1>7. ASSUME NEW t \in Thread, CopyOut(t) PROVE Answers'
  BY <1>7 DEF CopyOut, Answers, NeverDisagrees, EnospcTellsCapacity, Goto, Leave, Answer, NoReply, ledger, held, table, locks
<1>8. ASSUME NEW t \in Thread, CopyFault(t) PROVE Answers'
  BY <1>8 DEF CopyFault, Answers, NeverDisagrees, EnospcTellsCapacity, Goto, Leave, Answer, NoReply, ledger, held, table, locks
<1>9. ASSUME NEW t \in Thread, FreeLockFile(t) PROVE Answers'
  BY <1>9 DEF FreeLockFile, Answers, NeverDisagrees, EnospcTellsCapacity, Goto, Leave, Answer, NoReply, ledger, held, table, locks
<1>10. ASSUME NEW t \in Thread, FreeValidate(t) PROVE Answers'
  <2>1. UNCHANGED creq /\ \A u \in Thread : u # t => pc'[u] = pc[u] /\ reply'[u] = reply[u]
    BY <1>10 DEF FreeValidate, Goto, Answer
  <2>2. pc[t] = "free_led" /\ reply[t].ret = "none"
    BY <1>10 DEF FreeValidate, Answers
  <2>3. \/ pc'[t] = "reply" /\ reply'[t].ret \notin {"disagree", "ENOSPC"}
        \/ pc'[t] # "reply" /\ reply'[t] = reply[t]
    <3>1. CASE MayFree(ext[t], cfd[t], cmem[t])
      BY <1>10, <3>1 DEF FreeValidate, Goto
    <3>2. CASE ~MayFree(ext[t], cfd[t], cmem[t])
      <4>1. \E ret \in {"EFAULT", "EPERM", "EINVAL"} : Answer(t, ret, 0)
        BY <1>10, <3>2 DEF FreeValidate, FreeError
      <4>2. QED
        BY <4>1 DEF Answer, Goto
    <3>3. QED
      BY <3>1, <3>2
  <2>4. ASSUME NEW u \in Thread
        PROVE  /\ reply'[u].ret # "disagree"
               /\ reply'[u].ret = "ENOSPC" /\ ~creq[u].contig =>
                    creq[u].cap < reply'[u].nex /\ reply'[u].nex <= creq[u].n
               /\ pc'[u] # "reply" => reply'[u].ret = "none"
    <3>1. CASE u = t
      BY <2>2, <2>3, <3>1
    <3>2. CASE u # t
      BY <2>1, <3>2 DEF Answers, NeverDisagrees, EnospcTellsCapacity
    <3>3. QED
      BY <3>1, <3>2
  <2>5. QED
    BY <2>1, <2>4 DEF Answers, NeverDisagrees, EnospcTellsCapacity
<1>11. ASSUME NEW t \in Thread, Release(t) PROVE Answers'
  <2>1. UNCHANGED creq /\ \A u \in Thread : u # t => pc'[u] = pc[u] /\ reply'[u] = reply[u]
    BY <1>11 DEF Release, Goto, Answer
  <2>2. pc[t] = "release" /\ reply[t].ret = "none"
    BY <1>11 DEF Release, Answers
  <2>3. \/ pc'[t] = "reply" /\ reply'[t].ret \notin {"disagree", "ENOSPC"}
        \/ pc'[t] # "reply" /\ reply'[t] = reply[t]
    BY <1>11 DEF Release, Goto
  <2>4. ASSUME NEW u \in Thread
        PROVE  /\ reply'[u].ret # "disagree"
               /\ reply'[u].ret = "ENOSPC" /\ ~creq[u].contig =>
                    creq[u].cap < reply'[u].nex /\ reply'[u].nex <= creq[u].n
               /\ pc'[u] # "reply" => reply'[u].ret = "none"
    <3>1. CASE u = t
      BY <2>2, <2>3, <3>1
    <3>2. CASE u # t
      BY <2>1, <3>2 DEF Answers, NeverDisagrees, EnospcTellsCapacity
    <3>3. QED
      BY <3>1, <3>2
  <2>5. QED
    BY <2>1, <2>4 DEF Answers, NeverDisagrees, EnospcTellsCapacity
<1>12. ASSUME NEW t \in Thread, Return(t) PROVE Answers'
  BY <1>12 DEF Return, Answers, NeverDisagrees, EnospcTellsCapacity, Goto, Leave, Answer, NoReply, ledger, held, table, locks
<1>13. ASSUME NEW t \in Thread, NEW f \in Fd, CloseCall(t, f) PROVE Answers'
  BY <1>13 DEF CloseCall, Answers, NeverDisagrees, EnospcTellsCapacity, Goto, Leave, Answer, NoReply, ledger, held, table, locks
<1>14. ASSUME NEW t \in Thread, CloseUnlist(t) PROVE Answers'
  BY <1>14 DEF CloseUnlist, Answers, NeverDisagrees, EnospcTellsCapacity, Goto, Leave, Answer, NoReply, ledger, held, table, locks
<1>15. ASSUME NEW t \in Thread, ReclaimLockFile(t) PROVE Answers'
  BY <1>15 DEF ReclaimLockFile, Answers, NeverDisagrees, EnospcTellsCapacity, Goto, Leave, Answer, NoReply, ledger, held, table, locks
<1>16. ASSUME NEW t \in Thread, Reclaim(t) PROVE Answers'
  BY <1>16 DEF Reclaim, Answers, NeverDisagrees, EnospcTellsCapacity, Goto, Leave, Answer, NoReply, ledger, held, table, locks
<1>17. ASSUME NEW t \in Thread, FreeStruct(t) PROVE Answers'
  BY <1>17 DEF FreeStruct, Answers, NeverDisagrees, EnospcTellsCapacity, Goto, Leave, Answer, NoReply, ledger, held, table, locks
<1>18. ASSUME NEW t \in Thread, ProcCall(t) PROVE Answers'
  BY <1>18 DEF ProcCall, Answers, NeverDisagrees, EnospcTellsCapacity, Goto, Leave, Answer, NoReply, ledger, held, table, locks
<1>19. ASSUME NEW t \in Thread, ProcReadLedger(t) PROVE Answers'
  BY <1>19 DEF ProcReadLedger, Answers, NeverDisagrees, EnospcTellsCapacity, Goto, Leave, Answer, NoReply, ledger, held, table, locks
<1>20. ASSUME NEW t \in Thread, ProcLockFiles(t) PROVE Answers'
  BY <1>20 DEF ProcLockFiles, Answers, NeverDisagrees, EnospcTellsCapacity, Goto, Leave, Answer, NoReply, ledger, held, table, locks
<1>21. ASSUME NEW t \in Thread, NEW f \in Fd, ProcVisit(t, f) PROVE Answers'
  BY <1>21 DEF ProcVisit, Answers, NeverDisagrees, EnospcTellsCapacity, Goto, Leave, Answer, NoReply, ledger, held, table, locks
<1>22. ASSUME NEW t \in Thread, ProcDone(t) PROVE Answers'
  BY <1>22 DEF ProcDone, Answers, NeverDisagrees, EnospcTellsCapacity, Goto, Leave, Answer, NoReply, ledger, held, table, locks
<1>23. CASE UNCHANGED vars
  BY <1>23 DEF vars, ledger, held, table, locks, locals, Answers, NeverDisagrees, EnospcTellsCapacity, Goto, Leave, Answer, NoReply, ledger, held, table, locks
<1>24. QED
  BY <1>1, <1>2, <1>3, <1>4, <1>5, <1>6, <1>7, <1>8, <1>9, <1>10, <1>11, <1>12, <1>13, <1>14, <1>15, <1>16, <1>17, <1>18, <1>19, <1>20, <1>21, <1>22, <1>23
     DEF Next, Enter, FreeCalls, Step, IInv

------------------------------------------------------------------------------
(* A thread that takes no step keeps its place and its extents.             *)
Aside(u) == UNCHANGED <<pc[u], cfd[u], cmem[u], ext[u], out[u]>>

(* The steps of one thread leave the others where they are.                 *)
LEMMA StepAside ==
  ASSUME TypeOK, NEW t \in Thread,
         \/ Step(t)
         \/ \E f \in Fd, m \in Region, req \in AllocRequests : AllocCall(t, f, m, req)
         \/ \E f \in Fd, m \in Region, E \in FreeRequests : FreeCall(t, f, m, E)
         \/ \E f \in Fd : CloseCall(t, f)
         \/ ProcCall(t)
  PROVE  \A u \in Thread : u # t => Aside(u)
<1> SUFFICES ASSUME NEW u \in Thread, u # t PROVE Aside(u)
  OBVIOUS
<1> USE DEF Goto, Leave, Answer, Aside, TypeOK
<1>1. ASSUME AllocDecide(t) PROVE Aside(u)
  <2>1. UNCHANGED <<cfd, cmem>>
    BY <1>1 DEF AllocDecide
  <2>2. \/ \E ret \in {"ENOMEM", "ENOSPC", "disagree"}, nex \in Nat : AllocRefused(t, ret, nex)
        \/ \E E \in SUBSET Extent : AllocTaken(t, E)
    BY <1>1, AllocOutcome
  <2>3. QED
    BY <2>1, <2>2 DEF AllocRefused, AllocTaken
<1>2. ASSUME AllocLockFile(t) \/ CopyOut(t) \/ CopyFault(t) PROVE Aside(u)
  BY <1>2 DEF AllocLockFile, CopyOut, CopyFault
<1>3. ASSUME Commit(t) \/ FreeLockFile(t) \/ Release(t) \/ Return(t) PROVE Aside(u)
  BY <1>3 DEF Commit, FreeLockFile, FreeValidate, Release, Return
<1>4. ASSUME FreeValidate(t) PROVE Aside(u)
  BY <1>4 DEF FreeValidate
<1>5. ASSUME CloseUnlist(t) \/ ReclaimLockFile(t) PROVE Aside(u)
  BY <1>5 DEF CloseUnlist, ReclaimLockFile
<1>6. ASSUME Reclaim(t) \/ FreeStruct(t) PROVE Aside(u)
  BY <1>6 DEF Reclaim, FreeStruct
<1>7. ASSUME ProcReadLedger(t) \/ ProcLockFiles(t) PROVE Aside(u)
  BY <1>7 DEF ProcReadLedger, ProcLockFiles
<1>8. ASSUME NEW f \in Fd, ProcVisit(t, f) PROVE Aside(u)
  BY <1>8 DEF ProcVisit
<1>9. ASSUME ProcDone(t) PROVE Aside(u)
  BY <1>9 DEF ProcDone
<1>10. ASSUME NEW f \in Fd, NEW m \in Region, NEW req \in AllocRequests, AllocCall(t, f, m, req)
      PROVE  Aside(u)
  BY <1>10 DEF AllocCall
<1>11. ASSUME NEW f \in Fd, NEW m \in Region, NEW E \in FreeRequests, FreeCall(t, f, m, E)
      PROVE  Aside(u)
  BY <1>11 DEF FreeCall
<1>12. ASSUME NEW f \in Fd, CloseCall(t, f) PROVE Aside(u)
  BY <1>12 DEF CloseCall
<1>13. ASSUME ProcCall(t) PROVE Aside(u)
  BY <1>13 DEF ProcCall
<1>14. QED
  BY <1>1, <1>2, <1>3, <1>4, <1>5, <1>6, <1>7, <1>8, <1>9, <1>10, <1>11, <1>12, <1>13 DEF Step
------------------------------------------------------------------------------
(* The invariant is inductive.                                              *)
LEMMA Inductive == Spec => []IInv
<1>1. IInv /\ [Next]_vars => IInv'
  BY TypeStep, LockedStep, PinnedStep, CheckedStep, ExclusiveStep, CountersStep, EmptiedStep,
     LabelsStep, ListedStep, AnswersStep DEF IInv
<1>2. QED
  BY InitIInv, <1>1, PTL DEF Spec

(* Every variable keeps a value of its type, the labels within 15 bits.     *)
THEOREM TypeCorrect == Spec => []TypeOK
<1>1. IInv => TypeOK
  BY DEF IInv
<1>2. QED
  BY <1>1, Inductive, PTL

(* No hugepage is ever owned by two files, and the ledger's bitmap marks    *)
(* exactly the owned ones, whatever calls interleave (pim_chunk.c:38-64).   *)
THEOREM ExclusiveOwnership == Spec => []Exclusive
<1>1. IInv => Exclusive
  BY DEF IInv
<1>2. QED
  BY <1>1, Inductive, PTL

(* nr_free and nr_held are exact counts of the bitmaps, so they never wrap  *)
(* and the -ENOMEM test of pim_chunk.c:96 is exact; from callers that name  *)
(* a hugepage at most once in one FREE.                                     *)
THEOREM ExactCounters == Spec => []CountersExact
<1>1. IInv => CountersExact
  BY DEF IInv
<1>2. QED
  BY <1>1, Inductive, PTL

(* The "ledger and counter disagree" branch of pim_chunk.c:145 is dead.     *)
THEOREM LedgerAgrees == Spec => []NeverDisagrees
<1>1. IInv => NeverDisagrees
  BY DEF IInv, Answers
<1>2. QED
  BY <1>1, Inductive, PTL

(* An -ENOSPC reports a capacity the caller did not offer and can retry     *)
(* with (pim_chunk.c:153-156, pim_ioctl.h:143-145).                         *)
THEOREM EnospcIsHonest == Spec => []EnospcTellsCapacity
<1>1. IInv => EnospcTellsCapacity
  BY DEF IInv, Answers
<1>2. QED
  BY <1>1, Inductive, PTL

(* A file is freed only after reclaim emptied it (pim_chunk.c:224-248).     *)
THEOREM NoLeakOnClose == Spec => []ClosedHoldsNothing
<1>1. IInv => ClosedHoldsNothing
  BY DEF IInv, Emptied
<1>2. QED
  BY <1>1, Inductive, PTL

(* The owner table names each hugepage's owner (pim_chunk.c:45,60).         *)
THEOREM LabelsRight == Spec => []OwnerLabels
<1>1. IInv => OwnerLabels
  BY DEF IInv, Labels
<1>2. QED
  BY <1>1, Inductive, PTL

(* /proc/pim never visits a freed struct pim_file (pim_main.c:251-267).     *)
THEOREM ProcIsSafe == Spec => []ProcSeesLiveFiles
<1>1. IInv => ProcSeesLiveFiles
  BY DEF IInv, Listed, TypeOK, ProcSeesLiveFiles
<1>2. QED
  BY <1>1, Inductive, PTL

(* No deadlock over the mutexes.  A thread with a ledger lock waits for     *)
(* nobody; one with f->lock waits at most for a ledger lock; the one with   *)
(* pim_files_lock waits at most for an f->lock (pim_main.c:248-250).        *)
THEOREM LocksOrdered == Spec => []NoLockCycle
<1>1. ASSUME IInv, NEW S \in SUBSET Thread, \A t \in S : WaitsFor(t) \cap S # {}
      PROVE  S = {}
  <2> USE ThreadAssumption DEF IInv
  <2>1. \A t \in S : pc[t] \notin {"commit", "release"}
    BY <1>1 DEF WaitsFor
  <2>2. ASSUME NEW t \in S PROVE pc[t] \notin {"alloc_led", "free_led", "reclaim", "proc_led"}
    <3>1. PICK u \in S : u \in WaitsFor(t)
      BY <1>1
    <3>2. u \in Thread /\ t \in Thread /\ cmem[t] \in Region /\ llock[cmem[t]] # u
      BY <1>1, <2>1 DEF Locked, HoldsLedger, TypeOK
    <3>3. QED
      BY <3>1, <3>2 DEF WaitsFor
  <2>3. \A t \in S, f \in Fd : flock[f] # t
    BY <1>1, <2>1, <2>2 DEF Locked, HoldsFile
  <2>4. ASSUME NEW t \in S PROVE pc[t] \notin {"alloc_file", "free_file", "reclaim_file", "proc_walk"}
    <3>1. PICK u \in S : u \in WaitsFor(t)
      BY <1>1
    <3>2. t \in Thread /\ (pc[t] \in InIoctl \cup InClose => cfd[t] \in Fd) /\ walk[t] \subseteq Fd
      BY <1>1 DEF Pinned, TypeOK
    <3>3. QED
      BY <2>2, <2>3, <3>1, <3>2 DEF WaitsFor, InIoctl, InClose
  <2>5. \A t \in S : files_lock # t
    BY <1>1, <2>4 DEF Listed
  <2>6. \A t \in S : WaitsFor(t) \cap S = {}
    BY <1>1, <2>1, <2>2, <2>4, <2>5 DEF WaitsFor
  <2>7. QED
    BY <1>1, <2>6
<1>2. IInv => NoLockCycle
  BY <1>1 DEF NoLockCycle
<1>3. QED
  BY <1>2, Inductive, PTL

------------------------------------------------------------------------------
(***************************************************************************)
(* The driver implements PimOwnership: every step of PimLedger, seen       *)
(* through Owned, is one whole Take or Give, the birth or the end of a     *)
(* file, or nothing at all.                                                *)
(***************************************************************************)

(* What the abstract specification sees of the driver.                      *)
OwnedNow == [f \in Fd |-> [m \in Region |-> Owned(f, m)]]
AliveNow == {f \in Fd : fstate[f] # "closed"}
Promise == Ownership!Next \/ UNCHANGED <<OwnedNow, AliveNow>>

(* The extents of a thread that commits or releases for one fd and region.  *)
Staged(label, t, f, m) == IF pc[t] = label /\ cfd[t] = f /\ cmem[t] = m THEN Named(ext[t]) ELSE {}

PendingIsStaged ==
  \A label \in {"commit", "release"}, f \in Fd, m \in Region :
    Pending(label, f, m) = UNION {Staged(label, t, f, m) : t \in Thread}

(* What is pending is what each thread has staged, in every state.          *)
LEMMA StagedNow == PendingIsStaged
<1> SUFFICES ASSUME NEW label \in {"commit", "release"}, NEW f \in Fd, NEW m \in Region, NEW p
             PROVE  p \in Pending(label, f, m) <=> \E t \in Thread : p \in Staged(label, t, f, m)
  BY DEF PendingIsStaged
<1> DEFINE A == {u \in Thread : pc[u] = label /\ cfd[u] = f /\ cmem[u] = m}
<1>1. Pending(label, f, m) = UNION {Named(ext[t]) : t \in A}
  BY DEF Pending
<1>2. \A t \in Thread : p \in Staged(label, t, f, m) <=> t \in A /\ p \in Named(ext[t])
  BY DEF Staged
<1>3. A \subseteq Thread
  OBVIOUS
<1> HIDE DEF A
<1>4. QED
  BY <1>1, <1>2, <1>3

(* ... and so in the next one.                                              *)
LEMMA StagedNext == PendingIsStaged'
BY StagedNow, PTL

(* Under a region's mutex at most one call has anything staged there, so a  *)
(* file owns what it holds, but for that one call.                          *)
Untangled ==
  \A t \in Thread, f \in Fd, m \in Region :
    llock[m] \in {t, None} =>
      Owned(f, m) = (hugepages[f][m] \cup Staged("commit", t, f, m)) \ Staged("release", t, f, m)

(* The mutex invariant untangles the regions.                               *)
LEMMA UntangledNow == IInv => Untangled
<1> SUFFICES ASSUME IInv, NEW t \in Thread, NEW f \in Fd, NEW m \in Region, llock[m] \in {t, None}
             PROVE  Owned(f, m) = (hugepages[f][m] \cup Staged("commit", t, f, m))
                                    \ Staged("release", t, f, m)
  BY DEF Untangled
<1>1. \A u \in Thread : u # t => /\ Staged("commit", u, f, m) = {}
                                 /\ Staged("release", u, f, m) = {}
  BY ThreadAssumption DEF Staged, IInv, Locked, HoldsLedger
<1>2. (UNION {Staged("commit", u, f, m) : u \in Thread}) = Staged("commit", t, f, m)
  BY <1>1
<1>3. (UNION {Staged("release", u, f, m) : u \in Thread}) = Staged("release", t, f, m)
  BY <1>1
<1>4. QED
  BY <1>2, <1>3, StagedNow DEF PendingIsStaged, Owned

(* ... in the next state too.                                               *)
LEMMA UntangledNext == IInv' => Untangled'
BY UntangledNow, PTL

------------------------------------------------------------------------------
(* When no hugepage moves and no thread's staged extents change, nobody's   *)
(* ownership changes.                                                       *)
LEMMA OwnedKept ==
  ASSUME NEW f \in Fd, NEW m \in Region, hugepages'[f][m] = hugepages[f][m],
         \A label \in {"commit", "release"}, u \in Thread :
           Staged(label, u, f, m)' = Staged(label, u, f, m)
  PROVE  Owned(f, m)' = Owned(f, m)
<1>1. ASSUME NEW label \in {"commit", "release"}
      PROVE  Pending(label, f, m)' = Pending(label, f, m)
  <2>1. Pending(label, f, m)' = UNION {Staged(label, u, f, m)' : u \in Thread}
    BY StagedNext DEF PendingIsStaged
  <2>2. Pending(label, f, m) = UNION {Staged(label, u, f, m) : u \in Thread}
    BY StagedNow DEF PendingIsStaged
  <2>3. {Staged(label, u, f, m)' : u \in Thread} = {Staged(label, u, f, m) : u \in Thread}
    OBVIOUS
  <2>4. QED
    BY <2>1, <2>2, <2>3
<1>2. QED
  BY <1>1 DEF Owned

(* A thread that takes no step has staged what it had.                      *)
LEMMA AsideStaged ==
  ASSUME NEW u \in Thread, Aside(u), NEW label, NEW f \in Fd, NEW m \in Region
  PROVE  Staged(label, u, f, m)' = Staged(label, u, f, m)
BY DEF Aside, Staged

(* Steps outside the second passes change nobody's ownership.               *)
LEMMA Nothing ==
  ASSUME NEW t \in Thread, \A u \in Thread : u # t => Aside(u), UNCHANGED hugepages,
         pc[t] \notin {"commit", "release"}, pc'[t] \notin {"commit", "release"}
  PROVE  UNCHANGED OwnedNow
<1>1. ASSUME NEW label \in {"commit", "release"}, NEW u \in Thread, NEW f \in Fd, NEW m \in Region
      PROVE  Staged(label, u, f, m)' = Staged(label, u, f, m)
  <2>1. CASE u = t
    BY <2>1 DEF Staged
  <2>2. CASE u # t
    BY <2>2, AsideStaged
  <2>3. QED
    BY <2>1, <2>2
<1>2. \A f \in Fd, m \in Region : Owned(f, m)' = Owned(f, m)
  BY <1>1, OwnedKept
<1>3. QED
  BY <1>2 DEF OwnedNow

(* One file's ownership in one region changes, and nothing else.            *)
LEMMA OnePlace ==
  ASSUME NEW F \in Fd, NEW M \in Region, NEW X, Owned(F, M)' = X,
         \A f \in Fd, m \in Region : f # F \/ m # M => Owned(f, m)' = Owned(f, m)
  PROVE  OwnedNow' = [OwnedNow EXCEPT ![F][M] = X]
BY DEF OwnedNow

(* A step of t in the region M touches the ownership of other regions only  *)
(* if it moves their hugepages.                                             *)
LEMMA ElsewhereKept ==
  ASSUME NEW t \in Thread, \A u \in Thread : u # t => Aside(u), UNCHANGED <<cfd[t], cmem[t]>>,
         NEW f \in Fd, NEW m \in Region, m # cmem[t], hugepages'[f][m] = hugepages[f][m]
  PROVE  Owned(f, m)' = Owned(f, m)
<1>1. ASSUME NEW label \in {"commit", "release"}, NEW u \in Thread
      PROVE  Staged(label, u, f, m)' = Staged(label, u, f, m)
  <2>1. CASE u = t
    BY <2>1 DEF Staged
  <2>2. CASE u # t
    BY <2>2, AsideStaged
  <2>3. QED
    BY <2>1, <2>2
<1>2. QED
  BY <1>1, OwnedKept

(* What the abstract specification lets a file take.                        *)
LEMMA FreeToTake ==
  ASSUME NEW m \in Region
  PROVE  Ownership!Free(m) = Pages(m) \ UNION {Owned(f, m) : f \in Fd}
<1>1. Ownership!Free(m) = Pages(m) \ UNION {OwnedNow[f][m] : f \in Fd}
  BY DEF Ownership!Free, Pages, OwnedNow
<1>2. {OwnedNow[f][m] : f \in Fd} = {Owned(f, m) : f \in Fd}
  BY DEF OwnedNow
<1>3. QED
  BY <1>1, <1>2

------------------------------------------------------------------------------
(* An ALLOC that is decided is one Take of all its hugepages.               *)
LEMMA DecideTakes ==
  ASSUME IInv, IInv', NEW t \in Thread, AllocDecide(t)
  PROVE  Promise
<1>1. AllocDecide(t) /\ TypeOK
  BY DEF IInv
<1>2. PICK F \in Fd, M \in Region :
        /\ F = cfd[t] /\ M = cmem[t] /\ UNCHANGED <<hugepages, fstate, cfd, cmem>>
        /\ pc[t] = "alloc_led" /\ llock[M] = None /\ fstate[F] = "open"
  <2>1. UNCHANGED <<hugepages, fstate, cfd, cmem>> /\ pc[t] = "alloc_led" /\ llock[cmem[t]] = None
    BY <1>1 DEF AllocDecide, held, table
  <2>2. cfd[t] \in Fd /\ cmem[t] \in Region /\ fstate[cfd[t]] = "open"
    BY <1>1, <2>1 DEF IInv, Pinned, TypeOK, InIoctl
  <2>3. QED
    BY <2>1, <2>2
<1>3. \A u \in Thread : u # t => Aside(u)
  BY <1>1, StepAside DEF Step
<1>4. UNCHANGED AliveNow
  BY <1>2 DEF AliveNow
<1>5. CASE \E ret \in {"ENOMEM", "ENOSPC", "disagree"}, nex \in Nat : AllocRefused(t, ret, nex)
  <2>1. pc'[t] = "reply"
    BY <1>5 DEF AllocRefused, Answer, Goto, IInv, TypeOK
  <2>2. QED
    BY <1>2, <1>3, <1>4, <2>1, Nothing DEF Promise
<1>6. ASSUME NEW E \in SUBSET Extent, AllocTaken(t, E), Named(E) \subseteq FreePages(M)
      PROVE  Promise
  <2>1. pc'[t] = "commit" /\ ext'[t] = E /\ llock'[M] = t
    BY <1>2, <1>6 DEF AllocTaken, Goto, IInv, TypeOK
  <2>2. Untangled /\ Untangled'
    BY UntangledNow, UntangledNext
  <2>3. ASSUME NEW f \in Fd
        PROVE  /\ Owned(f, M) = hugepages[f][M]
               /\ Owned(f, M)' = hugepages[f][M] \cup (IF f = F THEN Named(E) ELSE {})
    <3>1. Staged("commit", t, f, M) = {} /\ Staged("release", t, f, M) = {}
      BY <1>2 DEF Staged
    <3>2. Staged("commit", t, f, M)' = (IF f = F THEN Named(E) ELSE {})
          /\ Staged("release", t, f, M)' = {}
      <4>1. cfd'[t] = F /\ cmem'[t] = M
        BY <1>2
      <4>2. QED
        BY <2>1, <4>1 DEF Staged
    <3>3. hugepages'[f][M] = hugepages[f][M]
      BY <1>2
    <3>4. Owned(f, M) = (hugepages[f][M] \cup Staged("commit", t, f, M)) \ Staged("release", t, f, M)
      BY <1>2, <2>2 DEF Untangled
    <3>5. Owned(f, M)' = (hugepages'[f][M] \cup Staged("commit", t, f, M)') \ Staged("release", t, f, M)'
      BY <1>2, <2>1, <2>2 DEF Untangled
    <3>6. QED
      BY <3>1, <3>2, <3>3, <3>4, <3>5
  <2>4. \A f \in Fd, m \in Region : f # F \/ m # M => Owned(f, m)' = Owned(f, m)
    <3>1. \A f \in Fd, m \in Region : m # M => Owned(f, m)' = Owned(f, m)
      BY <1>2, <1>3, ElsewhereKept
    <3>2. \A f \in Fd : f # F => Owned(f, M)' = Owned(f, M)
      BY <2>3
    <3>3. QED
      BY <3>1, <3>2
  <2>5. OwnedNow' = [OwnedNow EXCEPT ![F][M] = OwnedNow[F][M] \cup Named(E)]
    <3>1. Owned(F, M)' = OwnedNow[F][M] \cup Named(E)
      BY <1>2, <2>3 DEF OwnedNow
    <3>2. QED
      BY <2>4, <3>1, OnePlace
  <2>6. CASE Named(E) = {}
    <3>1. UNCHANGED OwnedNow
      BY <1>2, <2>5, <2>6 DEF OwnedNow
    <3>2. QED
      BY <1>4, <3>1 DEF Promise
  <2>7. CASE Named(E) # {}
    <3>1. Named(E) \in SUBSET Ownership!Free(M)
      <4>1. \A f \in Fd : Named(E) \cap Owned(f, M) = {}
        BY <1>2, <1>6, <2>3 DEF FreePages, IInv, Exclusive
      <4>2. Named(E) \subseteq Pages(M)
        BY <1>6 DEF FreePages
      <4>3. QED
        BY <4>1, <4>2, FreeToTake
    <3>2. Ownership!Take(F, M, Named(E))
      BY <1>2, <1>4, <2>5, <2>7 DEF Ownership!Take, OwnedNow, AliveNow
    <3>3. M \in Ownership!Regions
      BY <1>2, RegionAssumption DEF Ownership!Regions
    <3>4. QED
      BY <1>2, <3>1, <3>2, <3>3 DEF Promise, Ownership!Next
  <2>8. QED
    BY <2>6, <2>7
<1>7. QED
  BY <1>1, <1>2, <1>5, <1>6, AllocOutcome

(* A second pass under the ledger lock moves one extent from the staged     *)
(* ones to the held ones, or back: nobody's ownership changes meanwhile.    *)
LEMMA SecondPass ==
  ASSUME IInv, IInv', NEW t \in Thread, Commit(t) \/ Release(t)
  PROVE  UNCHANGED <<OwnedNow, AliveNow>>
<1>1. TypeOK /\ Step(t)
  BY DEF IInv, Step
<1>2. PICK F \in Fd, M \in Region, e \in ext[t] :
        /\ F = cfd[t] /\ M = cmem[t] /\ UNCHANGED <<fstate, cfd, cmem>>
        /\ pc[t] \in {"commit", "release"} /\ llock[M] = t
        /\ ext'[t] = ext[t] \ {e}
        /\ IF ext[t] = {e} THEN pc'[t] \notin {"commit", "release"} /\ llock'[M] = None
                           ELSE pc'[t] = pc[t] /\ llock'[M] = t
        /\ hugepages' = [hugepages EXCEPT ![F][M] = IF pc[t] = "commit" THEN @ \cup Hugepages(e)
                                                    ELSE @ \ Hugepages(e)]
  <2>1. /\ cfd[t] \in Fd /\ cmem[t] \in Region /\ llock[cmem[t]] = t
        /\ pc[t] \in {"commit", "release"} /\ UNCHANGED <<fstate, cfd, cmem>>
    BY DEF IInv, Commit, Release, Locked, HoldsLedger, Pinned, InIoctl, TypeOK, table
  <2>2. CASE Commit(t)
    <3>1. PICK e \in ext[t] :
            /\ CommitExtent(t, e) /\ ext' = [ext EXCEPT ![t] = @ \ {e}]
            /\ IF ext[t] = {e} THEN pc' = [pc EXCEPT ![t] = "copyout"]
                                   /\ llock' = [llock EXCEPT ![cmem[t]] = None]
                              ELSE UNCHANGED <<pc, llock>>
      BY <2>2 DEF Commit, Goto
    <3>2. pc[t] = "commit"
      BY <2>2 DEF Commit
    <3>3. /\ ext'[t] = ext[t] \ {e}
          /\ IF ext[t] = {e} THEN pc'[t] \notin {"commit", "release"} /\ llock'[cmem[t]] = None
                             ELSE pc'[t] = pc[t] /\ llock'[cmem[t]] = t
      BY <1>1, <2>1, <3>1 DEF TypeOK
    <3>4. hugepages' = [hugepages EXCEPT ![cfd[t]][cmem[t]] = @ \cup Hugepages(e)]
      BY <3>1 DEF CommitExtent
    <3>5. QED
      BY <2>1, <3>2, <3>3, <3>4
  <2>3. CASE Release(t)
    <3>1. PICK e \in ext[t] :
            /\ ReleaseExtent(t, e) /\ ext' = [ext EXCEPT ![t] = @ \ {e}]
            /\ IF ext[t] = {e} THEN pc' = [pc EXCEPT ![t] = "reply"]
                                   /\ llock' = [llock EXCEPT ![cmem[t]] = None]
                              ELSE UNCHANGED <<pc, llock>>
      BY <2>3 DEF Release, Goto
    <3>2. pc[t] = "release"
      BY <2>3 DEF Release
    <3>3. /\ ext'[t] = ext[t] \ {e}
          /\ IF ext[t] = {e} THEN pc'[t] \notin {"commit", "release"} /\ llock'[cmem[t]] = None
                             ELSE pc'[t] = pc[t] /\ llock'[cmem[t]] = t
      BY <1>1, <2>1, <3>1 DEF TypeOK
    <3>4. hugepages' = [hugepages EXCEPT ![cfd[t]][cmem[t]] = @ \ Hugepages(e)]
      BY <3>1 DEF ReleaseExtent
    <3>5. QED
      BY <2>1, <3>2, <3>3, <3>4
  <2>4. QED
    BY <2>2, <2>3
<1> DEFINE H == Hugepages(e)
<1>3. \A u \in Thread : u # t => Aside(u)
  BY <1>1, StepAside
<1>4. Untangled /\ Untangled'
  BY UntangledNow, UntangledNext
<1>5. Named(ext[t]) = Named(ext[t] \ {e}) \cup H /\ Named(ext[t] \ {e}) \cap H = {}
  BY DEF Named, IInv, Checked, NamesEachOnce
<1>6. IF pc[t] = "commit" THEN Staged("commit", t, F, M) = Named(ext[t]) /\ Staged("release", t, F, M) = {}
                          ELSE Staged("release", t, F, M) = Named(ext[t]) /\ Staged("commit", t, F, M) = {}
  BY <1>2 DEF Staged
<1>7. IF pc[t] = "commit"
      THEN Staged("commit", t, F, M)' = Named(ext[t] \ {e}) /\ Staged("release", t, F, M)' = {}
      ELSE Staged("release", t, F, M)' = Named(ext[t] \ {e}) /\ Staged("commit", t, F, M)' = {}
  <2>1. cfd'[t] = F /\ cmem'[t] = M
    BY <1>2
  <2>2. CASE ext[t] = {e}
    <3>1. Named(ext[t] \ {e}) = {}
      BY <2>2 DEF Named
    <3>2. QED
      BY <1>2, <2>2, <3>1 DEF Staged
  <2>3. CASE ext[t] # {e}
    BY <1>2, <2>1, <2>3 DEF Staged
  <2>4. QED
    BY <2>2, <2>3
<1>8. Owned(F, M)' = Owned(F, M)
  <2>1. Owned(F, M) = (hugepages[F][M] \cup Staged("commit", t, F, M)) \ Staged("release", t, F, M)
    BY <1>2, <1>4 DEF Untangled
  <2>2. Owned(F, M)' = (hugepages'[F][M] \cup Staged("commit", t, F, M)') \ Staged("release", t, F, M)'
    BY <1>2, <1>4 DEF Untangled
  <2>3. hugepages'[F][M] = IF pc[t] = "commit" THEN hugepages[F][M] \cup H ELSE hugepages[F][M] \ H
    BY <1>1, <1>2 DEF TypeOK
  <2> HIDE DEF H
  <2>4. CASE pc[t] = "commit"
    BY ZenonT(60), <1>5, <1>6, <1>7, <2>1, <2>2, <2>3, <2>4
  <2>5. CASE pc[t] # "commit"
    <3>1. H \subseteq Named(ext[t])
      BY <1>5
    <3>2. QED
      BY SMTT(60), <1>5, <1>6, <1>7, <2>1, <2>2, <2>3, <2>5, <3>1
  <2>6. QED
    BY <2>4, <2>5
<1>9. ASSUME NEW f \in Fd, f # F PROVE Owned(f, M)' = Owned(f, M)
  <2>1. hugepages'[f][M] = hugepages[f][M]
    BY <1>1, <1>2, <1>9 DEF TypeOK
  <2>2. \A label \in {"commit", "release"} : Staged(label, t, f, M)' = {} /\ Staged(label, t, f, M) = {}
    BY <1>2, <1>9 DEF Staged
  <2>3. ASSUME NEW label \in {"commit", "release"}, NEW u \in Thread
        PROVE  Staged(label, u, f, M)' = Staged(label, u, f, M)
    BY <1>3, <2>2, AsideStaged
  <2>4. QED
    BY <2>1, <2>3, OwnedKept
<1>10. ASSUME NEW f \in Fd, NEW m \in Region, m # M PROVE Owned(f, m)' = Owned(f, m)
  <2>1. hugepages'[f][m] = hugepages[f][m]
    BY <1>1, <1>2, <1>10 DEF TypeOK
  <2>2. QED
    BY <1>2, <1>3, <1>10, <2>1, ElsewhereKept
<1>11. \A f \in Fd, m \in Region : Owned(f, m)' = Owned(f, m)
  BY <1>8, <1>9, <1>10
<1>12. QED
  BY <1>2, <1>11 DEF OwnedNow, AliveNow

(* A FREE that passes validation is one Give of all it names.               *)
LEMMA ValidateGives ==
  ASSUME IInv, IInv', NEW t \in Thread, FreeValidate(t)
  PROVE  Promise
<1>1. FreeValidate(t) /\ TypeOK /\ Step(t)
  BY DEF IInv, Step
<1>2. PICK F \in Fd, M \in Region :
        /\ F = cfd[t] /\ M = cmem[t] /\ UNCHANGED <<hugepages, fstate, cfd, cmem>>
        /\ pc[t] = "free_led" /\ llock[M] = None /\ fstate[F] = "open"
  <2>1. UNCHANGED <<hugepages, fstate, cfd, cmem>> /\ pc[t] = "free_led" /\ llock[cmem[t]] = None
    BY <1>1 DEF FreeValidate, held, table
  <2>2. cfd[t] \in Fd /\ cmem[t] \in Region /\ fstate[cfd[t]] = "open"
    BY <1>1, <2>1 DEF IInv, Pinned, TypeOK, InIoctl
  <2>3. QED
    BY <2>1, <2>2
<1>3. \A u \in Thread : u # t => Aside(u)
  BY <1>1, StepAside
<1>4. UNCHANGED AliveNow
  BY <1>2 DEF AliveNow
<1>5. CASE ~MayFree(ext[t], F, M)
  <2>1. pc'[t] = "reply"
    BY <1>1, <1>2, <1>5 DEF FreeValidate, Answer, Goto, TypeOK
  <2>2. QED
    BY <1>2, <1>3, <1>4, <2>1, Nothing DEF Promise
<1>6. CASE MayFree(ext[t], F, M)
  <2>1. PICK E \in SUBSET Extent : E = ext[t]
    BY <1>1 DEF TypeOK
  <2>2. pc'[t] = "release" /\ ext'[t] = E /\ llock'[M] = t /\ Named(E) \subseteq hugepages[F][M]
    BY <1>1, <1>2, <1>6, <2>1 DEF FreeValidate, Goto, TypeOK, MayFree
  <2>3. Untangled /\ Untangled'
    BY UntangledNow, UntangledNext
  <2>4. ASSUME NEW f \in Fd
        PROVE  /\ Owned(f, M) = hugepages[f][M]
               /\ Owned(f, M)' = hugepages[f][M] \ (IF f = F THEN Named(E) ELSE {})
    <3>1. Staged("commit", t, f, M) = {} /\ Staged("release", t, f, M) = {}
      BY <1>2 DEF Staged
    <3>2. Staged("release", t, f, M)' = (IF f = F THEN Named(E) ELSE {})
          /\ Staged("commit", t, f, M)' = {}
      <4>1. cfd'[t] = F /\ cmem'[t] = M
        BY <1>2
      <4>2. QED
        BY <2>2, <4>1 DEF Staged
    <3>3. hugepages'[f][M] = hugepages[f][M]
      BY <1>2
    <3>4. Owned(f, M) = (hugepages[f][M] \cup Staged("commit", t, f, M)) \ Staged("release", t, f, M)
      BY <1>2, <2>3 DEF Untangled
    <3>5. Owned(f, M)' = (hugepages'[f][M] \cup Staged("commit", t, f, M)') \ Staged("release", t, f, M)'
      BY <1>2, <2>2, <2>3 DEF Untangled
    <3>6. QED
      BY <3>1, <3>2, <3>3, <3>4, <3>5
  <2>5. \A f \in Fd, m \in Region : f # F \/ m # M => Owned(f, m)' = Owned(f, m)
    <3>1. \A f \in Fd, m \in Region : m # M => Owned(f, m)' = Owned(f, m)
      BY <1>2, <1>3, ElsewhereKept
    <3>2. \A f \in Fd : f # F => Owned(f, M)' = Owned(f, M)
      BY <2>4
    <3>3. QED
      BY <3>1, <3>2
  <2>6. OwnedNow' = [OwnedNow EXCEPT ![F][M] = OwnedNow[F][M] \ Named(E)]
    <3>1. Owned(F, M)' = OwnedNow[F][M] \ Named(E)
      BY <1>2, <2>4 DEF OwnedNow
    <3>2. QED
      BY <2>5, <3>1, OnePlace
  <2>7. CASE Named(E) = {}
    <3>1. UNCHANGED OwnedNow
      BY <1>2, <2>6, <2>7 DEF OwnedNow
    <3>2. QED
      BY <1>4, <3>1 DEF Promise
  <2>8. CASE Named(E) # {}
    <3>1. Named(E) \in SUBSET OwnedNow[F][M]
      BY <1>2, <2>2, <2>4 DEF OwnedNow
    <3>2. Ownership!Give(F, M, Named(E))
      BY <1>2, <1>4, <2>6, <2>8 DEF Ownership!Give, OwnedNow, AliveNow
    <3>3. M \in Ownership!Regions
      BY <1>2, RegionAssumption DEF Ownership!Regions
    <3>4. QED
      BY <1>2, <3>1, <3>2, <3>3 DEF Promise, Ownership!Next, OwnedNow
  <2>9. QED
    BY <2>7, <2>8
<1>7. QED
  BY <1>5, <1>6

(* Closing a file is one Give per region that still holds something.        *)
LEMMA ReclaimGives ==
  ASSUME IInv, IInv', NEW t \in Thread, Reclaim(t)
  PROVE  Promise
<1>1. Reclaim(t) /\ TypeOK /\ Step(t)
  BY DEF IInv, Step
<1>2. PICK F \in Fd, M \in Region :
        /\ F = cfd[t] /\ M = cmem[t] /\ UNCHANGED <<fstate, cfd>>
        /\ pc[t] = "reclaim" /\ pc'[t] \in {"reclaim", "free_struct"} /\ llock[M] = None
        /\ fstate[F] = "closing" /\ \A u \in Thread : u # t => cfd[u] # F
        /\ hugepages' = [hugepages EXCEPT ![F][M] = {}]
  <2>1. /\ UNCHANGED <<fstate, cfd>> /\ pc[t] = "reclaim" /\ llock[cmem[t]] = None
        /\ pc'[t] \in {"reclaim", "free_struct"}
        /\ hugepages' = [hugepages EXCEPT ![cfd[t]][cmem[t]] = {}]
    BY <1>1 DEF Reclaim, table, Goto, TypeOK
  <2>2. /\ cfd[t] \in Fd /\ cmem[t] \in Region /\ fstate[cfd[t]] = "closing"
        /\ \A u \in Thread : u # t => cfd[u] # cfd[t]
    BY <1>1, <2>1 DEF IInv, Pinned, TypeOK, InClose
  <2>3. QED
    BY <2>1, <2>2
<1>3. \A u \in Thread : u # t => Aside(u)
  BY <1>1, StepAside
<1>4. UNCHANGED AliveNow
  BY <1>2 DEF AliveNow
<1>5. \A label \in {"commit", "release"}, u \in Thread, f \in Fd, m \in Region :
        /\ Staged(label, u, f, m)' = Staged(label, u, f, m)
        /\ f = F => Staged(label, u, f, m) = {}
  <2>1. \A label \in {"commit", "release"}, f \in Fd, m \in Region :
          Staged(label, t, f, m)' = {} /\ Staged(label, t, f, m) = {}
    BY <1>2 DEF Staged
  <2>2. \A label \in {"commit", "release"}, u \in Thread, f \in Fd, m \in Region :
          u # t => /\ Staged(label, u, f, m)' = Staged(label, u, f, m)
                   /\ f = F => Staged(label, u, f, m) = {}
    <3>1. \A label \in {"commit", "release"}, u \in Thread, f \in Fd, m \in Region :
            u # t => Staged(label, u, f, m)' = Staged(label, u, f, m)
      BY <1>3, AsideStaged
    <3>2. \A label \in {"commit", "release"}, u \in Thread, m \in Region :
            u # t => Staged(label, u, F, m) = {}
      BY <1>2 DEF Staged
    <3>3. QED
      BY <3>1, <3>2
  <2>3. QED
    BY <2>1, <2>2
<1>6. \A m \in Region : Owned(F, m) = hugepages[F][m]
  <2>1. ASSUME NEW m \in Region, NEW label \in {"commit", "release"}
        PROVE  Pending(label, F, m) = {}
    BY <1>5, StagedNow DEF PendingIsStaged
  <2>2. QED
    BY <2>1 DEF Owned
<1>7. \A f \in Fd, m \in Region : f # F \/ m # M => Owned(f, m)' = Owned(f, m)
  <2>1. ASSUME NEW f \in Fd, NEW m \in Region, f # F \/ m # M
        PROVE  hugepages'[f][m] = hugepages[f][m]
    BY <1>1, <1>2, <2>1 DEF TypeOK
  <2>2. QED
    BY <1>5, <2>1, OwnedKept
<1>8. Owned(F, M)' = {}
  <2>1. ASSUME NEW label \in {"commit", "release"}
        PROVE  Pending(label, F, M)' = {}
    <3>1. \A u \in Thread : Staged(label, u, F, M)' = {}
      BY <1>5
    <3>2. Pending(label, F, M)' = UNION {Staged(label, u, F, M)' : u \in Thread}
      BY StagedNext DEF PendingIsStaged
    <3>3. QED
      BY <3>1, <3>2
  <2>2. hugepages'[F][M] = {}
    BY <1>1, <1>2 DEF TypeOK
  <2>3. QED
    BY <2>1, <2>2 DEF Owned
<1>9. OwnedNow' = [OwnedNow EXCEPT ![F][M] = {}]
  BY <1>7, <1>8, OnePlace
<1>10. CASE OwnedNow[F][M] = {}
  <2>1. UNCHANGED OwnedNow
    <3>1. Owned(F, M)' = Owned(F, M)
      BY <1>8, <1>10 DEF OwnedNow
    <3>2. \A f \in Fd, m \in Region : Owned(f, m)' = Owned(f, m)
      BY <1>7, <3>1
    <3>3. QED
      BY <3>2 DEF OwnedNow
  <2>2. QED
    BY <1>4, <2>1 DEF Promise
<1>11. CASE OwnedNow[F][M] # {}
  <2>1. PICK S : S = OwnedNow[F][M]
    OBVIOUS
  <2>2. Ownership!Give(F, M, S)
    BY ZenonT(60), <1>2, <1>4, <1>9, <1>11, <2>1 DEF Ownership!Give, OwnedNow, AliveNow
  <2>3. M \in Ownership!Regions /\ S \in SUBSET OwnedNow[F][M]
    BY <1>2, <2>1, RegionAssumption DEF Ownership!Regions
  <2>4. QED
    BY <1>2, <2>2, <2>3 DEF Promise, Ownership!Next, OwnedNow
<1>12. QED
  BY <1>10, <1>11

(* A file is born with open() and is gone, owning nothing, with its struct. *)
LEMMA OpenCreates ==
  ASSUME IInv, NEW f \in Fd, Open(f)
  PROVE  Promise
<1>1. /\ UNCHANGED <<hugepages, pc, cfd, cmem, ext>>
      /\ fstate[f] = "closed" /\ fstate' = [fstate EXCEPT ![f] = "open"]
  BY DEF Open, held, locals
<1>2. \A label \in {"commit", "release"}, u \in Thread, g \in Fd, m \in Region :
        Staged(label, u, g, m)' = Staged(label, u, g, m)
  BY <1>1 DEF Staged
<1>3. \A g \in Fd, m \in Region : Owned(g, m)' = Owned(g, m)
  BY <1>1, <1>2, OwnedKept
<1>4. UNCHANGED OwnedNow
  BY <1>3 DEF OwnedNow
<1>5. f \notin AliveNow /\ AliveNow' = AliveNow \cup {f}
  BY <1>1 DEF AliveNow, IInv, TypeOK
<1>6. Ownership!Create(f)
  BY <1>4, <1>5 DEF Ownership!Create, OwnedNow, AliveNow
<1>7. QED
  BY <1>6 DEF Promise, Ownership!Next

(* ... as reclaim has left it.                                              *)
LEMMA FreeStructDestroys ==
  ASSUME IInv, NEW t \in Thread, FreeStruct(t)
  PROVE  Promise
<1>1. FreeStruct(t) /\ TypeOK /\ Step(t)
  BY DEF IInv, Step
<1>2. PICK F \in Fd :
        /\ F = cfd[t] /\ UNCHANGED hugepages
        /\ pc[t] = "free_struct" /\ pc'[t] = "idle" /\ fstate[F] = "closing"
        /\ fstate' = [fstate EXCEPT ![F] = "closed"]
        /\ (\A u \in Thread : u # t => cfd[u] # F) /\ (\A m \in Region : hugepages[F][m] = {})
  <2>1. /\ UNCHANGED hugepages /\ pc[t] = "free_struct" /\ pc'[t] = "idle"
        /\ fstate' = [fstate EXCEPT ![cfd[t]] = "closed"]
    BY <1>1 DEF FreeStruct, Leave, Goto, TypeOK
  <2>2. /\ cfd[t] \in Fd /\ fstate[cfd[t]] = "closing"
        /\ \A u \in Thread : u # t => cfd[u] # cfd[t]
    BY <1>1, <2>1 DEF IInv, Pinned, TypeOK, InClose
  <2>3. \A m \in Region : hugepages[cfd[t]][m] = {}
    BY <2>1 DEF IInv, Emptied
  <2>4. QED
    BY <2>1, <2>2, <2>3
<1>3. \A u \in Thread : u # t => Aside(u)
  BY <1>1, StepAside
<1>4. UNCHANGED OwnedNow
  BY <1>2, <1>3, Nothing
<1>5. \A m \in Region : OwnedNow[F][m] = {}
  <2>1. ASSUME NEW m \in Region, NEW label \in {"commit", "release"}
        PROVE  Pending(label, F, m) = {}
    <3>1. \A u \in Thread : Staged(label, u, F, m) = {}
      BY <1>2 DEF Staged
    <3>2. QED
      BY <3>1, StagedNow DEF PendingIsStaged
  <2>2. QED
    BY <1>2, <2>1 DEF Owned, OwnedNow
<1>6. F \in AliveNow /\ AliveNow' = AliveNow \ {F}
  BY <1>1, <1>2 DEF AliveNow, TypeOK
<1>7. Ownership!Destroy(F)
  <2>1. Ownership!Regions = Region
    BY RegionAssumption DEF Ownership!Regions
  <2>2. QED
    BY <1>4, <1>5, <1>6, <2>1 DEF Ownership!Destroy, OwnedNow, AliveNow
<1>8. QED
  BY <1>7 DEF Promise, Ownership!Next

------------------------------------------------------------------------------
(* Every step of the driver is a step of the promise or changes nothing a   *)
(* caller can see of it.                                                    *)
LEMMA StepKeepsPromise == IInv /\ IInv' /\ [Next]_vars => Promise
<1> SUFFICES ASSUME IInv, IInv', [Next]_vars PROVE Promise
  OBVIOUS
<1>1. ASSUME NEW t \in Thread, NEW f \in Fd, CloseCall(t, f) PROVE Promise
  <2>1. /\ UNCHANGED hugepages /\ pc[t] = "idle" /\ pc'[t] = "unlist"
        /\ fstate[f] = "open" /\ fstate' = [fstate EXCEPT ![f] = "closing"]
    BY <1>1 DEF CloseCall, held, Goto, IInv, TypeOK
  <2>2. UNCHANGED AliveNow
    BY <2>1 DEF AliveNow, IInv, TypeOK
  <2>3. \A u \in Thread : u # t => Aside(u)
    BY <1>1, StepAside DEF IInv
  <2>4. QED
    BY <2>1, <2>2, <2>3, Nothing DEF Promise
<1>2. ASSUME NEW t \in Thread, UNCHANGED <<hugepages, fstate>>,
             pc[t] \notin {"commit", "release"}, pc'[t] \notin {"commit", "release"},
             \A u \in Thread : u # t => Aside(u)
      PROVE  Promise
  BY <1>2, Nothing DEF AliveNow, Promise
<1>3. ASSUME NEW t \in Thread,
             \/ \E f \in Fd, m \in Region, req \in AllocRequests : AllocCall(t, f, m, req)
             \/ \E f \in Fd, m \in Region, E \in FreeRequests : FreeCall(t, f, m, E)
      PROVE  Promise
  <2>1. /\ UNCHANGED <<hugepages, fstate>>
        /\ pc[t] \notin {"commit", "release"} /\ pc'[t] \notin {"commit", "release"}
    BY <1>3 DEF AllocCall, FreeCall, held, table, Goto, IInv, TypeOK
  <2>2. \A u \in Thread : u # t => Aside(u)
    BY <1>3, StepAside DEF IInv
  <2>3. QED
    BY <1>2, <2>1, <2>2
<1>4. ASSUME NEW t \in Thread,
             \/ AllocLockFile(t) \/ CopyOut(t) \/ CopyFault(t) \/ FreeLockFile(t) \/ Return(t)
             \/ CloseUnlist(t) \/ ReclaimLockFile(t)
      PROVE  Promise
  <2>1. /\ UNCHANGED <<hugepages, fstate>>
        /\ pc[t] \notin {"commit", "release"} /\ pc'[t] \notin {"commit", "release"}
    BY <1>4 DEF AllocLockFile, CopyOut, CopyFault, FreeLockFile, Return, CloseUnlist,
                ReclaimLockFile, Leave, held, table, Goto, IInv, TypeOK
  <2>2. \A u \in Thread : u # t => Aside(u)
    BY <1>4, StepAside DEF IInv, Step
  <2>3. QED
    BY <1>2, <2>1, <2>2
<1>5. ASSUME NEW t \in Thread,
             \/ ProcCall(t) \/ ProcReadLedger(t) \/ ProcLockFiles(t) \/ ProcDone(t)
             \/ \E f \in Fd : ProcVisit(t, f)
      PROVE  Promise
  <2>1. /\ UNCHANGED <<hugepages, fstate>>
        /\ pc[t] \notin {"commit", "release"} /\ pc'[t] \notin {"commit", "release"}
    BY <1>5 DEF ProcCall, ProcReadLedger, ProcLockFiles, ProcVisit, ProcDone, Leave, held, table,
                Goto, IInv, TypeOK
  <2>2. \A u \in Thread : u # t => Aside(u)
    BY <1>5, StepAside DEF IInv, Step
  <2>3. QED
    BY <1>2, <2>1, <2>2
<1>6. ASSUME NEW t \in Thread, Commit(t) \/ Release(t) PROVE Promise
  BY <1>6, SecondPass DEF Promise
<1>7. CASE UNCHANGED vars
  <2>1. UNCHANGED <<hugepages, fstate, pc, cfd, cmem, ext>>
    BY <1>7 DEF vars, held, table, locals
  <2>2. \A label \in {"commit", "release"}, u \in Thread, f \in Fd, m \in Region :
          Staged(label, u, f, m)' = Staged(label, u, f, m)
    BY <2>1 DEF Staged
  <2>3. \A f \in Fd, m \in Region : Owned(f, m)' = Owned(f, m)
    BY <2>1, <2>2, OwnedKept
  <2>4. QED
    BY <2>1, <2>3 DEF Promise, OwnedNow, AliveNow
<1>8. QED
  BY <1>1, <1>3, <1>4, <1>5, <1>6, <1>7, OpenCreates, DecideTakes, ValidateGives, ReclaimGives,
     FreeStructDestroys DEF Next, Enter, FreeCalls, Step

(* The driver implements indivisible allocation, free and reclaim of whole  *)
(* requests (pim_chunk.c:93-248): an ALLOC happens at once where it is      *)
(* decided and a FREE where it is validated, whatever runs in between.      *)
THEOREM DriverKeepsPromise == Spec => Indivisible
<1>1. Init => Ownership!Init
  <2> SUFFICES ASSUME Init PROVE Ownership!Init
    OBVIOUS
  <2>1. \A label \in {"commit", "release"}, f \in Fd, m \in Region : Pending(label, f, m) = {}
    <3>1. \A label \in {"commit", "release"}, t \in Thread, f \in Fd, m \in Region :
            Staged(label, t, f, m) = {}
      BY DEF Init, Staged
    <3>2. QED
      BY <3>1, StagedNow DEF PendingIsStaged
  <2>2. \A f \in Fd, m \in Region : Owned(f, m) = {}
    BY <2>1 DEF Init, Owned
  <2>3. Ownership!Regions = Region
    BY RegionAssumption DEF Ownership!Regions
  <2>4. QED
    BY <2>2, <2>3 DEF Init, Ownership!Init
<1>2. IInv /\ IInv' /\ [Next]_vars => [Ownership!Next]_<<OwnedNow, AliveNow>>
  BY StepKeepsPromise DEF Promise
<1>3. QED
  BY <1>1, <1>2, Inductive, PTL DEF Spec, Indivisible, Ownership!Spec, OwnedNow, AliveNow

------------------------------------------------------------------------------
(***************************************************************************)
(* The callers of pim.ko: what they know they hold, and what the driver    *)
(* has written down for them.                                              *)
(***************************************************************************)

(* The hugepages that a call in flight carries for its fd and region: they  *)
(* are held, and no caller knows of them.                                   *)
Carries(t) ==
  IF pc[t] = "commit" THEN Named(out[t]) \ Named(ext[t])
  ELSE IF pc[t] = "copyout" THEN Named(out[t])
  ELSE IF pc[t] \in {"free_file", "free_led", "release"} THEN Named(ext[t])
  ELSE {}
Brings(t, f, m) == IF cfd[t] = f /\ cmem[t] = m THEN Carries(t) ELSE {}

(* The books of one fd and region balance: what is held is what the callers *)
(* know of and what each call carries, and no hugepage is counted twice.    *)
Balanced(f, m) ==
  /\ hugepages[f][m] = granted[f][m] \cup UNION {Brings(t, f, m) : t \in Thread}
  /\ \A t \in Thread : granted[f][m] \cap Brings(t, f, m) = {}
  /\ \A t, u \in Thread : t # u => Brings(t, f, m) \cap Brings(u, f, m) = {}

Followed(f) == fstate[f] = "open" /\ f \notin careless

Booked ==
  /\ granted \in [Fd -> [Region -> SUBSET Nat]]
  /\ \A f \in Fd, m \in Region : fstate[f] # "open" => granted[f][m] = {}
  /\ \A t \in Thread : pc[t] = "commit" => ext[t] \subseteq out[t]
  /\ \A f \in Fd, m \in Region : Followed(f) => Balanced(f, m)

(* What libpim hands back, the driver takes back: a FREE from careful       *)
(* callers, and the rollback of an ALLOC whose reply faulted, pass the      *)
(* validation of pim_chunk.c:190-209.                                       *)
NeverRefusesItsOwn ==
  \A t \in Thread :
    pc[t] \in {"free_file", "free_led"} /\ cfd[t] \notin careless =>
      MayFree(ext[t], cfd[t], cmem[t])

CIInv == IInv /\ Booked

------------------------------------------------------------------------------
(* A thread that takes no step brings what it brought.                      *)
LEMMA AsideBrings ==
  ASSUME NEW u \in Thread, Aside(u), NEW f \in Fd, NEW m \in Region
  PROVE  Brings(u, f, m)' = Brings(u, f, m)
BY DEF Aside, Brings, Carries

(* The books balance after a step of t if they did before it and what t     *)
(* brings moved consistently with the record and the grants, while whatever *)
(* the other calls bring stayed.                                            *)
LEMMA Balance ==
  ASSUME NEW t \in Thread, NEW f \in Fd, NEW m \in Region, Balanced(f, m),
         \A u \in Thread : u # t => Brings(u, f, m)' = Brings(u, f, m),
         NEW rest, rest = hugepages[f][m] \ (granted[f][m] \cup Brings(t, f, m)),
         hugepages'[f][m] = granted'[f][m] \cup Brings(t, f, m)' \cup rest,
         granted'[f][m] \cap Brings(t, f, m)' = {},
         rest \cap (granted'[f][m] \cup Brings(t, f, m)') = {}
  PROVE  Balanced(f, m)'
<1>1. rest = UNION {Brings(u, f, m) : u \in Thread \ {t}}
  <2>1. \A u \in Thread \ {t} : /\ Brings(u, f, m) \cap granted[f][m] = {}
                                 /\ Brings(u, f, m) \cap Brings(t, f, m) = {}
    BY DEF Balanced
  <2>2. hugepages[f][m] = granted[f][m] \cup Brings(t, f, m) \cup UNION {Brings(u, f, m) : u \in Thread \ {t}}
    BY DEF Balanced
  <2>3. QED
    BY <2>1, <2>2
<1>2. \A u \in Thread \ {t} : Brings(u, f, m)' = Brings(u, f, m) /\ Brings(u, f, m) \subseteq rest
  BY <1>1
<1>3. UNION {Brings(u, f, m)' : u \in Thread} = Brings(t, f, m)' \cup rest
  BY <1>1, <1>2
<1>4. \A u, v \in Thread : u # v => Brings(u, f, m)' \cap Brings(v, f, m)' = {}
  BY <1>2 DEF Balanced
<1>5. \A u \in Thread : granted'[f][m] \cap Brings(u, f, m)' = {}
  BY <1>2
<1>6. QED
  BY <1>3, <1>4, <1>5 DEF Balanced

(* When neither the record, the grants nor what t brings moves, the books   *)
(* stay balanced.                                                           *)
LEMMA StillBalanced ==
  ASSUME NEW t \in Thread, NEW f \in Fd, NEW m \in Region, Balanced(f, m),
         \A u \in Thread : u # t => Aside(u),
         UNCHANGED <<hugepages[f][m], granted[f][m]>>,
         Brings(t, f, m)' = Brings(t, f, m)
  PROVE  Balanced(f, m)'
<1> DEFINE rest == hugepages[f][m] \ (granted[f][m] \cup Brings(t, f, m))
<1>1. /\ hugepages[f][m] = granted[f][m] \cup Brings(t, f, m) \cup rest
      /\ granted[f][m] \cap Brings(t, f, m) = {}
      /\ rest \cap (granted[f][m] \cup Brings(t, f, m)) = {}
  BY DEF Balanced
<1>2. \A u \in Thread : u # t => Brings(u, f, m)' = Brings(u, f, m)
  BY AsideBrings
<1> HIDE DEF rest
<1>3. QED
  BY <1>1, <1>2, Balance DEF rest
(* The same for a whole step that moves no hugepage, grant or file.         *)
LEMMA BooksKept ==
  ASSUME Booked, NEW t \in Thread,
         \A u \in Thread : u # t => Aside(u),
         UNCHANGED <<hugepages, granted, careless, fstate>>,
         pc'[t] = "commit" => ext'[t] \subseteq out'[t],
         \A f \in Fd, m \in Region : Followed(f) => Brings(t, f, m)' = Brings(t, f, m)
  PROVE  Booked'
<1>1. \A u \in Thread : pc'[u] = "commit" => ext'[u] \subseteq out'[u]
  BY DEF Booked, Aside
<1>2. ASSUME NEW f \in Fd, NEW m \in Region, Followed(f)' PROVE Balanced(f, m)'
  <2>1. Followed(f) /\ Balanced(f, m)
    BY <1>2 DEF Followed, Booked
  <2>2. QED
    BY <2>1, StillBalanced
<1>3. QED
  BY <1>1, <1>2 DEF Booked

(* Every step of the callers is a step of the driver, so what is proved of  *)
(* the driver holds under them.                                             *)
LEMMA CallersStep == [CNext]_cvars => [Next]_vars
<1> SUFFICES ASSUME [CNext]_cvars PROVE [Next]_vars
  OBVIOUS
<1>1. ASSUME NEW t \in Thread, Learn(t) PROVE Next
  BY <1>1 DEF Learn, Next, Step
<1>2. ASSUME NEW t \in Thread, GiveUp(t) PROVE Next
  BY <1>2 DEF GiveUp, Next, FreeCalls
<1>3. ASSUME NEW t \in Thread, Die(t) PROVE Next
  BY <1>3 DEF Die, Next, Enter
<1>4. ASSUME NEW t \in Thread, Quiet(t) PROVE Next
  BY <1>4 DEF Quiet, Next, Enter
<1>5. ASSUME NEW f \in Fd, Open(f) PROVE Next
  BY <1>5 DEF Next
<1>6. QED
  BY <1>1, <1>2, <1>3, <1>4, <1>5 DEF CNext, cvars

------------------------------------------------------------------------------
(* The books start empty.                                                   *)
LEMMA InitBooked == CInit => CIInv
<1> SUFFICES ASSUME CInit PROVE CIInv
  OBVIOUS
<1>1. IInv
  BY InitIInv DEF CInit
<1>2. \A t \in Thread, f \in Fd, m \in Region : Brings(t, f, m) = {}
  BY DEF CInit, Init, Brings, Carries
<1>3. Booked
  BY <1>2 DEF CInit, Init, Booked, Balanced
<1>4. QED
  BY <1>1, <1>3 DEF CIInv

(* Every step keeps the books.                                              *)
LEMMA BookedStep == CIInv /\ [CNext]_cvars => Booked'
<1> SUFFICES ASSUME IInv, Booked, [CNext]_cvars PROVE Booked'
  BY DEF CIInv
<1> USE DEF IInv
<1>1. ASSUME NEW t \in Thread, AllocDecide(t), UNCHANGED <<granted, careless>> PROVE Booked'
  <2>1. /\ \A u \in Thread : u # t => Aside(u)
        /\ UNCHANGED <<hugepages, fstate, cfd, cmem>>
        /\ pc[t] = "alloc_led"
    BY <1>1, StepAside DEF Step, AllocDecide, held, table
  <2>2. \/ pc'[t] = "reply"
        \/ pc'[t] = "commit" /\ ext'[t] = out'[t]
    <3>1. \/ \E ret \in {"ENOMEM", "ENOSPC", "disagree"}, nex \in Nat : AllocRefused(t, ret, nex)
          \/ \E E \in SUBSET Extent : AllocTaken(t, E)
      BY <1>1, AllocOutcome
    <3>2. QED
      BY <3>1 DEF AllocRefused, AllocTaken, Answer, Goto, TypeOK
  <2>3. \A f \in Fd, m \in Region : Brings(t, f, m)' = Brings(t, f, m)
    BY <2>1, <2>2 DEF Brings, Carries
  <2>4. QED
    BY <1>1, <2>1, <2>2, <2>3, BooksKept
<1>2. ASSUME NEW t \in Thread, Commit(t), UNCHANGED <<granted, careless>> PROVE Booked'
  <2>1. PICK e \in ext[t] :
          /\ CommitExtent(t, e) /\ ext' = [ext EXCEPT ![t] = @ \ {e}]
          /\ IF ext[t] = {e} THEN pc' = [pc EXCEPT ![t] = "copyout"] ELSE pc' = pc
    BY <1>2 DEF Commit, Goto
  <2> DEFINE F == cfd[t]
             M == cmem[t]
             H == Hugepages(e)
  <2>2. /\ F \in Fd /\ M \in Region /\ pc[t] = "commit" /\ e \in out[t]
        /\ UNCHANGED <<out, cfd, cmem, fstate>>
    BY <1>2, <2>1 DEF Commit, Pinned, TypeOK, InIoctl, Booked, table
  <2>3. \A u \in Thread : u # t => Aside(u)
    BY <1>2, StepAside DEF Step
  <2>4. H \subseteq Named(ext[t]) /\ Named(ext[t] \ {e}) = Named(ext[t]) \ H /\ H \subseteq Named(out[t])
    BY <2>1, <2>2 DEF Named, Checked, NamesEachOnce
  <2>5. \A f \in Fd : H \cap hugepages[f][M] = {}
    BY <2>2, <2>4 DEF Checked, Exclusive, FreePages
  <2>6. Carries(t) = Named(out[t]) \ Named(ext[t]) /\ Carries(t)' = Carries(t) \cup H
    <3>1. CASE ext[t] = {e}
      <4>1. Named(ext[t]) = H /\ pc'[t] = "copyout"
        BY <2>1, <3>1 DEF Named, TypeOK
      <4>2. QED
        BY <2>2, <2>4, <4>1 DEF Carries
    <3>2. CASE ext[t] # {e}
      <4>1. pc'[t] = "commit" /\ ext'[t] = ext[t] \ {e} /\ out'[t] = out[t]
        BY <2>1, <2>2, <3>2 DEF TypeOK
      <4>2. QED
        BY <2>2, <2>4, <4>1 DEF Carries
    <3>3. QED
      BY <3>1, <3>2
  <2>7. hugepages' = [hugepages EXCEPT ![F][M] = @ \cup H]
    BY <2>1 DEF CommitExtent
  <2>8. ASSUME NEW f \in Fd, NEW m \in Region, Followed(f)' PROVE Balanced(f, m)'
    <3>1. Followed(f) /\ Balanced(f, m)
      BY <1>2, <2>2, <2>8 DEF Followed, Booked
    <3>2. CASE f = F /\ m = M
      <4> DEFINE rest == hugepages[f][m] \ (granted[f][m] \cup Brings(t, f, m))
      <4>1. Brings(t, f, m) = Carries(t) /\ Brings(t, f, m)' = Carries(t) \cup H
        BY <2>2, <2>6, <3>2 DEF Brings
      <4>2. hugepages'[f][m] = hugepages[f][m] \cup H /\ granted'[f][m] = granted[f][m]
        BY <1>2, <2>2, <2>7, <3>2 DEF TypeOK
      <4>3. /\ hugepages[f][m] = granted[f][m] \cup Brings(t, f, m) \cup rest
            /\ granted[f][m] \cap Brings(t, f, m) = {}
            /\ rest \cap (granted[f][m] \cup Brings(t, f, m)) = {}
            /\ H \cap (granted[f][m] \cup Brings(t, f, m) \cup rest) = {}
        BY <2>2, <2>5, <3>1, <3>2 DEF Balanced
      <4>4. \A u \in Thread : u # t => Brings(u, f, m)' = Brings(u, f, m)
        BY <2>3, AsideBrings
      <4> HIDE DEF rest
      <4>5. /\ hugepages'[f][m] = granted'[f][m] \cup Brings(t, f, m)' \cup rest
            /\ granted'[f][m] \cap Brings(t, f, m)' = {}
            /\ rest \cap (granted'[f][m] \cup Brings(t, f, m)') = {}
        BY <4>1, <4>2, <4>3
      <4>6. QED
        BY <3>1, <4>4, <4>5, Balance DEF rest
    <3>3. CASE f # F \/ m # M
      <4>1. Brings(t, f, m) = {} /\ Brings(t, f, m)' = {}
        BY <2>2, <3>3 DEF Brings
      <4>2. UNCHANGED <<hugepages[f][m], granted[f][m]>>
        BY <1>2, <2>2, <2>7, <3>3 DEF TypeOK
      <4>3. QED
        BY <2>3, <3>1, <4>1, <4>2, StillBalanced
    <3>4. QED
      BY <3>2, <3>3
  <2>9. \A u \in Thread : pc'[u] = "commit" => ext'[u] \subseteq out'[u]
    BY <2>1, <2>2, <2>3 DEF Booked, Aside, TypeOK
  <2>10. QED
    BY <1>2, <2>2, <2>8, <2>9 DEF Booked
<1>3. ASSUME NEW t \in Thread, Learn(t) PROVE Booked'
  <2> DEFINE F == cfd[t]
             M == cmem[t]
             H == Named(out[t])
  <2>1. /\ CopyOut(t) /\ pc[t] = "copyout" /\ F \in Fd /\ M \in Region
        /\ UNCHANGED <<hugepages, fstate, careless>> /\ fstate[F] = "open"
    BY <1>3 DEF Learn, CopyOut, Pinned, TypeOK, InIoctl, held, table
  <2>2. \A u \in Thread : u # t => Aside(u)
    BY <2>1, StepAside DEF Step
  <2>3. pc'[t] = "idle" /\ Carries(t)' = {} /\ Carries(t) = H
    BY <2>1 DEF CopyOut, Leave, Goto, TypeOK, Carries
  <2>4. granted' \in [Fd -> [Region -> SUBSET Nat]]
    <3>1. H \subseteq Nat
      BY DEF TypeOK, Named, Hugepages, Extent
    <3>2. QED
      BY <1>3, <2>1, <3>1 DEF Learn, Booked
  <2>5. \A f \in Fd, m \in Region : fstate'[f] # "open" => granted'[f][m] = {}
    BY <1>3, <2>1 DEF Learn, Booked
  <2>6. ASSUME NEW f \in Fd, NEW m \in Region, Followed(f)' PROVE Balanced(f, m)'
    <3>1. Followed(f) /\ Balanced(f, m)
      BY <2>1, <2>6 DEF Followed, Booked
    <3>2. CASE f = F /\ m = M
      <4> DEFINE rest == hugepages[f][m] \ (granted[f][m] \cup Brings(t, f, m))
      <4>1. Brings(t, f, m) = H /\ Brings(t, f, m)' = {}
        BY <2>1, <2>3, <3>2 DEF Brings
      <4>2. hugepages'[f][m] = hugepages[f][m] /\ granted'[f][m] = granted[f][m] \cup H
        BY <1>3, <2>1, <3>1, <3>2 DEF Learn, Followed, Booked
      <4>3. /\ hugepages[f][m] = granted[f][m] \cup Brings(t, f, m) \cup rest
            /\ rest \cap (granted[f][m] \cup Brings(t, f, m)) = {}
        BY <3>1 DEF Balanced
      <4>4. \A u \in Thread : u # t => Brings(u, f, m)' = Brings(u, f, m)
        BY <2>2, AsideBrings
      <4> HIDE DEF rest
      <4>5. /\ hugepages'[f][m] = granted'[f][m] \cup Brings(t, f, m)' \cup rest
            /\ granted'[f][m] \cap Brings(t, f, m)' = {}
            /\ rest \cap (granted'[f][m] \cup Brings(t, f, m)') = {}
        BY <4>1, <4>2, <4>3
      <4>6. QED
        BY <3>1, <4>4, <4>5, Balance DEF rest
    <3>3. CASE f # F \/ m # M
      <4>1. Brings(t, f, m) = {} /\ Brings(t, f, m)' = {}
        BY <2>3, <3>3 DEF Brings
      <4>2. UNCHANGED <<hugepages[f][m], granted[f][m]>>
        BY <1>3, <2>1, <3>3 DEF Learn, Booked
      <4>3. QED
        BY <2>2, <3>1, <4>1, <4>2, StillBalanced
    <3>4. QED
      BY <3>2, <3>3
  <2>7. \A u \in Thread : pc'[u] = "commit" => ext'[u] \subseteq out'[u]
    BY <2>2, <2>3 DEF Booked, Aside
  <2>8. QED
    BY <2>4, <2>5, <2>6, <2>7 DEF Booked
<1>4. ASSUME NEW t \in Thread, CopyFault(t), UNCHANGED <<granted, careless>> PROVE Booked'
  <2>1. /\ \A u \in Thread : u # t => Aside(u)
        /\ UNCHANGED <<hugepages, fstate, cfd, cmem>>
        /\ pc[t] = "copyout" /\ pc'[t] = "free_file" /\ ext'[t] = out[t]
    BY <1>4, StepAside DEF Step, CopyFault, held, table, Goto, TypeOK
  <2>2. \A f \in Fd, m \in Region : Brings(t, f, m)' = Brings(t, f, m)
    BY <2>1 DEF Brings, Carries
  <2>3. QED
    BY <1>4, <2>1, <2>2, BooksKept
<1>5. ASSUME NEW t \in Thread, GiveUp(t) PROVE Booked'
  <2>1. PICK f \in Fd, m \in Region, E \in FreeRequests :
          /\ FreeCall(t, f, m, E)
          /\ \/ /\ Named(E) \subseteq granted[f][m]
                /\ granted' = [granted EXCEPT ![f][m] = @ \ Named(E)]
                /\ UNCHANGED careless
             \/ /\ granted' = [granted EXCEPT ![f] = [r \in Region |-> {}]]
                /\ careless' = careless \cup {f}
    BY <1>5 DEF GiveUp
  <2>2. /\ pc[t] = "idle" /\ pc'[t] = "free_file" /\ cfd'[t] = f /\ cmem'[t] = m /\ ext'[t] = E
        /\ UNCHANGED <<hugepages, fstate>> /\ fstate[f] = "open"
        /\ Carries(t) = {} /\ Carries(t)' = Named(E)
    BY <2>1 DEF FreeCall, Goto, TypeOK, held, table, Carries
  <2>3. \A u \in Thread : u # t => Aside(u)
    BY <2>1, StepAside
  <2>4. granted' \in [Fd -> [Region -> SUBSET Nat]]
    BY <2>1 DEF Booked
  <2>5. \A g \in Fd, r \in Region : fstate'[g] # "open" => granted'[g][r] = {}
    BY <2>1, <2>2 DEF Booked
  <2>6. ASSUME NEW g \in Fd, NEW r \in Region, Followed(g)' PROVE Balanced(g, r)'
    <3>1. Followed(g) /\ Balanced(g, r)
      BY <2>1, <2>2, <2>6 DEF Followed, Booked
    <3>2. CASE g = f /\ r = m
      <4> DEFINE rest == hugepages[g][r] \ (granted[g][r] \cup Brings(t, g, r))
      <4>1. Brings(t, g, r) = {} /\ Brings(t, g, r)' = Named(E)
        BY <2>2, <3>2 DEF Brings
      <4>2. /\ Named(E) \subseteq granted[g][r]
            /\ hugepages'[g][r] = hugepages[g][r] /\ granted'[g][r] = granted[g][r] \ Named(E)
        BY <2>1, <2>2, <2>6, <3>2 DEF Followed, Booked
      <4>3. /\ hugepages[g][r] = granted[g][r] \cup Brings(t, g, r) \cup rest
            /\ rest \cap (granted[g][r] \cup Brings(t, g, r)) = {}
        BY <3>1 DEF Balanced
      <4>4. \A u \in Thread : u # t => Brings(u, g, r)' = Brings(u, g, r)
        BY <2>3, AsideBrings
      <4> HIDE DEF rest
      <4>5. /\ hugepages'[g][r] = granted'[g][r] \cup Brings(t, g, r)' \cup rest
            /\ granted'[g][r] \cap Brings(t, g, r)' = {}
            /\ rest \cap (granted'[g][r] \cup Brings(t, g, r)') = {}
        BY <4>1, <4>2, <4>3
      <4>6. QED
        BY <3>1, <4>4, <4>5, Balance DEF rest
    <3>3. CASE g # f \/ r # m
      <4>1. Brings(t, g, r) = {} /\ Brings(t, g, r)' = {}
        BY <2>2, <3>3 DEF Brings
      <4>2. g = f => f \notin careless'
        BY <2>6 DEF Followed
      <4>3. UNCHANGED <<hugepages[g][r], granted[g][r]>>
        BY <2>1, <2>2, <3>3, <4>2 DEF Booked
      <4>4. QED
        BY <2>3, <3>1, <4>1, <4>3, StillBalanced
    <3>4. QED
      BY <3>2, <3>3
  <2>7. \A u \in Thread : pc'[u] = "commit" => ext'[u] \subseteq out'[u]
    BY <2>2, <2>3 DEF Booked, Aside
  <2>8. QED
    BY <2>4, <2>5, <2>6, <2>7 DEF Booked
<1>6. ASSUME NEW t \in Thread, FreeValidate(t), UNCHANGED <<granted, careless>> PROVE Booked'
  <2> DEFINE F == cfd[t]
             M == cmem[t]
  <2>1. /\ \A u \in Thread : u # t => Aside(u)
        /\ UNCHANGED <<hugepages, fstate, cfd, cmem>>
        /\ pc[t] = "free_led" /\ F \in Fd /\ M \in Region /\ fstate[F] = "open"
    BY <1>6, StepAside DEF Step, FreeValidate, held, table, Pinned, TypeOK, InIoctl
  <2>2. \/ MayFree(ext[t], F, M) /\ pc'[t] = "release" /\ ext'[t] = ext[t]
        \/ ~MayFree(ext[t], F, M) /\ pc'[t] = "reply"
    BY <1>6 DEF FreeValidate, Answer, Goto, TypeOK
  <2>3. ASSUME Followed(F) PROVE MayFree(ext[t], F, M)
    <3>1. Brings(t, F, M) = Named(ext[t])
      BY <2>1 DEF Brings, Carries
    <3>2. QED
      BY <2>1, <2>3, <3>1 DEF Booked, Balanced, MayFree
  <2>4. \A f \in Fd, m \in Region : Followed(f) => Brings(t, f, m)' = Brings(t, f, m)
    BY <2>1, <2>2, <2>3 DEF Brings, Carries
  <2>5. QED
    BY <1>6, <2>1, <2>2, <2>4, BooksKept
<1>7. ASSUME NEW t \in Thread, Release(t), UNCHANGED <<granted, careless>> PROVE Booked'
  <2>1. PICK e \in ext[t] :
          /\ ReleaseExtent(t, e) /\ ext' = [ext EXCEPT ![t] = @ \ {e}]
          /\ IF ext[t] = {e} THEN pc' = [pc EXCEPT ![t] = "reply"] ELSE pc' = pc
    BY <1>7 DEF Release, Goto
  <2> DEFINE F == cfd[t]
             M == cmem[t]
             H == Hugepages(e)
  <2>2. /\ F \in Fd /\ M \in Region /\ pc[t] = "release"
        /\ UNCHANGED <<out, cfd, cmem, fstate>>
    BY <1>7, <2>1 DEF Release, Pinned, TypeOK, InIoctl, table
  <2>3. \A u \in Thread : u # t => Aside(u)
    BY <1>7, StepAside DEF Step
  <2>4. H \subseteq Named(ext[t]) /\ Named(ext[t] \ {e}) = Named(ext[t]) \ H
    BY <2>1 DEF Named, Checked, NamesEachOnce
  <2>5. Carries(t) = Named(ext[t]) /\ Carries(t)' = Carries(t) \ H
    <3>1. CASE ext[t] = {e}
      <4>1. Named(ext[t]) = H /\ pc'[t] = "reply"
        BY <2>1, <3>1 DEF Named, TypeOK
      <4>2. QED
        BY <2>2, <4>1 DEF Carries
    <3>2. CASE ext[t] # {e}
      <4>1. pc'[t] = "release" /\ ext'[t] = ext[t] \ {e}
        BY <2>1, <2>2, <3>2 DEF TypeOK
      <4>2. QED
        BY <2>2, <2>4, <4>1 DEF Carries
    <3>3. QED
      BY <3>1, <3>2
  <2>6. hugepages' = [hugepages EXCEPT ![F][M] = @ \ H]
    BY <2>1 DEF ReleaseExtent
  <2>7. ASSUME NEW f \in Fd, NEW m \in Region, Followed(f)' PROVE Balanced(f, m)'
    <3>1. Followed(f) /\ Balanced(f, m)
      BY <1>7, <2>2, <2>7 DEF Followed, Booked
    <3>2. CASE f = F /\ m = M
      <4> DEFINE rest == hugepages[f][m] \ (granted[f][m] \cup Brings(t, f, m))
      <4>1. Brings(t, f, m) = Carries(t) /\ Brings(t, f, m)' = Carries(t) \ H
            /\ H \subseteq Brings(t, f, m)
        BY <2>2, <2>4, <2>5, <3>2 DEF Brings
      <4>2. hugepages'[f][m] = hugepages[f][m] \ H /\ granted'[f][m] = granted[f][m]
        BY <1>7, <2>2, <2>6, <3>2 DEF TypeOK
      <4>3. /\ hugepages[f][m] = granted[f][m] \cup Brings(t, f, m) \cup rest
            /\ granted[f][m] \cap Brings(t, f, m) = {}
            /\ rest \cap (granted[f][m] \cup Brings(t, f, m)) = {}
        BY <3>1 DEF Balanced
      <4>4. \A u \in Thread : u # t => Brings(u, f, m)' = Brings(u, f, m)
        BY <2>3, AsideBrings
      <4> HIDE DEF rest
      <4>5. /\ hugepages'[f][m] = granted'[f][m] \cup Brings(t, f, m)' \cup rest
            /\ granted'[f][m] \cap Brings(t, f, m)' = {}
            /\ rest \cap (granted'[f][m] \cup Brings(t, f, m)') = {}
        BY <4>1, <4>2, <4>3
      <4>6. QED
        BY <3>1, <4>4, <4>5, Balance DEF rest
    <3>3. CASE f # F \/ m # M
      <4>1. Brings(t, f, m) = {} /\ Brings(t, f, m)' = {}
        BY <2>2, <3>3 DEF Brings
      <4>2. UNCHANGED <<hugepages[f][m], granted[f][m]>>
        BY <1>7, <2>2, <2>6, <3>3 DEF TypeOK
      <4>3. QED
        BY <2>3, <3>1, <4>1, <4>2, StillBalanced
    <3>4. QED
      BY <3>2, <3>3
  <2>8. \A u \in Thread : pc'[u] = "commit" => ext'[u] \subseteq out'[u]
    <3>1. pc'[t] # "commit"
      BY <2>1, <2>2 DEF TypeOK
    <3>2. QED
      BY <2>3, <3>1 DEF Booked, Aside
  <2>9. QED
    BY <1>7, <2>2, <2>7, <2>8 DEF Booked
<1>8. ASSUME NEW t \in Thread, Die(t) PROVE Booked'
  <2>1. PICK f \in Fd :
          /\ CloseCall(t, f)
          /\ granted' = [granted EXCEPT ![f] = [m \in Region |-> {}]] /\ careless' = careless \ {f}
    BY <1>8 DEF Die
  <2>2. /\ pc[t] = "idle" /\ pc'[t] = "unlist" /\ UNCHANGED hugepages
        /\ fstate' = [fstate EXCEPT ![f] = "closing"] /\ Carries(t) = {} /\ Carries(t)' = {}
    BY <2>1 DEF CloseCall, Goto, TypeOK, held, Carries
  <2>3. \A u \in Thread : u # t => Aside(u)
    BY <2>1, StepAside
  <2>4. ASSUME NEW g \in Fd, NEW m \in Region, Followed(g)' PROVE Balanced(g, m)'
    <3>1. g # f /\ Followed(g) /\ Balanced(g, m)
      BY <2>1, <2>2, <2>4 DEF Followed, Booked, TypeOK
    <3>2. UNCHANGED <<hugepages[g][m], granted[g][m]>>
      BY <2>1, <2>2, <3>1 DEF Booked
    <3>3. Brings(t, g, m)' = Brings(t, g, m)
      BY <2>2 DEF Brings
    <3>4. QED
      BY <2>3, <3>1, <3>2, <3>3, StillBalanced
  <2>5. \A u \in Thread : pc'[u] = "commit" => ext'[u] \subseteq out'[u]
    BY <2>2, <2>3 DEF Booked, Aside
  <2>6. /\ granted' \in [Fd -> [Region -> SUBSET Nat]]
        /\ \A g \in Fd, m \in Region : fstate'[g] # "open" => granted'[g][m] = {}
    BY <2>1, <2>2 DEF Booked, TypeOK
  <2>7. QED
    BY <2>4, <2>5, <2>6 DEF Booked
<1>9. ASSUME NEW t \in Thread, Reclaim(t), UNCHANGED <<granted, careless>> PROVE Booked'
  <2>1. /\ pc[t] = "reclaim" /\ cfd[t] \in Fd /\ fstate[cfd[t]] = "closing"
        /\ \A f \in Fd : f # cfd[t] => hugepages'[f] = hugepages[f]
        /\ pc'[t] \in {"reclaim", "free_struct"} /\ UNCHANGED fstate
    BY <1>9 DEF Reclaim, Pinned, TypeOK, InClose, Goto, table
  <2>2. \A u \in Thread : u # t => Aside(u)
    BY <1>9, StepAside DEF Step
  <2>3. ASSUME NEW f \in Fd, NEW m \in Region, Followed(f)' PROVE Balanced(f, m)'
    <3>1. Followed(f) /\ Balanced(f, m) /\ hugepages'[f] = hugepages[f]
      BY <1>9, <2>1, <2>3 DEF Followed, Booked
    <3>2. Brings(t, f, m)' = Brings(t, f, m)
      BY <2>1 DEF Brings, Carries
    <3>3. QED
      BY <1>9, <2>2, <3>1, <3>2, StillBalanced
  <2>4. \A u \in Thread : pc'[u] = "commit" => ext'[u] \subseteq out'[u]
    BY <2>1, <2>2 DEF Booked, Aside
  <2>5. QED
    BY <1>9, <2>1, <2>3, <2>4 DEF Booked
<1>10. ASSUME NEW t \in Thread, FreeStruct(t), UNCHANGED <<granted, careless>> PROVE Booked'
  <2>1. /\ pc[t] = "free_struct" /\ pc'[t] = "idle" /\ UNCHANGED hugepages
        /\ cfd[t] \in Fd /\ fstate' = [fstate EXCEPT ![cfd[t]] = "closed"]
        /\ fstate[cfd[t]] = "closing"
    BY <1>10 DEF FreeStruct, Leave, Goto, Pinned, TypeOK, InClose
  <2>2. \A u \in Thread : u # t => Aside(u)
    BY <1>10, StepAside DEF Step
  <2>3. ASSUME NEW f \in Fd, NEW m \in Region, Followed(f)' PROVE Balanced(f, m)'
    <3>1. Followed(f) /\ Balanced(f, m)
      BY <1>10, <2>1, <2>3 DEF Followed, Booked, TypeOK
    <3>2. Brings(t, f, m)' = Brings(t, f, m)
      BY <2>1 DEF Brings, Carries
    <3>3. QED
      BY <1>10, <2>1, <2>2, <3>1, <3>2, StillBalanced
  <2>4. \A u \in Thread : pc'[u] = "commit" => ext'[u] \subseteq out'[u]
    BY <2>1, <2>2 DEF Booked, Aside
  <2>5. \A f \in Fd, m \in Region : fstate'[f] # "open" => granted'[f][m] = {}
    BY <1>10, <2>1 DEF Booked, TypeOK
  <2>6. QED
    BY <1>10, <2>3, <2>4, <2>5 DEF Booked
<1>11. ASSUME NEW f \in Fd, Open(f), UNCHANGED <<granted, careless>> PROVE Booked'
  <2>1. /\ UNCHANGED <<hugepages, pc, cfd, cmem, ext, out>>
        /\ fstate[f] = "closed" /\ fstate' = [fstate EXCEPT ![f] = "open"]
    BY <1>11 DEF Open, held, locals
  <2>2. \A t \in Thread, g \in Fd, m \in Region : Brings(t, g, m)' = Brings(t, g, m)
    BY <2>1 DEF Brings, Carries
  <2>3. \A t \in Thread, m \in Region : Brings(t, f, m) = {}
    <3>1. \A t \in Thread : cfd[t] # f
      BY <2>1, ThreadAssumption DEF Pinned, InIoctl, InClose, TypeOK
    <3>2. QED
      BY <3>1 DEF Brings
  <2>4. ASSUME NEW g \in Fd, NEW m \in Region, Followed(g)' PROVE Balanced(g, m)'
    <3>1. CASE g = f
      <4>1. hugepages[f][m] = {} /\ granted[f][m] = {}
        BY <2>1 DEF Emptied, ClosedHoldsNothing, Booked
      <4>2. QED
        BY <1>11, <2>1, <2>2, <2>3, <3>1, <4>1 DEF Balanced
    <3>2. CASE g # f
      <4>1. Balanced(g, m)
        BY <1>11, <2>1, <2>4, <3>2 DEF Followed, Booked, TypeOK
      <4>2. QED
        BY <1>11, <2>1, <2>2, <4>1 DEF Balanced
    <3>3. QED
      BY <3>1, <3>2
  <2>5. \A g \in Fd, m \in Region : fstate'[g] # "open" => granted'[g][m] = {}
    BY <1>11, <2>1 DEF Booked, TypeOK
  <2>6. QED
    BY <1>11, <2>1, <2>4, <2>5 DEF Booked
<1>12. ASSUME NEW t \in Thread, UNCHANGED <<granted, careless, hugepages, fstate>>,
              \A u \in Thread : u # t => Aside(u),
              Carries(t) = {} /\ Carries(t)' = {} /\ pc'[t] # "commit"
       PROVE  Booked'
  <2>1. \A f \in Fd, m \in Region : Brings(t, f, m)' = Brings(t, f, m)
    BY <1>12 DEF Brings
  <2>2. QED
    BY <1>12, <2>1, BooksKept
<1>13. ASSUME NEW t \in Thread, UNCHANGED <<granted, careless>>,
              \/ \E f \in Fd, m \in Region, req \in AllocRequests : AllocCall(t, f, m, req)
              \/ AllocLockFile(t)
       PROVE  Booked'
  <2>1. /\ UNCHANGED <<hugepages, fstate>> /\ pc'[t] # "commit"
        /\ Carries(t) = {} /\ Carries(t)' = {}
    BY <1>13 DEF AllocCall, AllocLockFile, held, table, Goto, TypeOK, Carries
  <2>2. \A u \in Thread : u # t => Aside(u)
    BY <1>13, StepAside DEF Step
  <2>3. QED
    BY <1>12, <1>13, <2>1, <2>2
<1>14. ASSUME NEW t \in Thread, UNCHANGED <<granted, careless>>, FreeLockFile(t) PROVE Booked'
  <2>1. /\ UNCHANGED <<hugepages, fstate, cfd, cmem, ext>> /\ pc[t] = "free_file" /\ pc'[t] = "free_led"
    BY <1>14 DEF FreeLockFile, held, table, Goto, TypeOK
  <2>2. \A u \in Thread : u # t => Aside(u)
    BY <1>14, StepAside DEF Step
  <2>3. \A f \in Fd, m \in Region : Brings(t, f, m)' = Brings(t, f, m)
    BY <2>1 DEF Brings, Carries
  <2>4. QED
    BY <1>14, <2>1, <2>2, <2>3, BooksKept
<1>15. ASSUME NEW t \in Thread, UNCHANGED <<granted, careless>>,
              Return(t) \/ CloseUnlist(t) \/ ReclaimLockFile(t)
       PROVE  Booked'
  <2>1. /\ UNCHANGED <<hugepages, fstate>> /\ pc'[t] # "commit"
        /\ Carries(t) = {} /\ Carries(t)' = {}
    BY <1>15 DEF Return, CloseUnlist, ReclaimLockFile, Leave, held, table, Goto, TypeOK, Carries
  <2>2. \A u \in Thread : u # t => Aside(u)
    BY <1>15, StepAside DEF Step
  <2>3. QED
    BY <1>12, <1>15, <2>1, <2>2
<1>16. ASSUME NEW t \in Thread, UNCHANGED <<granted, careless>>,
              \/ ProcCall(t) \/ ProcReadLedger(t) \/ ProcLockFiles(t) \/ ProcDone(t)
              \/ \E f \in Fd : ProcVisit(t, f)
       PROVE  Booked'
  <2>1. /\ UNCHANGED <<hugepages, fstate>> /\ pc'[t] # "commit"
        /\ Carries(t) = {} /\ Carries(t)' = {}
    BY <1>16 DEF ProcCall, ProcReadLedger, ProcLockFiles, ProcDone, ProcVisit, Leave, held, table,
                 Goto, TypeOK, Carries
  <2>2. \A u \in Thread : u # t => Aside(u)
    BY <1>16, StepAside DEF Step
  <2>3. QED
    BY <1>12, <1>16, <2>1, <2>2
<1>17. CASE UNCHANGED cvars
  <2>1. UNCHANGED <<hugepages, fstate, granted, careless, pc, cfd, cmem, ext, out>>
    BY <1>17 DEF cvars, vars, held, table, locals
  <2>2. \A t \in Thread, f \in Fd, m \in Region : Brings(t, f, m)' = Brings(t, f, m)
    BY <2>1 DEF Brings, Carries
  <2>3. QED
    BY <2>1, <2>2 DEF Booked, Balanced, Followed
<1>18. ASSUME NEW t \in Thread, Quiet(t) PROVE Booked'
  BY <1>1, <1>2, <1>4, <1>6, <1>7, <1>9, <1>10, <1>13, <1>14, <1>15, <1>16, <1>18 DEF Quiet, Step
<1>19. QED
  BY <1>3, <1>5, <1>8, <1>11, <1>17, <1>18 DEF CNext

------------------------------------------------------------------------------
(* Both invariants hold of the driver under its callers.                    *)
LEMMA CallersInductive == CSpec => []CIInv
<1>1. CIInv /\ [CNext]_cvars => CIInv'
  BY CallersStep, BookedStep, TypeStep, LockedStep, PinnedStep, CheckedStep, ExclusiveStep,
     CountersStep, EmptiedStep, LabelsStep, ListedStep, AnswersStep DEF CIInv, IInv
<1>2. QED
  BY InitBooked, <1>1, PTL DEF CSpec

(* The driver under its callers is the driver: with this, every theorem of  *)
(* PimLedgerProofs also holds of CSpec, which is what the run checks.       *)
THEOREM CallersRunTheDriver == CSpec => Spec
<1>1. CInit => Init
  BY DEF CInit
<1>2. QED
  BY <1>1, CallersStep, PTL DEF CSpec, Spec

(* What a call carries is what the run's property calls in transit.         *)
LEMMA TransitIsCarried ==
  ASSUME NEW f \in Fd, NEW m \in Region
  PROVE  InTransit(f, m) = UNION {Brings(t, f, m) : t \in Thread}
<1> DEFINE A == {u \in Thread : pc[u] = "commit" /\ cfd[u] = f /\ cmem[u] = m}
           B == {u \in Thread : pc[u] = "copyout" /\ cfd[u] = f /\ cmem[u] = m}
           C == {u \in Thread : pc[u] \in {"free_file", "free_led", "release"}
                               /\ cfd[u] = f /\ cmem[u] = m}
<1> DEFINE X == UNION {Named(out[t]) \ Named(ext[t]) : t \in A}
           Y == UNION {Named(out[t]) : t \in B}
           Z == UNION {Named(ext[t]) : t \in C}
<1>1. InTransit(f, m) = X \cup Y \cup Z
  BY DEF InTransit
<1>2. ASSUME NEW p, NEW t \in Thread
      PROVE  p \in Brings(t, f, m) <=>
               \/ t \in A /\ p \in Named(out[t]) \ Named(ext[t])
               \/ t \in B /\ p \in Named(out[t])
               \/ t \in C /\ p \in Named(ext[t])
  BY DEF Brings, Carries
<1>3. A \subseteq Thread /\ B \subseteq Thread /\ C \subseteq Thread
  OBVIOUS
<1> HIDE DEF A, B, C
<1>4. ASSUME NEW p PROVE p \in InTransit(f, m) <=> \E t \in Thread : p \in Brings(t, f, m)
  <2>1. p \in InTransit(f, m) <=>
          \/ \E t \in A : p \in Named(out[t]) \ Named(ext[t])
          \/ \E t \in B : p \in Named(out[t])
          \/ \E t \in C : p \in Named(ext[t])
    <3>1. p \in X <=> \E t \in A : p \in Named(out[t]) \ Named(ext[t])
      BY Zenon
    <3>2. p \in Y <=> \E t \in B : p \in Named(out[t])
      BY Zenon
    <3>3. p \in Z <=> \E t \in C : p \in Named(ext[t])
      BY Zenon
    <3> HIDE DEF X, Y, Z
    <3>4. p \in InTransit(f, m) <=> p \in X \/ p \in Y \/ p \in Z
      BY <1>1
    <3>5. QED
      BY <3>1, <3>2, <3>3, <3>4
  <2>2. QED
    BY <1>2, <1>3, <2>1
<1>5. QED
  BY <1>4

(* No leak by construction (pim_chunk.c:70-73): however calls of many       *)
(* threads interleave, fault and are rolled back, an open fd holds what its *)
(* careful callers were told and what calls in flight carry, and no more.   *)
THEOREM NothingIsForgotten == CSpec => []NothingForgotten
<1>1. ASSUME CIInv, NEW f \in Fd, NEW m \in Region, Followed(f)
      PROVE  /\ hugepages[f][m] = granted[f][m] \cup InTransit(f, m)
             /\ granted[f][m] \cap InTransit(f, m) = {}
  <2>1. Balanced(f, m)
    BY <1>1 DEF CIInv, Booked
  <2>2. InTransit(f, m) = UNION {Brings(t, f, m) : t \in Thread}
    BY TransitIsCarried
  <2>3. QED
    BY <2>1, <2>2 DEF Balanced
<1>2. CIInv => NothingForgotten
  BY <1>1 DEF NothingForgotten, Followed
<1>3. QED
  BY <1>2, CallersInductive, PTL

(* A FREE of hugepages that an ALLOC handed out is never refused, nor is    *)
(* the rollback whose result pim_file.c:193 ignores: no careful caller can  *)
(* be left with hugepages that nobody takes back.                           *)
THEOREM FreeOfItsOwnSucceeds == CSpec => []NeverRefusesItsOwn
<1>1. ASSUME CIInv, NEW t \in Thread, pc[t] \in {"free_file", "free_led"}, cfd[t] \notin careless
      PROVE  MayFree(ext[t], cfd[t], cmem[t])
  <2>1. cfd[t] \in Fd /\ cmem[t] \in Region /\ Followed(cfd[t])
    BY <1>1 DEF CIInv, IInv, Pinned, TypeOK, InIoctl, Followed
  <2>2. Brings(t, cfd[t], cmem[t]) = Named(ext[t])
    BY <1>1 DEF Brings, Carries
  <2>3. QED
    BY <1>1, <2>1, <2>2 DEF CIInv, Booked, Balanced, MayFree
<1>2. CIInv => NeverRefusesItsOwn
  BY <1>1 DEF NeverRefusesItsOwn
<1>3. QED
  BY <1>2, CallersInductive, PTL
==============================================================================
