--------------------------- MODULE PimDefaultProofs ----------------------------
(***************************************************************************)
(* Proofs about PimDefault, for any number of processes and of threads.    *)
(***************************************************************************)
EXTENDS PimDefault, TLAPS

At == Critical \cup {"idle", "gone", "init?", "lazy?"}

File == [by : Procs, cfg : Cfgs \cup {None}, midway : BOOLEAN]
Process == [ctx : Nat \cup {None}, cfg : Cfgs \cup {None}, tried : BOOLEAN, atfork : BOOLEAN,
            lock : Threads \cup {None}]
Place == [at : At, want : Cfgs \cup {None}, file : Nat \cup {None}]
TypeOK ==
  /\ g \in [Procs -> Process] /\ th \in [Procs -> [Threads -> Place]]
  /\ fds \in [Procs -> SUBSET Nat] /\ files \in Seq(File)
  /\ shut \subseteq Procs

By(p) == {i \in DOMAIN files : files[i].by = p}
Opening(p, i) == \E t \in Threads : th[p][t].at = "opening" /\ th[p][t].file = i

(* g_lock excludes: it names whoever is inside, and once the handler is     *)
(* registered, whoever it names is inside.                                  *)
Excludes ==
  /\ \A p \in Procs, t \in Threads : th[p][t].at \in Critical => g[p].lock = t
  /\ LockRemade

(* A process that is not there yet has done nothing.                        *)
Fresh ==
  \A p \in Procs : Unborn(p) => p \notin shut /\ By(p) = {}

(* A process opens once, after the handler is registered, and its file is   *)
(* the context, being opened, or closed again.                              *)
OpensOnce ==
  /\ \A i, j \in DOMAIN files : i # j => files[i].by # files[j].by
  /\ \A p \in Procs :
       /\ ~g[p].tried \/ ~g[p].atfork => By(p) = {}
       /\ p \in shut => g[p].tried /\ g[p].ctx = None
       /\ g[p].ctx # None => g[p].ctx \in By(p) \cap fds[p]
       /\ \A t \in Threads :
            /\ th[p][t].at \in {"try", "opening"} => g[p].atfork
            /\ th[p][t].at = "opening" => /\ th[p][t].file \in By(p) \cap fds[p]
                                          /\ g[p].ctx = None /\ p \notin shut

(* A descriptor is of a file the process opened itself, or of one that was  *)
(* being opened when a fork copied it.                                      *)
Descriptors ==
  \A p \in Procs :
    /\ fds[p] \subseteq DOMAIN files
    /\ \A i \in fds[p] : /\ files[i].by = p \/ files[i].midway
                         /\ files[i].by = p => i = g[p].ctx \/ Opening(p, i)

(* The file a process opened has the configuration that was let in last.    *)
Configured == \A p \in Procs : \A i \in By(p) : files[i].cfg = g[p].cfg

DInv == TypeOK /\ Excludes /\ Fresh /\ OpensOnce /\ Descriptors /\ Configured

(* A field that is assigned a value of its type leaves the record typed.    *)
LEMMA PlaceMoved ==
  ASSUME NEW r \in Place, NEW a \in At
  PROVE  [r EXCEPT !.at = a] \in Place
BY DEF Place

(* ... of the globals ...                                                  *)
LEMMA ProcessSet ==
  ASSUME NEW r \in Process
  PROVE  /\ \A x \in Nat \cup {None} : [r EXCEPT !.ctx = x] \in Process
         /\ \A x \in Cfgs \cup {None} : [r EXCEPT !.cfg = x] \in Process
         /\ \A x \in BOOLEAN : [r EXCEPT !.tried = x] \in Process
         /\ \A x \in BOOLEAN : [r EXCEPT !.atfork = x] \in Process
         /\ \A x \in Threads \cup {None} : [r EXCEPT !.lock = x] \in Process
<1>1. \A x \in Nat \cup {None} : [r EXCEPT !.ctx = x] \in Process
  BY DEF Process
<1>2. \A x \in Cfgs \cup {None} : [r EXCEPT !.cfg = x] \in Process
  BY DEF Process
<1>3. \A x \in BOOLEAN : [r EXCEPT !.tried = x] \in Process
  BY DEF Process
<1>4. \A x \in BOOLEAN : [r EXCEPT !.atfork = x] \in Process
  BY DEF Process
<1>5. \A x \in Threads \cup {None} : [r EXCEPT !.lock = x] \in Process
  BY DEF Process
<1>6. QED
  BY <1>1, <1>2, <1>3, <1>4, <1>5

(* ... and so the variables that hold them.                                 *)
LEMMA GType ==
  ASSUME g \in [Procs -> Process], NEW p \in Procs, NEW r \in Process, g' = [g EXCEPT ![p] = r]
  PROVE  g' \in [Procs -> Process]
OBVIOUS

(* The same for the threads.                                                *)
LEMMA ThType ==
  ASSUME TypeOK, NEW p \in Procs, NEW t \in Threads, NEW r \in Place, th' = [th EXCEPT ![p][t] = r]
  PROVE  th' \in [Procs -> [Threads -> Place]]
BY DEF TypeOK

(* A thread that goes on to another place is still typed.                   *)
LEMMA GoesType ==
  ASSUME TypeOK, NEW p \in Procs, NEW t \in Threads, NEW a \in At, Goes(p, t, a)
  PROVE  th' \in [Procs -> [Threads -> Place]]
<1>1. th' = [th EXCEPT ![p][t] = [th[p][t] EXCEPT !.at = a]]
  BY DEF Goes
<1>2. th[p][t] \in Place
  BY DEF TypeOK
<1>3. QED
  BY <1>1, <1>2, PlaceMoved, ThType

(* A process starts in the invariant.                                       *)
LEMMA InitDInv == DefaultInit => DInv
<1> SUFFICES ASSUME DefaultInit PROVE DInv
  OBVIOUS
<1> USE DefaultAssumption DEF DefaultInit, Globals, Outside, Gone
<1>1. TypeOK
  <2>1. Globals \in Process
    BY DEF Process
  <2>2. Outside \in Place /\ Gone \in Place
    BY DEF Place, At, Critical
  <2>3. QED
    BY <2>1, <2>2 DEF TypeOK
<1>2. Excludes /\ Fresh
  BY DEF Excludes, LockRemade, Orphaned, Critical, Fresh, By
<1>3. OpensOnce /\ Descriptors /\ Configured
  BY DEF OpensOnce, Descriptors, Configured, By
<1>4. QED
  BY <1>1, <1>2, <1>3 DEF DInv

(* Types are kept.                                                         *)
LEMMA TypeStep == DInv /\ [DefaultNext]_defaults => TypeOK'
<1> SUFFICES ASSUME DInv, [DefaultNext]_defaults PROVE TypeOK'
  OBVIOUS
<1> USE DefaultAssumption DEF DInv
<1>1. ASSUME NEW p \in Procs, NEW t \in Threads, NEW c \in Cfgs \cup {None}, CallInit(p, t, c) PROVE TypeOK'
  <2>1. p \in Procs /\ t \in Threads /\ g[p] \in Process /\ th[p][t] \in Place
    BY DEF TypeOK
  <2>2. g' \in [Procs -> Process]
    BY <1>1 DEF CallInit, TypeOK
  <2>3. th' \in [Procs -> [Threads -> Place]]
    <3>1. [Outside EXCEPT !.at = "init?", !.want = c] \in Place
      BY DEF Outside, Place, At, Critical
    <3>2. QED
      BY <1>1, <3>1, ThType DEF CallInit
  <2>4. fds' \in [Procs -> SUBSET Nat] /\ files' \in Seq(File)
    BY <1>1 DEF CallInit, TypeOK
  <2>5. shut' \subseteq Procs
    BY <1>1, <2>1 DEF CallInit, TypeOK, Place
  <2>6. QED
    BY <2>2, <2>3, <2>4, <2>5 DEF TypeOK
<1>2. ASSUME NEW p \in Procs, NEW t \in Threads, CallDefault(p, t) PROVE TypeOK'
  <2>1. p \in Procs /\ t \in Threads /\ g[p] \in Process /\ th[p][t] \in Place
    BY DEF TypeOK
  <2>2. g' \in [Procs -> Process]
    BY <1>2 DEF CallDefault, TypeOK
  <2>3. th' \in [Procs -> [Threads -> Place]]
    BY <1>2, GoesType DEF CallDefault, At, Critical
  <2>4. fds' \in [Procs -> SUBSET Nat] /\ files' \in Seq(File)
    BY <1>2 DEF CallDefault, TypeOK
  <2>5. shut' \subseteq Procs
    BY <1>2, <2>1 DEF CallDefault, TypeOK, Place
  <2>6. QED
    BY <2>2, <2>3, <2>4, <2>5 DEF TypeOK
<1>3. ASSUME NEW p \in Procs, NEW t \in Threads, InitLock(p, t) PROVE TypeOK'
  <2>1. p \in Procs /\ t \in Threads /\ g[p] \in Process /\ th[p][t] \in Place
    BY DEF TypeOK
  <2>2. g' \in [Procs -> Process]
    <3>1. g' = [g EXCEPT ![p] = [g[p] EXCEPT !.lock = t]]
      BY <1>3 DEF InitLock, Unlocked, ShutDown
    <3>2. QED
      BY <2>1, <3>1, ProcessSet, GType DEF TypeOK
  <2>3. th' \in [Procs -> [Threads -> Place]]
    BY <1>3, GoesType DEF InitLock, At, Critical
  <2>4. fds' \in [Procs -> SUBSET Nat] /\ files' \in Seq(File)
    BY <1>3 DEF InitLock, TypeOK
  <2>5. shut' \subseteq Procs
    BY <1>3, <2>1 DEF InitLock, TypeOK, Place
  <2>6. QED
    BY <2>2, <2>3, <2>4, <2>5 DEF TypeOK
<1>4. ASSUME NEW p \in Procs, NEW t \in Threads, InitBody(p, t) PROVE TypeOK'
  <2>1. p \in Procs /\ t \in Threads /\ g[p] \in Process /\ th[p][t] \in Place
    BY DEF TypeOK
  <2>2. g' \in [Procs -> Process]
    <3>1. PICK c \in Cfgs \cup {None} : g' = [g EXCEPT ![p] = [[g[p] EXCEPT !.cfg = c] EXCEPT !.lock = None]]
      <4>1. th[p][t].want \in Cfgs \cup {None} /\ g[p].cfg \in Cfgs \cup {None}
        BY <2>1 DEF Place, Process
      <4>2. g' = [g EXCEPT ![p] = [[g[p] EXCEPT !.cfg =
                    IF th[p][t].want # None /\ ~TooLate(p, th[p][t].want) THEN th[p][t].want ELSE g[p].cfg]
                    EXCEPT !.lock = None]]
        BY <1>4 DEF InitBody, Unlocked
      <4>3. QED
        BY <4>1, <4>2
    <3>2. [[g[p] EXCEPT !.cfg = c] EXCEPT !.lock = None] \in Process
      BY <2>1, ProcessSet
    <3>3. QED
      BY <3>1, <3>2, GType DEF TypeOK
  <2>3. th' \in [Procs -> [Threads -> Place]]
    <3>1. Outside \in Place /\ [Outside EXCEPT !.at = "lazy?"] \in Place
      BY DEF Outside, Place, At, Critical
    <3>2. th' = [th EXCEPT ![p][t] = IF TooLate(p, th[p][t].want) THEN Outside
                                     ELSE [Outside EXCEPT !.at = "lazy?"]]
      BY <1>4 DEF InitBody
    <3>3. QED
      BY <3>1, <3>2, ThType
  <2>4. fds' \in [Procs -> SUBSET Nat] /\ files' \in Seq(File)
    BY <1>4 DEF InitBody, TypeOK
  <2>5. shut' \subseteq Procs
    BY <1>4, <2>1 DEF InitBody, TypeOK, Place
  <2>6. QED
    BY <2>2, <2>3, <2>4, <2>5 DEF TypeOK
<1>5. ASSUME NEW p \in Procs, NEW t \in Threads, LazyLock(p, t) PROVE TypeOK'
  <2>1. p \in Procs /\ t \in Threads /\ g[p] \in Process /\ th[p][t] \in Place
    BY DEF TypeOK
  <2>2. g' \in [Procs -> Process]
    <3>1. g' = [g EXCEPT ![p] = [g[p] EXCEPT !.lock = t]]
      BY <1>5 DEF LazyLock, Unlocked, ShutDown
    <3>2. QED
      BY <2>1, <3>1, ProcessSet, GType DEF TypeOK
  <2>3. th' \in [Procs -> [Threads -> Place]]
    BY <1>5, GoesType DEF LazyLock, At, Critical
  <2>4. fds' \in [Procs -> SUBSET Nat] /\ files' \in Seq(File)
    BY <1>5 DEF LazyLock, TypeOK
  <2>5. shut' \subseteq Procs
    BY <1>5, <2>1 DEF LazyLock, TypeOK, Place
  <2>6. QED
    BY <2>2, <2>3, <2>4, <2>5 DEF TypeOK
<1>6. ASSUME NEW p \in Procs, NEW t \in Threads, LazyRegister(p, t) PROVE TypeOK'
  <2>1. p \in Procs /\ t \in Threads /\ g[p] \in Process /\ th[p][t] \in Place
    BY DEF TypeOK
  <2>2. g' \in [Procs -> Process]
    <3>1. g' = [g EXCEPT ![p] = [g[p] EXCEPT !.atfork = TRUE]]
      BY <1>6 DEF LazyRegister, Unlocked, ShutDown
    <3>2. QED
      BY <2>1, <3>1, ProcessSet, GType DEF TypeOK
  <2>3. th' \in [Procs -> [Threads -> Place]]
    BY <1>6, GoesType DEF LazyRegister, At, Critical
  <2>4. fds' \in [Procs -> SUBSET Nat] /\ files' \in Seq(File)
    BY <1>6 DEF LazyRegister, TypeOK
  <2>5. shut' \subseteq Procs
    BY <1>6, <2>1 DEF LazyRegister, TypeOK, Place
  <2>6. QED
    BY <2>2, <2>3, <2>4, <2>5 DEF TypeOK
<1>7. ASSUME NEW p \in Procs, NEW t \in Threads, LazyOpen(p, t) PROVE TypeOK'
  <2>1. p \in Procs /\ t \in Threads /\ g[p] \in Process /\ th[p][t] \in Place
    BY DEF TypeOK
  <2>2. g' \in [Procs -> Process]
    <3>1. g' = [g EXCEPT ![p] = [g[p] EXCEPT !.tried = TRUE]]
      BY <1>7 DEF LazyOpen, Unlocked, ShutDown
    <3>2. QED
      BY <2>1, <3>1, ProcessSet, GType DEF TypeOK
  <2>3. th' \in [Procs -> [Threads -> Place]]
    <3>1. [th[p][t] EXCEPT !.at = "opening", !.file = Len(files) + 1] \in Place
      <4>1. Len(files) + 1 \in Nat /\ "opening" \in At
        BY DEF TypeOK, At, Critical
      <4>2. QED
        BY <2>1, <4>1 DEF Place
    <3>2. QED
      BY <1>7, <3>1, ThType DEF LazyOpen
  <2>4. fds' \in [Procs -> SUBSET Nat] /\ files' \in Seq(File)
    <3>1. Len(files) + 1 \in Nat /\ [by |-> p, cfg |-> g[p].cfg, midway |-> FALSE] \in File
      BY <2>1 DEF TypeOK, File, Process
    <3>2. QED
      BY <1>7, <3>1 DEF LazyOpen, TypeOK
  <2>5. shut' \subseteq Procs
    BY <1>7, <2>1 DEF LazyOpen, TypeOK, Place
  <2>6. QED
    BY <2>2, <2>3, <2>4, <2>5 DEF TypeOK
<1>8. ASSUME NEW p \in Procs, NEW t \in Threads, LazyOpened(p, t) PROVE TypeOK'
  <2>1. p \in Procs /\ t \in Threads /\ g[p] \in Process /\ th[p][t] \in Place
    BY DEF TypeOK
  <2>2. g' \in [Procs -> Process]
    <3>1. th[p][t].file \in Nat \cup {None}
      BY <2>1 DEF Place
    <3>2. g' = [g EXCEPT ![p] = [g[p] EXCEPT !.ctx = th[p][t].file]]
      BY <1>8 DEF LazyOpened
    <3>3. QED
      BY <2>1, <3>1, <3>2, ProcessSet, GType DEF TypeOK
  <2>3. th' \in [Procs -> [Threads -> Place]]
    BY <1>8, GoesType DEF LazyOpened, At, Critical
  <2>4. fds' \in [Procs -> SUBSET Nat] /\ files' \in Seq(File)
    BY <1>8 DEF LazyOpened, TypeOK
  <2>5. shut' \subseteq Procs
    BY <1>8, <2>1 DEF LazyOpened, TypeOK, Place
  <2>6. QED
    BY <2>2, <2>3, <2>4, <2>5 DEF TypeOK
<1>9. ASSUME NEW p \in Procs, NEW t \in Threads, LazyFailed(p, t) PROVE TypeOK'
  <2>1. p \in Procs /\ t \in Threads /\ g[p] \in Process /\ th[p][t] \in Place
    BY DEF TypeOK
  <2>2. g' \in [Procs -> Process]
    <3>1. g' = g \/ g' = [g EXCEPT ![p] = [g[p] EXCEPT !.tried = TRUE]]
      BY <1>9 DEF LazyFailed
    <3>2. QED
      BY <2>1, <3>1, ProcessSet, GType DEF TypeOK
  <2>3. th' \in [Procs -> [Threads -> Place]]
    BY <1>9, GoesType DEF LazyFailed, At, Critical
  <2>4. fds' \in [Procs -> SUBSET Nat] /\ files' \in Seq(File)
    BY <1>9 DEF LazyFailed, TypeOK
  <2>5. shut' \subseteq Procs
    BY <1>9, <2>1 DEF LazyFailed, TypeOK, Place
  <2>6. QED
    BY <2>2, <2>3, <2>4, <2>5 DEF TypeOK
<1>10. ASSUME NEW p \in Procs, NEW t \in Threads, LazyDone(p, t) PROVE TypeOK'
  <2>1. p \in Procs /\ t \in Threads /\ g[p] \in Process /\ th[p][t] \in Place
    BY DEF TypeOK
  <2>2. g' \in [Procs -> Process]
    <3>1. g' = [g EXCEPT ![p] = [g[p] EXCEPT !.lock = None]]
      BY <1>10 DEF LazyDone, Unlocked, ShutDown
    <3>2. QED
      BY <2>1, <3>1, ProcessSet, GType DEF TypeOK
  <2>3. th' \in [Procs -> [Threads -> Place]]
    <3>1. Outside \in Place
      BY DEF Outside, Place, At, Critical
    <3>2. th' = [th EXCEPT ![p][t] = Outside]
      BY <1>10 DEF LazyDone
    <3>3. QED
      BY <3>1, <3>2, ThType
  <2>4. fds' \in [Procs -> SUBSET Nat] /\ files' \in Seq(File)
    BY <1>10 DEF LazyDone, TypeOK
  <2>5. shut' \subseteq Procs
    BY <1>10, <2>1 DEF LazyDone, TypeOK, Place
  <2>6. QED
    BY <2>2, <2>3, <2>4, <2>5 DEF TypeOK
<1>11. ASSUME NEW p \in Procs, NEW t \in Threads, CallShutdown(p, t) PROVE TypeOK'
  <2>1. p \in Procs /\ t \in Threads /\ g[p] \in Process /\ th[p][t] \in Place
    BY DEF TypeOK
  <2>2. g' \in [Procs -> Process]
    <3>1. g' = [g EXCEPT ![p] = [[g[p] EXCEPT !.ctx = None] EXCEPT !.tried = TRUE]]
      BY <1>11 DEF CallShutdown, ShutDown
    <3>2. [[g[p] EXCEPT !.ctx = None] EXCEPT !.tried = TRUE] \in Process
      BY <2>1, ProcessSet
    <3>3. QED
      BY <3>1, <3>2, GType DEF TypeOK
  <2>3. th' \in [Procs -> [Threads -> Place]]
    BY <1>11 DEF CallShutdown, TypeOK
  <2>4. fds' \in [Procs -> SUBSET Nat] /\ files' \in Seq(File)
    BY <1>11 DEF CallShutdown, TypeOK
  <2>5. shut' \subseteq Procs
    BY <1>11, <2>1 DEF CallShutdown, TypeOK, Place
  <2>6. QED
    BY <2>2, <2>3, <2>4, <2>5 DEF TypeOK
<1>12. ASSUME NEW p \in Procs, NEW t \in Threads, NEW q \in Procs, Fork(p, t, q) PROVE TypeOK'
  <2>1. p \in Procs /\ t \in Threads /\ g[p] \in Process /\ th[p][t] \in Place
    BY DEF TypeOK
  <2>2. g' \in [Procs -> Process]
    <3>1. Dropped(g[p]) \in Process
      <4>1. [[[g[p] EXCEPT !.ctx = None] EXCEPT !.tried = FALSE] EXCEPT !.lock = None] \in Process
        BY <2>1, ProcessSet
      <4>2. QED
        BY <2>1, <4>1 DEF Dropped
    <3>2. QED
      BY <1>12, <3>1, GType DEF Fork, TypeOK
  <2>3. th' \in [Procs -> [Threads -> Place]]
    <3>1. Outside \in Place
      BY DEF Outside, Place, At, Critical
    <3>2. QED
      BY <1>12, <3>1, ThType DEF Fork
  <2>4. fds' \in [Procs -> SUBSET Nat] /\ files' \in Seq(File)
    <3>1. fds' \in [Procs -> SUBSET Nat]
      BY <1>12 DEF Fork, TypeOK, FilesLeft
    <3>2. ASSUME NEW i \in DOMAIN files, NEW b \in BOOLEAN
          PROVE  [files[i] EXCEPT !.midway = files[i].midway \/ b] \in File
      <4>1. files[i] \in File
        BY DEF TypeOK
      <4>2. QED
        BY <4>1 DEF File
    <3>3. files' \in Seq(File)
      <4>1. DOMAIN files = 1 .. Len(files) /\ Len(files) \in Nat
        BY DEF TypeOK
      <4>2. files' = [i \in DOMAIN files |-> [files[i] EXCEPT !.midway =
              files[i].midway \/ \E u \in Threads : th[p][u].at = "opening" /\ th[p][u].file = i]]
        BY <1>12 DEF Fork
      <4>3. files' \in [1 .. Len(files) -> File]
        BY <3>2, <4>1, <4>2
      <4>4. QED
        BY <4>1, <4>3
    <3>4. QED
      BY <3>1, <3>3
  <2>5. shut' \subseteq Procs
    BY <1>12, <2>1 DEF Fork, TypeOK, Place
  <2>6. QED
    BY <2>2, <2>3, <2>4, <2>5 DEF TypeOK
<1>13. CASE UNCHANGED defaults
  BY <1>13 DEF defaults, TypeOK, File
<1>14. QED
  BY <1>1, <1>2, <1>3, <1>4, <1>5, <1>6, <1>7, <1>8, <1>9, <1>10, <1>11, <1>12, <1>13
     DEF DefaultNext

(* The lock of the process that steps is the only one that changes hands.   *)
LEMMA OnlyItsLock ==
  ASSUME Excludes, NEW p \in Procs,
         \A q \in Procs : q # p => g'[q] = g[q] /\ th'[q] = th[q],
         \A u \in Threads : th'[p][u].at \in Critical => g'[p].lock = u,
         g'[p].lock = None \/ th'[p][g'[p].lock].at \in Critical
  PROVE  Excludes'
BY DEF Excludes, LockRemade, Orphaned

(* The lock keeps excluding.                                                *)
LEMMA ExcludesStep == DInv /\ [DefaultNext]_defaults => Excludes'
<1> SUFFICES ASSUME DInv, [DefaultNext]_defaults PROVE Excludes'
  OBVIOUS
<1> USE DefaultAssumption DEF DInv
<1> USE DEF TypeOK, Process, Place, Excludes, LockRemade, Orphaned, At, Critical, Outside, Gone, Goes,
            Locks, Unlocked, ShutDown, Dropped, Unborn
<1>1. ASSUME NEW p \in Procs, NEW t \in Threads, NEW c \in Cfgs \cup {None}, CallInit(p, t, c) PROVE Excludes'
  BY <1>1 DEF CallInit
<1>2. ASSUME NEW p \in Procs, NEW t \in Threads, CallDefault(p, t) PROVE Excludes'
  BY <1>2 DEF CallDefault
<1>3. ASSUME NEW p \in Procs, NEW t \in Threads, InitLock(p, t) PROVE Excludes'
  BY <1>3 DEF InitLock
<1>4. ASSUME NEW p \in Procs, NEW t \in Threads, InitBody(p, t) PROVE Excludes'
  <2>1. g'[p].lock = None /\ \A q \in Procs : q # p => g'[q] = g[q] /\ th'[q] = th[q]
    BY <1>4 DEF InitBody
  <2>2. th'[p][t].at \notin Critical /\ \A u \in Threads : u # t => th'[p][u] = th[p][u]
    BY <1>4 DEF InitBody
  <2>3. g[p].lock = t
    BY <1>4 DEF InitBody
  <2>4. \A u \in Threads : th'[p][u].at \in Critical => g'[p].lock = u
    BY <2>2, <2>3 DEF Excludes
  <2>5. QED
    BY <2>1, <2>4, OnlyItsLock
<1>5. ASSUME NEW p \in Procs, NEW t \in Threads, LazyLock(p, t) PROVE Excludes'
  BY <1>5 DEF LazyLock
<1>6. ASSUME NEW p \in Procs, NEW t \in Threads, LazyRegister(p, t) PROVE Excludes'
  <2>1. g'[p].lock = g[p].lock /\ \A q \in Procs : q # p => g'[q] = g[q] /\ th'[q] = th[q]
    BY <1>6 DEF LazyRegister
  <2>2. th'[p][t].at = "try" /\ \A u \in Threads : u # t => th'[p][u] = th[p][u]
    BY <1>6 DEF LazyRegister
  <2>3. g[p].lock = t
    BY <1>6 DEF LazyRegister
  <2>4. \A u \in Threads : th'[p][u].at \in Critical => g'[p].lock = u
    BY <2>1, <2>2, <2>3 DEF Excludes
  <2>5. th'[p][g'[p].lock].at \in Critical
    BY <2>1, <2>2, <2>3
  <2>6. QED
    BY <2>1, <2>4, <2>5, OnlyItsLock
<1>7. ASSUME NEW p \in Procs, NEW t \in Threads, LazyOpen(p, t) PROVE Excludes'
  <2>1. g'[p].lock = g[p].lock /\ \A q \in Procs : q # p => g'[q] = g[q] /\ th'[q] = th[q]
    BY <1>7 DEF LazyOpen
  <2>2. th'[p][t].at = "opening" /\ \A u \in Threads : u # t => th'[p][u] = th[p][u]
    BY <1>7 DEF LazyOpen
  <2>3. g[p].lock = t
    BY <1>7 DEF LazyOpen
  <2>4. \A u \in Threads : th'[p][u].at \in Critical => g'[p].lock = u
    BY <2>1, <2>2, <2>3 DEF Excludes
  <2>5. th'[p][g'[p].lock].at \in Critical
    BY <2>1, <2>2, <2>3
  <2>6. QED
    BY <2>1, <2>4, <2>5, OnlyItsLock
<1>8. ASSUME NEW p \in Procs, NEW t \in Threads, LazyOpened(p, t) PROVE Excludes'
  <2>1. g'[p].lock = g[p].lock /\ \A q \in Procs : q # p => g'[q] = g[q] /\ th'[q] = th[q]
    BY <1>8 DEF LazyOpened
  <2>2. th'[p][t].at = "done" /\ \A u \in Threads : u # t => th'[p][u] = th[p][u]
    BY <1>8 DEF LazyOpened
  <2>3. g[p].lock = t
    BY <1>8 DEF LazyOpened
  <2>4. \A u \in Threads : th'[p][u].at \in Critical => g'[p].lock = u
    BY <2>1, <2>2, <2>3 DEF Excludes
  <2>5. th'[p][g'[p].lock].at \in Critical
    BY <2>1, <2>2, <2>3
  <2>6. QED
    BY <2>1, <2>4, <2>5, OnlyItsLock
<1>9. ASSUME NEW p \in Procs, NEW t \in Threads, LazyFailed(p, t) PROVE Excludes'
  <2>1. g'[p].lock = g[p].lock /\ \A q \in Procs : q # p => g'[q] = g[q] /\ th'[q] = th[q]
    BY <1>9 DEF LazyFailed
  <2>2. th'[p][t].at = "done" /\ \A u \in Threads : u # t => th'[p][u] = th[p][u]
    BY <1>9 DEF LazyFailed
  <2>3. g[p].lock = t
    BY <1>9 DEF LazyFailed
  <2>4. \A u \in Threads : th'[p][u].at \in Critical => g'[p].lock = u
    BY <2>1, <2>2, <2>3 DEF Excludes
  <2>5. th'[p][g'[p].lock].at \in Critical
    BY <2>1, <2>2, <2>3
  <2>6. QED
    BY <2>1, <2>4, <2>5, OnlyItsLock
<1>10. ASSUME NEW p \in Procs, NEW t \in Threads, LazyDone(p, t) PROVE Excludes'
  BY <1>10 DEF LazyDone
<1>11. ASSUME NEW p \in Procs, NEW t \in Threads, CallShutdown(p, t) PROVE Excludes'
  BY <1>11 DEF CallShutdown
<1>12. ASSUME NEW p \in Procs, NEW t \in Threads, NEW q \in Procs, Fork(p, t, q) PROVE Excludes'
  BY <1>12 DEF Fork
<1>13. CASE UNCHANGED defaults
  BY <1>13 DEF defaults
<1>14. QED
  BY <1>1, <1>2, <1>3, <1>4, <1>5, <1>6, <1>7, <1>8, <1>9, <1>10, <1>11, <1>12, <1>13
     DEF DefaultNext

(* What a fork does to the record of the files: only the marks change.      *)
LEMMA ForkFiles ==
  ASSUME TypeOK, NEW p \in Procs, NEW t \in Threads, NEW q \in Procs, Fork(p, t, q)
  PROVE  /\ DOMAIN files' = DOMAIN files
         /\ \A i \in DOMAIN files :
              /\ files'[i].by = files[i].by /\ files'[i].cfg = files[i].cfg
              /\ files'[i].midway <=> files[i].midway \/ Opening(p, i)
<1>1. DOMAIN files' = DOMAIN files
  BY DEF Fork
<1>2. ASSUME NEW i \in DOMAIN files
      PROVE  /\ files'[i].by = files[i].by /\ files'[i].cfg = files[i].cfg
             /\ files'[i].midway <=> files[i].midway \/ Opening(p, i)
  <2>1. files[i] \in File
    BY DEF TypeOK
  <2>2. files'[i] = [files[i] EXCEPT !.midway = files[i].midway \/ Opening(p, i)]
    BY DEF Fork, Opening
  <2>3. QED
    BY <2>1, <2>2 DEF File
<1>3. QED
  BY <1>1, <1>2

(* Whoever is not there after a step was not there before, and did nothing. *)
LEMMA StillUnborn ==
  ASSUME Fresh, NEW p \in Procs, NEW t \in Threads,
         \A q \in Procs : q # p => th'[q] = th[q],
         th'[p][t].at # "gone",
         \A q \in shut' : q = p \/ q \in shut,
         \A i \in DOMAIN files' : (i \in DOMAIN files /\ files'[i].by = files[i].by) \/ files'[i].by = p
  PROVE  Fresh'
<1>1. ASSUME NEW q \in Procs, Unborn(q)' PROVE q # p /\ Unborn(q)
  <2>1. Gone.at = "gone"
    BY DEF Gone, Outside
  <2>2. q # p
    BY <1>1, <2>1 DEF Unborn
  <2>3. QED
    BY <1>1, <2>2 DEF Unborn
<1>2. QED
  BY <1>1 DEF Fresh, By

(* Nobody acts for a process that is not there.                            *)
LEMMA FreshStep == DInv /\ [DefaultNext]_defaults => Fresh'
<1> SUFFICES ASSUME DInv, [DefaultNext]_defaults PROVE Fresh'
  OBVIOUS
<1> USE DefaultAssumption DEF DInv
<1>1. ASSUME NEW p \in Procs, NEW t \in Threads, NEW c \in Cfgs \cup {None}, CallInit(p, t, c) PROVE Fresh'
  <2>1. (\A q \in Procs : q # p => th'[q] = th[q]) /\ th'[p][t].at # "gone"
    BY <1>1 DEF CallInit, TypeOK, Place, Outside, Goes
  <2>2. \A q \in shut' : q = p \/ q \in shut
    BY <1>1 DEF CallInit
  <2>3. \A i \in DOMAIN files' : i \in DOMAIN files /\ files'[i].by = files[i].by
    BY <1>1 DEF CallInit
  <2>4. QED
    BY <2>1, <2>2, <2>3, StillUnborn
<1>2. ASSUME NEW p \in Procs, NEW t \in Threads, CallDefault(p, t) PROVE Fresh'
  <2>1. (\A q \in Procs : q # p => th'[q] = th[q]) /\ th'[p][t].at # "gone"
    BY <1>2 DEF CallDefault, TypeOK, Place, Outside, Goes
  <2>2. \A q \in shut' : q = p \/ q \in shut
    BY <1>2 DEF CallDefault
  <2>3. \A i \in DOMAIN files' : i \in DOMAIN files /\ files'[i].by = files[i].by
    BY <1>2 DEF CallDefault
  <2>4. QED
    BY <2>1, <2>2, <2>3, StillUnborn
<1>3. ASSUME NEW p \in Procs, NEW t \in Threads, InitLock(p, t) PROVE Fresh'
  <2>1. (\A q \in Procs : q # p => th'[q] = th[q]) /\ th'[p][t].at # "gone"
    BY <1>3 DEF InitLock, TypeOK, Place, Outside, Goes
  <2>2. \A q \in shut' : q = p \/ q \in shut
    BY <1>3 DEF InitLock
  <2>3. \A i \in DOMAIN files' : i \in DOMAIN files /\ files'[i].by = files[i].by
    BY <1>3 DEF InitLock
  <2>4. QED
    BY <2>1, <2>2, <2>3, StillUnborn
<1>4. ASSUME NEW p \in Procs, NEW t \in Threads, InitBody(p, t) PROVE Fresh'
  <2>1. (\A q \in Procs : q # p => th'[q] = th[q]) /\ th'[p][t].at # "gone"
    BY <1>4 DEF InitBody, TypeOK, Place, Outside, Goes
  <2>2. \A q \in shut' : q = p \/ q \in shut
    BY <1>4 DEF InitBody
  <2>3. \A i \in DOMAIN files' : i \in DOMAIN files /\ files'[i].by = files[i].by
    BY <1>4 DEF InitBody
  <2>4. QED
    BY <2>1, <2>2, <2>3, StillUnborn
<1>5. ASSUME NEW p \in Procs, NEW t \in Threads, LazyLock(p, t) PROVE Fresh'
  <2>1. (\A q \in Procs : q # p => th'[q] = th[q]) /\ th'[p][t].at # "gone"
    BY <1>5 DEF LazyLock, TypeOK, Place, Outside, Goes
  <2>2. \A q \in shut' : q = p \/ q \in shut
    BY <1>5 DEF LazyLock
  <2>3. \A i \in DOMAIN files' : i \in DOMAIN files /\ files'[i].by = files[i].by
    BY <1>5 DEF LazyLock
  <2>4. QED
    BY <2>1, <2>2, <2>3, StillUnborn
<1>6. ASSUME NEW p \in Procs, NEW t \in Threads, LazyRegister(p, t) PROVE Fresh'
  <2>1. (\A q \in Procs : q # p => th'[q] = th[q]) /\ th'[p][t].at # "gone"
    BY <1>6 DEF LazyRegister, TypeOK, Place, Outside, Goes
  <2>2. \A q \in shut' : q = p \/ q \in shut
    BY <1>6 DEF LazyRegister
  <2>3. \A i \in DOMAIN files' : i \in DOMAIN files /\ files'[i].by = files[i].by
    BY <1>6 DEF LazyRegister
  <2>4. QED
    BY <2>1, <2>2, <2>3, StillUnborn
<1>7. ASSUME NEW p \in Procs, NEW t \in Threads, LazyOpen(p, t) PROVE Fresh'
  <2>1. (\A q \in Procs : q # p => th'[q] = th[q]) /\ th'[p][t].at # "gone"
    BY <1>7 DEF LazyOpen, TypeOK, Place, Outside, Goes
  <2>2. \A q \in shut' : q = p \/ q \in shut
    BY <1>7 DEF LazyOpen
  <2>3. \A i \in DOMAIN files' : (i \in DOMAIN files /\ files'[i].by = files[i].by) \/ files'[i].by = p
    BY <1>7 DEF LazyOpen, TypeOK, File
  <2>4. QED
    BY <2>1, <2>2, <2>3, StillUnborn
<1>8. ASSUME NEW p \in Procs, NEW t \in Threads, LazyOpened(p, t) PROVE Fresh'
  <2>1. (\A q \in Procs : q # p => th'[q] = th[q]) /\ th'[p][t].at # "gone"
    BY <1>8 DEF LazyOpened, TypeOK, Place, Outside, Goes
  <2>2. \A q \in shut' : q = p \/ q \in shut
    BY <1>8 DEF LazyOpened
  <2>3. \A i \in DOMAIN files' : i \in DOMAIN files /\ files'[i].by = files[i].by
    BY <1>8 DEF LazyOpened
  <2>4. QED
    BY <2>1, <2>2, <2>3, StillUnborn
<1>9. ASSUME NEW p \in Procs, NEW t \in Threads, LazyFailed(p, t) PROVE Fresh'
  <2>1. (\A q \in Procs : q # p => th'[q] = th[q]) /\ th'[p][t].at # "gone"
    BY <1>9 DEF LazyFailed, TypeOK, Place, Outside, Goes
  <2>2. \A q \in shut' : q = p \/ q \in shut
    BY <1>9 DEF LazyFailed
  <2>3. \A i \in DOMAIN files' : i \in DOMAIN files /\ files'[i].by = files[i].by
    BY <1>9 DEF LazyFailed
  <2>4. QED
    BY <2>1, <2>2, <2>3, StillUnborn
<1>10. ASSUME NEW p \in Procs, NEW t \in Threads, LazyDone(p, t) PROVE Fresh'
  <2>1. (\A q \in Procs : q # p => th'[q] = th[q]) /\ th'[p][t].at # "gone"
    BY <1>10 DEF LazyDone, TypeOK, Place, Outside, Goes
  <2>2. \A q \in shut' : q = p \/ q \in shut
    BY <1>10 DEF LazyDone
  <2>3. \A i \in DOMAIN files' : i \in DOMAIN files /\ files'[i].by = files[i].by
    BY <1>10 DEF LazyDone
  <2>4. QED
    BY <2>1, <2>2, <2>3, StillUnborn
<1>11. ASSUME NEW p \in Procs, NEW t \in Threads, CallShutdown(p, t) PROVE Fresh'
  <2>1. (\A q \in Procs : q # p => th'[q] = th[q]) /\ th'[p][t].at # "gone"
    BY <1>11 DEF CallShutdown, TypeOK, Place, Outside, Goes
  <2>2. \A q \in shut' : q = p \/ q \in shut
    BY <1>11 DEF CallShutdown
  <2>3. \A i \in DOMAIN files' : i \in DOMAIN files /\ files'[i].by = files[i].by
    BY <1>11 DEF CallShutdown
  <2>4. QED
    BY <2>1, <2>2, <2>3, StillUnborn
<1>12. ASSUME NEW p \in Procs, NEW t \in Threads, NEW q \in Procs, Fork(p, t, q) PROVE Fresh'
  <2>1. \A r \in Procs : r # q => th'[r] = th[r]
    BY <1>12 DEF Fork, TypeOK
  <2>2. th'[q][t].at # "gone"
    BY <1>12 DEF Fork, TypeOK, Outside
  <2>3. \A i \in DOMAIN files' : i \in DOMAIN files /\ files'[i].by = files[i].by
    BY <1>12, ForkFiles
  <2>4. shut' = shut
    BY <1>12 DEF Fork
  <2>5. QED
    BY <2>1, <2>2, <2>3, <2>4, StillUnborn
<1>13. CASE UNCHANGED defaults
  BY <1>13 DEF defaults, Fresh, By, Unborn
<1>14. QED
  BY <1>1, <1>2, <1>3, <1>4, <1>5, <1>6, <1>7, <1>8, <1>9, <1>10, <1>11, <1>12, <1>13
     DEF DefaultNext

(* What a fork does to everything else: the child starts with its parent's  *)
(* configuration and no context, no file of its own and no call.            *)
LEMMA ForkEffect ==
  ASSUME DInv, NEW p \in Procs, NEW t \in Threads, NEW q \in Procs, Fork(p, t, q)
  PROVE  /\ q # p /\ q \notin shut /\ By(q) = {}
         /\ \A r \in Procs : By(r)' = By(r)
         /\ \A r \in Procs : r # q => /\ g'[r] = g[r] /\ th'[r] = th[r]
                                    /\ fds'[r] = fds[r]
         /\ g'[q].ctx = None /\ g'[q].cfg = g[p].cfg
         /\ ~g'[q].atfork => By(p) = {}
         /\ fds'[q] = FilesLeft(g[p], fds[p]) /\ (~g[p].atfork => By(p) = {} /\ g[p].ctx = None)
         /\ \A u \in Threads : th'[q][u].at \in {"idle", "gone"} /\ th'[q][u].want = None
<1> USE DefaultAssumption DEF DInv
<1>1. q # p /\ q \notin shut /\ By(q) = {}
  <2>1. Unborn(q) /\ th[p][t].at = "idle"
    BY DEF Fork, Outside
  <2>2. Gone.at = "gone"
    BY DEF Gone, Outside
  <2>3. q # p
    BY <2>1, <2>2 DEF Unborn
  <2>4. QED
    BY <2>1, <2>3 DEF Fresh
<1>2. \A r \in Procs : By(r)' = By(r)
  BY ForkFiles DEF By
<1>3. \A r \in Procs : r # q => /\ g'[r] = g[r] /\ th'[r] = th[r]
                              /\ fds'[r] = fds[r]
  BY DEF Fork, TypeOK
<1>4. ~g[p].atfork => By(p) = {} /\ g[p].ctx = None
  BY DEF OpensOnce
<1>5. g'[q] = Dropped(g[p]) /\ g[p] \in Process
  BY DEF Fork, TypeOK
<1>6. g'[q].ctx = None /\ g'[q].cfg = g[p].cfg /\ (~g'[q].atfork => By(p) = {})
  <2>1. CASE g[p].atfork
    BY <1>5, <2>1 DEF Dropped, Process
  <2>2. CASE ~g[p].atfork
    BY <1>4, <1>5, <2>2 DEF Dropped
  <2>3. QED
    BY <2>1, <2>2
<1>7. \A u \in Threads : th'[q][u].at \in {"idle", "gone"} /\ th'[q][u].want = None
  BY DEF Fork, Unborn, Outside, Gone, TypeOK
<1>8. fds'[q] = FilesLeft(g[p], fds[p])
  BY DEF Fork, TypeOK
<1>9. QED
  BY <1>1, <1>2, <1>3, <1>4, <1>6, <1>7, <1>8

(* A process opens once.                                                   *)
LEMMA OpensStep == DInv /\ [DefaultNext]_defaults => OpensOnce'
<1> SUFFICES ASSUME DInv, [DefaultNext]_defaults PROVE OpensOnce'
  OBVIOUS
<1> USE DefaultAssumption DEF DInv
<1> USE DEF TypeOK, Process, Place, Excludes, Fresh, OpensOnce, By, At, Critical, Outside, Gone,
            Goes, Locks, Unlocked, ShutDown, Unborn, File
<1>1. ASSUME NEW p \in Procs, NEW t \in Threads, NEW c \in Cfgs \cup {None}, CallInit(p, t, c) PROVE OpensOnce'
  BY <1>1 DEF CallInit
<1>2. ASSUME NEW p \in Procs, NEW t \in Threads, CallDefault(p, t) PROVE OpensOnce'
  BY <1>2 DEF CallDefault
<1>3. ASSUME NEW p \in Procs, NEW t \in Threads, InitLock(p, t) PROVE OpensOnce'
  BY <1>3 DEF InitLock
<1>4. ASSUME NEW p \in Procs, NEW t \in Threads, InitBody(p, t) PROVE OpensOnce'
  BY <1>4 DEF InitBody
<1>5. ASSUME NEW p \in Procs, NEW t \in Threads, LazyLock(p, t) PROVE OpensOnce'
  BY <1>5 DEF LazyLock
<1>6. ASSUME NEW p \in Procs, NEW t \in Threads, LazyRegister(p, t) PROVE OpensOnce'
  BY <1>6 DEF LazyRegister
<1>7. ASSUME NEW p \in Procs, NEW t \in Threads, LazyOpen(p, t) PROVE OpensOnce'
  BY <1>7 DEF LazyOpen
<1>8. ASSUME NEW p \in Procs, NEW t \in Threads, LazyOpened(p, t) PROVE OpensOnce'
  BY <1>8 DEF LazyOpened
<1>9. ASSUME NEW p \in Procs, NEW t \in Threads, LazyFailed(p, t) PROVE OpensOnce'
  BY <1>9 DEF LazyFailed
<1>10. ASSUME NEW p \in Procs, NEW t \in Threads, LazyDone(p, t) PROVE OpensOnce'
  BY <1>10 DEF LazyDone
<1>11. ASSUME NEW p \in Procs, NEW t \in Threads, CallShutdown(p, t) PROVE OpensOnce'
  BY <1>11 DEF CallShutdown
<1> HIDE DEF TypeOK, Process, Place, Excludes, Fresh, OpensOnce, By, At, Critical, Outside, Gone,
             Goes, Locks, Unlocked, ShutDown, Unborn, File
<1>12. ASSUME NEW p \in Procs, NEW t \in Threads, NEW q \in Procs, Fork(p, t, q) PROVE OpensOnce'
  <2>1. DOMAIN files' = DOMAIN files /\ (\A i \in DOMAIN files : files'[i].by = files[i].by) /\ shut' = shut
    BY <1>12, ForkFiles DEF Fork
  <2>2. ASSUME NEW r \in Procs
        PROVE  /\ ~g'[r].tried \/ ~g'[r].atfork => By(r)' = {}
               /\ r \in shut => g'[r].tried /\ g'[r].ctx = None
               /\ g'[r].ctx # None => g'[r].ctx \in By(r)' \cap fds'[r]
               /\ \A u \in Threads :
                    /\ th'[r][u].at \in {"try", "opening"} => g'[r].atfork
                    /\ th'[r][u].at = "opening" => /\ th'[r][u].file \in By(r)' \cap fds'[r]
                                                  /\ g'[r].ctx = None /\ r \notin shut
    <3>1. CASE r = q
      BY <1>12, <3>1, ForkEffect
    <3>2. CASE r # q
      BY <1>12, <3>2, ForkEffect DEF OpensOnce
    <3>3. QED
      BY <3>1, <3>2
  <2>3. QED
    BY <2>1, <2>2 DEF OpensOnce
<1>13. CASE UNCHANGED defaults
  BY <1>13 DEF defaults, TypeOK, Process, Place, Excludes, Fresh, OpensOnce, By, At, Critical,
               Outside, Gone, Goes, Locks, Unlocked, ShutDown, Unborn, File
<1>14. QED
  BY <1>1, <1>2, <1>3, <1>4, <1>5, <1>6, <1>7, <1>8, <1>9, <1>10, <1>11, <1>12, <1>13
     DEF DefaultNext

(* Descriptors stay accounted for.                                         *)
LEMMA DescriptorsStep == DInv /\ [DefaultNext]_defaults => Descriptors'
<1> SUFFICES ASSUME DInv, [DefaultNext]_defaults PROVE Descriptors'
  OBVIOUS
<1> USE DefaultAssumption DEF DInv
<1> USE DEF TypeOK, Process, Place, Excludes, OpensOnce, Descriptors, Opening, By, At,
            Critical, Outside, Goes, Locks, Unlocked, ShutDown, File
<1>1. ASSUME NEW p \in Procs, NEW t \in Threads, NEW c \in Cfgs \cup {None}, CallInit(p, t, c) PROVE Descriptors'
  BY <1>1 DEF CallInit
<1>2. ASSUME NEW p \in Procs, NEW t \in Threads, CallDefault(p, t) PROVE Descriptors'
  BY <1>2 DEF CallDefault
<1>3. ASSUME NEW p \in Procs, NEW t \in Threads, InitLock(p, t) PROVE Descriptors'
  BY <1>3 DEF InitLock
<1>4. ASSUME NEW p \in Procs, NEW t \in Threads, InitBody(p, t) PROVE Descriptors'
  BY <1>4 DEF InitBody
<1>5. ASSUME NEW p \in Procs, NEW t \in Threads, LazyLock(p, t) PROVE Descriptors'
  BY <1>5 DEF LazyLock
<1>6. ASSUME NEW p \in Procs, NEW t \in Threads, LazyRegister(p, t) PROVE Descriptors'
  BY <1>6 DEF LazyRegister
<1>7. ASSUME NEW p \in Procs, NEW t \in Threads, LazyOpen(p, t) PROVE Descriptors'
  BY <1>7 DEF LazyOpen
<1>8. ASSUME NEW p \in Procs, NEW t \in Threads, LazyOpened(p, t) PROVE Descriptors'
  BY <1>8 DEF LazyOpened
<1>9. ASSUME NEW p \in Procs, NEW t \in Threads, LazyFailed(p, t) PROVE Descriptors'
  <2>1. CASE fds' = fds
    BY <1>9, <2>1 DEF LazyFailed
  <2>2. CASE th[p][t].at = "opening" /\ fds' = [fds EXCEPT ![p] = @ \ {th[p][t].file}] /\ UNCHANGED g
    BY <1>9, <2>2 DEF LazyFailed
  <2>3. QED
    BY <1>9, <2>1, <2>2 DEF LazyFailed
<1>10. ASSUME NEW p \in Procs, NEW t \in Threads, LazyDone(p, t) PROVE Descriptors'
  BY <1>10 DEF LazyDone
<1>11. ASSUME NEW p \in Procs, NEW t \in Threads, CallShutdown(p, t) PROVE Descriptors'
  BY <1>11 DEF CallShutdown
<1> HIDE DEF TypeOK, Process, Place, Excludes, OpensOnce, Descriptors, Opening, By, At,
             Critical, Outside, Goes, Locks, Unlocked, ShutDown, File
<1>12. ASSUME NEW p \in Procs, NEW t \in Threads, NEW q \in Procs, Fork(p, t, q) PROVE Descriptors'
  <2>1. DOMAIN files' = DOMAIN files
    BY <1>12, ForkFiles
  <2>2. ASSUME NEW r \in Procs, NEW i \in fds'[r]
        PROVE  /\ i \in DOMAIN files
               /\ files'[i].by = r \/ files'[i].midway
               /\ files'[i].by = r => i = g'[r].ctx \/ Opening(r, i)'
    <3>1. CASE r = q
      <4>1. i \in fds[p] /\ (g[p].atfork => i # g[p].ctx)
        <5>1. fds'[q] = FilesLeft(g[p], fds[p])
          BY <1>12, ForkEffect
        <5>2. QED
          BY <2>2, <3>1, <5>1 DEF FilesLeft
      <4>2. i \in DOMAIN files /\ files[i].by # q
        BY <1>12, <4>1, ForkEffect DEF Descriptors, By
      <4>3. files'[i].by # q /\ (files[i].midway \/ Opening(p, i) => files'[i].midway)
        BY <1>12, <4>2, ForkFiles
      <4>4. files[i].by = p => Opening(p, i)
        <5>1. CASE g[p].atfork
          BY <4>1, <5>1 DEF Descriptors
        <5>2. CASE ~g[p].atfork
          BY <1>12, <4>2, <5>2, ForkEffect DEF By
        <5>3. QED
          BY <5>1, <5>2
      <4>5. QED
        BY <3>1, <4>1, <4>2, <4>3, <4>4 DEF Descriptors
    <3>2. CASE r # q
      <4>1. g'[r] = g[r] /\ th'[r] = th[r] /\ fds'[r] = fds[r]
        BY <1>12, <3>2, ForkEffect
      <4>2. i \in DOMAIN files /\ files'[i].by = files[i].by /\ (files[i].midway => files'[i].midway)
        BY <1>12, <2>2, <4>1, ForkFiles DEF Descriptors
      <4>3. Opening(r, i)' <=> Opening(r, i)
        BY <4>1 DEF Opening
      <4>4. QED
        BY <2>2, <4>1, <4>2, <4>3 DEF Descriptors
    <3>3. QED
      BY <3>1, <3>2
  <2>3. QED
    BY <2>1, <2>2 DEF Descriptors
<1>13. CASE UNCHANGED defaults
  BY <1>13 DEF defaults, TypeOK, Process, Place, Excludes, OpensOnce, Descriptors, Opening, By, At,
               Critical, Outside, Goes, Locks, Unlocked, ShutDown, File
<1>14. QED
  BY <1>1, <1>2, <1>3, <1>4, <1>5, <1>6, <1>7, <1>8, <1>9, <1>10, <1>11, <1>12, <1>13
     DEF DefaultNext

(* The configuration of an open file stands.                                  *)
LEMMA ConfiguredStep == DInv /\ [DefaultNext]_defaults => Configured'
<1> SUFFICES ASSUME DInv, [DefaultNext]_defaults PROVE Configured'
  OBVIOUS
<1> USE DefaultAssumption DEF DInv
<1> USE DEF TypeOK, Process, Place, Excludes, OpensOnce, Configured, By, At, Critical,
            Outside, Goes, Locks, Unlocked, ShutDown, TooLate, File
<1>1. ASSUME NEW p \in Procs, NEW t \in Threads, NEW c \in Cfgs \cup {None}, CallInit(p, t, c) PROVE Configured'
  BY <1>1 DEF CallInit
<1>2. ASSUME NEW p \in Procs, NEW t \in Threads, CallDefault(p, t) PROVE Configured'
  BY <1>2 DEF CallDefault
<1>3. ASSUME NEW p \in Procs, NEW t \in Threads, InitLock(p, t) PROVE Configured'
  BY <1>3 DEF InitLock
<1>4. ASSUME NEW p \in Procs, NEW t \in Threads, InitBody(p, t) PROVE Configured'
  BY <1>4 DEF InitBody
<1>5. ASSUME NEW p \in Procs, NEW t \in Threads, LazyLock(p, t) PROVE Configured'
  BY <1>5 DEF LazyLock
<1>6. ASSUME NEW p \in Procs, NEW t \in Threads, LazyRegister(p, t) PROVE Configured'
  BY <1>6 DEF LazyRegister
<1>7. ASSUME NEW p \in Procs, NEW t \in Threads, LazyOpen(p, t) PROVE Configured'
  BY <1>7 DEF LazyOpen
<1>8. ASSUME NEW p \in Procs, NEW t \in Threads, LazyOpened(p, t) PROVE Configured'
  BY <1>8 DEF LazyOpened
<1>9. ASSUME NEW p \in Procs, NEW t \in Threads, LazyFailed(p, t) PROVE Configured'
  BY <1>9 DEF LazyFailed
<1>10. ASSUME NEW p \in Procs, NEW t \in Threads, LazyDone(p, t) PROVE Configured'
  BY <1>10 DEF LazyDone
<1>11. ASSUME NEW p \in Procs, NEW t \in Threads, CallShutdown(p, t) PROVE Configured'
  BY <1>11 DEF CallShutdown
<1> HIDE DEF TypeOK, Process, Place, Excludes, OpensOnce, Configured, By, At, Critical,
             Outside, Goes, Locks, Unlocked, ShutDown, TooLate, File
<1>12. ASSUME NEW p \in Procs, NEW t \in Threads, NEW q \in Procs, Fork(p, t, q) PROVE Configured'
  <2>1. SUFFICES ASSUME NEW r \in Procs, NEW i \in By(r)'
                 PROVE  files'[i].cfg = g'[r].cfg
    BY DEF Configured
  <2>2. r # q /\ i \in By(r) /\ g'[r] = g[r]
    BY <1>12, <2>1, ForkEffect
  <2>3. files'[i].cfg = files[i].cfg
    BY <1>12, <2>2, ForkFiles DEF By
  <2>4. QED
    BY <2>2, <2>3 DEF Configured
<1>13. CASE UNCHANGED defaults
  BY <1>13 DEF defaults, TypeOK, Process, Place, Excludes, OpensOnce, Configured, By, At,
               Critical, Outside, Goes, Locks, Unlocked, ShutDown, TooLate, File
<1>14. QED
  BY <1>1, <1>2, <1>3, <1>4, <1>5, <1>6, <1>7, <1>8, <1>9, <1>10, <1>11, <1>12, <1>13
     DEF DefaultNext

(* All of it together, step by step ...                                     *)
LEMMA DefaultInductive == DInv /\ [DefaultNext]_defaults => DInv'
BY TypeStep, ExcludesStep, FreshStep, OpensStep, DescriptorsStep, ConfiguredStep DEF DInv

(* ... and so always.                                                       *)
LEMMA DefaultInvariant == DefaultSpec => []DInv
BY InitDInv, DefaultInductive, PTL DEF DefaultSpec

(* A process's default context is on a file it opened itself and still      *)
(* holds; two processes share a file only if the fork came while it was     *)
(* being opened; a process opens at most once; and nobody who was waiting   *)
(* gets a context after pim_shutdown (pim_dev.c:298-368).                   *)
THEOREM OwnLedgerAlways == DefaultSpec => []OwnLedger
<1>1. DInv => OwnLedger
  <2> SUFFICES ASSUME DInv PROVE OwnLedger
    OBVIOUS
  <2> USE DefaultAssumption DEF DInv
  <2>1. \A p \in Procs : g[p].ctx # None => g[p].ctx \in fds[p] /\ files[g[p].ctx].by = p
    BY DEF OpensOnce, By
  <2>2. \A p, q \in Procs : p # q => \A i \in fds[p] \cap fds[q] : files[i].midway
    BY DEF Descriptors
  <2>3. \A p \in shut : g[p].ctx = None
    BY DEF OpensOnce, TypeOK
  <2>4. QED
    BY <2>1, <2>2, <2>3 DEF OwnLedger, OpensOnce
<1>2. QED
  BY <1>1, DefaultInvariant, PTL

(* Once a process has registered the handler (pim_dev.c:310), or was forked *)
(* by one that had, its lock never names a thread that is not there to      *)
(* release it: the fork handler remakes it (pim_dev.c:300-306) at whatever  *)
(* moment of the parent's calls the fork comes.                             *)
THEOREM LockIsRemade == DefaultSpec => []LockRemade
<1>1. DInv => LockRemade
  BY DEF DInv, Excludes
<1>2. QED
  BY <1>1, DefaultInvariant, PTL

(* However many calls of pim_init race, with whatever configurations, and   *)
(* wherever a fork comes between them, the context is open with the         *)
(* configuration that was let in last: none is kept after the open that     *)
(* used another (pim_dev.c:320-345).                                        *)
THEOREM ConfigurationStands == DefaultSpec => []OpenAsConfigured
<1>1. DInv => OpenAsConfigured
  BY DEF DInv, OpensOnce, Configured, OpenAsConfigured
<1>2. QED
  BY <1>1, DefaultInvariant, PTL
==============================================================================
