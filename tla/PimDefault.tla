------------------------------ MODULE PimDefault ------------------------------
(***************************************************************************)
(* The default context of libpim (pim_dev.c): one per process, configured  *)
(* by pim_init, opened by whichever call comes first, closed by            *)
(* pim_shutdown, and dropped by a fork handler in the child.  Processes    *)
(* are forked from the first one; the driver keeps one ledger per open     *)
(* file, so a file that two processes hold is one ledger for both.         *)
(***************************************************************************)
EXTENDS Integers, Sequences, FiniteSets

CONSTANTS
  Procs,      \* processes
  First,      \* the one there at the start
  Threads,    \* threads of it; a child has the one that forked
  Cfgs,       \* configurations pim_init is called with
  None        \* no configuration, context, thread

ASSUME DefaultAssumption ==
  First \in Procs /\ Threads # {} /\ None \notin Cfgs \cup Threads \cup Nat

VARIABLES
  g,        \* process -> the globals of pim_dev.c
  th,       \* process -> thread -> where it is, and in what call
  fds,      \* process -> /dev/pim files it has descriptors of
  files,    \* every open() there was: who by, with what configuration, and
            \* whether a fork came between it and g_ctx
  shut      \* processes that called pim_shutdown

defaults == <<g, th, fds, files, shut>>

Globals == [ctx |-> None, cfg |-> None, tried |-> FALSE, atfork |-> FALSE, lock |-> None]
Outside == [at |-> "idle", want |-> None, file |-> None]
Gone == [Outside EXCEPT !.at = "gone"]
Unborn(p) == \A t \in Threads : th[p][t] = Gone

DefaultInit ==
  /\ g = [p \in Procs |-> Globals]
  /\ th = [p \in Procs |-> [t \in Threads |-> IF p = First THEN Outside ELSE Gone]]
  /\ fds = [p \in Procs |-> {}] /\ files = <<>>
  /\ shut = {}

Goes(p, t, where) == th' = [th EXCEPT ![p][t].at = where]

(* pthread_mutex_lock(&g_lock).                                             *)
Locks(p) == g[p].lock = None
Unlocked(r) == [r EXCEPT !.lock = None]

------------------------------------------------------------------------------
(* Calls: pim_init with or without a configuration, and any other, which    *)
(* begins with pim_default.                                                 *)
CallInit(p, t, c) ==
  /\ th[p][t] = Outside
  /\ th' = [th EXCEPT ![p][t] = [Outside EXCEPT !.at = "init?", !.want = c]]
  /\ UNCHANGED <<g, fds, files, shut>>

CallDefault(p, t) ==
  /\ th[p][t] = Outside /\ Goes(p, t, "lazy?") /\ UNCHANGED <<g, fds, files, shut>>

InitLock(p, t) ==
  /\ th[p][t].at = "init?" /\ Locks(p)
  /\ g' = [g EXCEPT ![p].lock = t] /\ Goes(p, t, "init")
  /\ UNCHANGED <<fds, files, shut>>

(* A configuration is kept unless the context was tried already; then the   *)
(* call ends with an error.  Mutant: it is taken at any time.               *)
TooLateNever(p, want) == FALSE
TooLate(p, want) == want # None /\ g[p].tried

InitBody(p, t) ==
  LET want == th[p][t].want
      late == TooLate(p, want)
  IN  /\ th[p][t].at = "init"
      /\ g' = [g EXCEPT ![p] = Unlocked([g[p] EXCEPT !.cfg = IF want # None /\ ~late THEN want ELSE g[p].cfg])]
      /\ th' = [th EXCEPT ![p][t] = IF late THEN Outside ELSE [Outside EXCEPT !.at = "lazy?"]]
      /\ UNCHANGED <<fds, files, shut>>

LazyLock(p, t) ==
  /\ th[p][t].at = "lazy?" /\ Locks(p)
  /\ g' = [g EXCEPT ![p].lock = t] /\ Goes(p, t, "lazy")
  /\ UNCHANGED <<fds, files, shut>>

LazyRegister(p, t) ==
  /\ th[p][t].at = "lazy"
  /\ g' = [g EXCEPT ![p].atfork = TRUE] /\ Goes(p, t, "try")
  /\ UNCHANGED <<fds, files, shut>>

(* The first to come opens; the descriptor is there before the context is.  *)
LazyOpen(p, t) ==
  LET file == Len(files) + 1
  IN  /\ th[p][t].at = "try" /\ ~g[p].tried
      /\ g' = [g EXCEPT ![p].tried = TRUE]
      /\ files' = Append(files, [by |-> p, cfg |-> g[p].cfg, midway |-> FALSE])
      /\ fds' = [fds EXCEPT ![p] = @ \cup {file}]
      /\ th' = [th EXCEPT ![p][t] = [@ EXCEPT !.at = "opening", !.file = file]]
      /\ UNCHANGED shut

LazyOpened(p, t) ==
  /\ th[p][t].at = "opening"
  /\ g' = [g EXCEPT ![p].ctx = th[p][t].file] /\ Goes(p, t, "done")
  /\ UNCHANGED <<fds, files, shut>>

(* open(dev) fails, or something after it and bail() closes the file again. *)
LazyFailed(p, t) ==
  /\ \/ /\ th[p][t].at = "try" /\ ~g[p].tried /\ g' = [g EXCEPT ![p].tried = TRUE] /\ UNCHANGED fds
     \/ th[p][t].at = "opening" /\ fds' = [fds EXCEPT ![p] = @ \ {th[p][t].file}] /\ UNCHANGED g
  /\ Goes(p, t, "done") /\ UNCHANGED <<files, shut>>

(* Unlocked, the call returns whatever it found.                            *)
LazyDone(p, t) ==
  /\ th[p][t].at = "done" \/ (th[p][t].at = "try" /\ g[p].tried)
  /\ g' = [g EXCEPT ![p] = Unlocked(@)]
  /\ th' = [th EXCEPT ![p][t] = Outside]
  /\ UNCHANGED <<fds, files, shut>>

(* pim_shutdown: the lazy open is not armed again.                          *)
ShutDown(r) == [r EXCEPT !.ctx = None, !.tried = TRUE]
CallShutdown(p, t) ==
  /\ th[p][t] = Outside /\ Locks(p)
  /\ g' = [g EXCEPT ![p] = ShutDown(@)]
  /\ fds' = [fds EXCEPT ![p] = @ \ {g[p].ctx}] /\ shut' = shut \cup {p}
  /\ UNCHANGED <<th, files>>

------------------------------------------------------------------------------
(* fork() by a thread outside libpim.  The child has the globals, whoever   *)
(* holds the lock, and a descriptor of every file; then the handler runs if *)
(* one was registered.  Mutants: it leaves the lock, or g_tried and the     *)
(* context.                                                                 *)
DroppedLocked(r) == IF r.atfork THEN [r EXCEPT !.ctx = None, !.tried = FALSE] ELSE r
DroppedNot(r) == IF r.atfork THEN Unlocked(r) ELSE r
Dropped(r) == IF r.atfork THEN [r EXCEPT !.ctx = None, !.tried = FALSE, !.lock = None] ELSE r
FilesLeft(r, held) == IF r.atfork THEN held \ {r.ctx} ELSE held

Fork(p, t, q) ==
  /\ th[p][t] = Outside /\ Unborn(q)
  /\ g' = [g EXCEPT ![q] = Dropped(g[p])]
  /\ fds' = [fds EXCEPT ![q] = FilesLeft(g[p], fds[p])]
  /\ th' = [th EXCEPT ![q][t] = Outside]
  /\ files' = [i \in DOMAIN files |-> [files[i] EXCEPT !.midway =
                 @ \/ \E u \in Threads : th[p][u].at = "opening" /\ th[p][u].file = i]]
  /\ UNCHANGED shut

DefaultNext ==
  \E p \in Procs, t \in Threads :
    \/ \E c \in Cfgs \cup {None} : CallInit(p, t, c)
    \/ CallDefault(p, t)
    \/ InitLock(p, t) \/ InitBody(p, t)
    \/ LazyLock(p, t) \/ LazyRegister(p, t) \/ LazyOpen(p, t) \/ LazyOpened(p, t) \/ LazyFailed(p, t)
    \/ LazyDone(p, t)
    \/ CallShutdown(p, t)
    \/ \E q \in Procs : Fork(p, t, q)

DefaultSpec == DefaultInit /\ [][DefaultNext]_defaults

------------------------------------------------------------------------------
(* A process's default context is on a file that process opened and holds,  *)
(* never on its parent's; no two hold a file, unless the fork came while it *)
(* was being opened, so that the parent's close is the last one and the     *)
(* driver reclaims then (pim.h:39-41).  However many threads come first, a  *)
(* process opens once, and after pim_shutdown it has no context, whoever    *)
(* was waiting (pim_dev.c:348).                                             *)
OwnLedger ==
  /\ \A p \in Procs : g[p].ctx # None => g[p].ctx \in fds[p] /\ files[g[p].ctx].by = p
  /\ \A p, q \in Procs : p # q => \A i \in fds[p] \cap fds[q] : files[i].midway
  /\ \A i, j \in DOMAIN files : i # j => files[i].by # files[j].by
  /\ \A p \in shut : g[p].ctx = None

(* Nobody waits for a lock whose holder is not there to release it: the     *)
(* handler remakes it because "the parent may have held it"                 *)
(* (pim_dev.c:300).  Not so in the code: the handler is registered by a     *)
(* call that has the lock, and pim_init has locked it before that.          *)
Critical == {"init", "lazy", "try", "opening", "done"}
Orphaned(p) == g[p].lock # None /\ th[p][g[p].lock].at \notin Critical
NoOrphanLock == \A p \in Procs : ~Orphaned(p)

(* What the code does keep: the lock is orphaned only in a process forked   *)
(* before its parent had registered the handler.  From then on no fork, by  *)
(* whichever thread and in whatever call of another, leaves a child a lock  *)
(* that nobody there holds, or the parent one that it lost.                 *)
LockRemade == \A p \in Procs : g[p].atfork => ~Orphaned(p)

(* The context is open with the configuration that was let in last,         *)
(* whichever thread opened it and in whichever process: one that came after *)
(* the open was refused and not kept ("CONFIGURATION THAT ARRIVES TOO LATE  *)
(* IS AN ERROR", pim_dev.c:320).  So pim_init succeeds with another         *)
(* configuration than the context's only where a second pim_init was let in *)
(* between its two locks (:329-339).                                        *)
OpenAsConfigured == \A p \in Procs : g[p].ctx # None => files[g[p].ctx].cfg = g[p].cfg
==============================================================================
