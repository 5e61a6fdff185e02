------------------------------ MODULE PimCallers ------------------------------
(***************************************************************************)
(* PimLedger together with what its callers know.  libpim frees only what  *)
(* an ALLOC reported to it, so "granted" is its own record of the          *)
(* hugepages of an fd; the question is whether the driver's record ever    *)
(* differs from it.  Other callers free what they please; what they hold   *)
(* is then no longer followed, until they close their file.                *)
(***************************************************************************)
EXTENDS PimLedger

VARIABLES granted,   \* per fd and region, the hugepages its callers hold
          careless   \* open fds on which something else was freed

cvars == <<vars, granted, careless>>

CInit == Init /\ granted = [f \in Fd |-> [m \in Region |-> {}]] /\ careless = {}

(* A successful ALLOC tells the caller its extents.                         *)
Learn(t) ==
  /\ CopyOut(t)
  /\ granted' = IF cfd[t] \in careless THEN granted
                ELSE [granted EXCEPT ![cfd[t]][cmem[t]] = @ \cup Named(out[t])]
  /\ UNCHANGED careless

(* pim_ioctl_free: a caller gives up what it frees as it calls.             *)
GiveUp(t) ==
  \E f \in Fd, m \in Region, E \in FreeRequests :
    /\ NamesEachOnce(E) /\ FreeCall(t, f, m, E)
    /\ \/ /\ Named(E) \subseteq granted[f][m]
          /\ granted' = [granted EXCEPT ![f][m] = @ \ Named(E)]
          /\ UNCHANGED careless
       \/ /\ ~(Named(E) \subseteq granted[f][m])
          /\ granted' = [granted EXCEPT ![f] = [r \in Region |-> {}]]
          /\ careless' = careless \cup {f}

(* The process that held the fd is gone, and its record with it.            *)
Die(t) ==
  \E f \in Fd :
    /\ CloseCall(t, f)
    /\ granted' = [granted EXCEPT ![f] = [m \in Region |-> {}]] /\ careless' = careless \ {f}

Quiet(t) ==
  /\ \/ \E f \in Fd, m \in Region, req \in AllocRequests : AllocCall(t, f, m, req)
     \/ t \in ProcReaders /\ ProcCall(t)
     \/ Step(t) /\ ~CopyOut(t)
  /\ UNCHANGED <<granted, careless>>

CNext ==
  \/ \E f \in Fd : Open(f) /\ UNCHANGED <<granted, careless>>
  \/ \E t \in Thread : Learn(t) \/ GiveUp(t) \/ Die(t) \/ Quiet(t)

CSpec == CInit /\ [][CNext]_cvars

------------------------------------------------------------------------------
(* What an fd holds that its callers do not know of: extents of calls in    *)
(* flight, already committed or not yet released, and files being closed.   *)
InTransit(f, m) ==
  (UNION {Named(out[t]) \ Named(ext[t]) : t \in {u \in Thread : pc[u] = "commit" /\ cfd[u] = f /\ cmem[u] = m}})
  \cup (UNION {Named(out[t]) : t \in {u \in Thread : pc[u] = "copyout" /\ cfd[u] = f /\ cmem[u] = m}})
  \cup (UNION {Named(ext[t]) : t \in {u \in Thread : pc[u] \in {"free_file", "free_led", "release"}
                                                     /\ cfd[u] = f /\ cmem[u] = m}})

(* No leak by construction (pim_chunk.c:70-73): what an open fd holds is    *)
(* what its callers know they hold plus what calls in flight carry, never   *)
(* both, so there is no hugepage that nobody can describe well enough to    *)
(* free.  A FREE of what was handed out is then never refused, nor is the   *)
(* rollback of a faulted ALLOC, whose result pim_file.c:193 ignores.        *)
NothingForgotten ==
  \A f \in Fd, m \in Region :
    fstate[f] = "open" /\ f \notin careless =>
      /\ hugepages[f][m] = granted[f][m] \cup InTransit(f, m)
      /\ granted[f][m] \cap InTransit(f, m) = {}
==============================================================================
