---------------------------- MODULE PimOwnership -----------------------------
(***************************************************************************)
(* What pim.ko promises its callers: hugepages of each region change hands *)
(* between the driver and the open files in whole requests, a hugepage has *)
(* one owner, and a file is gone only when it owns nothing.                *)
(***************************************************************************)
EXTENDS Integers, FiniteSets

CONSTANTS Fd, NrHugepages

VARIABLES own,    \* per file and region, the hugepages it owns
          alive   \* the files that exist

Regions == DOMAIN NrHugepages
Free(m) == (0 .. NrHugepages[m] - 1) \ UNION {own[f][m] : f \in Fd}

Init == own = [f \in Fd |-> [m \in Regions |-> {}]] /\ alive = {}

Create(f) == f \notin alive /\ alive' = alive \cup {f} /\ UNCHANGED own

Take(f, m, S) ==
  /\ f \in alive /\ S # {}
  /\ own' = [own EXCEPT ![f][m] = @ \cup S]
  /\ UNCHANGED alive

Give(f, m, S) ==
  /\ f \in alive /\ S # {}
  /\ own' = [own EXCEPT ![f][m] = @ \ S]
  /\ UNCHANGED alive

Destroy(f) ==
  /\ f \in alive /\ \A m \in Regions : own[f][m] = {}
  /\ alive' = alive \ {f}
  /\ UNCHANGED own

Next ==
  \E f \in Fd :
    \/ Create(f) \/ Destroy(f)
    \/ \E m \in Regions :
         \/ \E S \in SUBSET Free(m) : Take(f, m, S)
         \/ \E S \in SUBSET own[f][m] : Give(f, m, S)

Spec == Init /\ [][Next]_<<own, alive>>
==============================================================================
