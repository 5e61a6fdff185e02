SPECIFICATION DefaultSpec
CONSTANTS
  Procs = {p1, p2}
  First = p1
  Threads = {t1, t2}
  Cfgs = {c1}
  None = none
INVARIANT NoOrphanLock
