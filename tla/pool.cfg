SPECIFICATION MCSpec
CONSTANTS
  Ctx = {c1, c2}
  NrHugepages <- MCHugepages
  Gpb <- MCGpb
  KeepFree = 1
  Sizes = {1, 4}
  VRange = {r1, r2}
  MayFail = {"driver", "free", "insert", "vspace", "xfer"}
  Procs = {p1, p2}
  First = p1
  Threads = {t1, t2}
  Cfgs = {x1, x2}
  None = none
SYMMETRY MCSymmetry
INVARIANTS NoAlias PoolExact Intact CarefulCaller OwnLedger LockRemade OpenAsConfigured
