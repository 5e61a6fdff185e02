SPECIFICATION CSpec
CONSTANTS
  Fd = {f1, f2}
  Thread = {t1, t2}
  ProcReaders = {}
  NrHugepages <- MCNr
  SlotMod = 1
  AllocRequests <- MCAllocRequests
  FreeRequests <- MCFreeRequests
  None = None
SYMMETRY MCSymmetry
INVARIANTS TypeOK Exclusive CountersExact OwnerLabels NothingForgotten
