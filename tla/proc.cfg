SPECIFICATION FairSpec
CONSTANTS
  Fd = {f1, f2}
  Thread = {t1, t2}
  ProcReaders = {t2}
  NrHugepages <- MCNr
  SlotMod = 1
  AllocRequests <- MCOneRequest
  FreeRequests <- MCPlainFrees
  None = None
INVARIANTS NoLockCycle ProcSeesLiveFiles
PROPERTY Indivisible EveryCallReturns
