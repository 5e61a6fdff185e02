SPECIFICATION AnyCallerSpec
CONSTANTS
  Fd = {f1, f2}
  Thread = {t1, t2}
  ProcReaders = {}
  NrHugepages <- MCNr
  SlotMod = 1
  AllocRequests <- MCOneRequest
  FreeRequests <- MCTwiceRequests
  None = None
INVARIANT CountersExact
