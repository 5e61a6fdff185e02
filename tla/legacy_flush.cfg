SPECIFICATION Spec
CONSTANTS
  Chan <- MCChan
  Latches <- MCLatches
  Word <- MCWord
  SeenMax = 64
  ImemWords = 9
  Rows = 8
  LBanks = 2
  LLanes = 2
  LBeats = 2
  VecWords = 6
  Handle = {h1, h2}
  Shapes <- MCShapes
  MaxOld = 1
  Hkv = 2
  HeadDim = 2
  MaxPos = 6
  FlushGran = {4}
  Heads <- MCHeads
  HandFlush = TRUE
SYMMETRY MCSymmetry
INVARIANT SplitUnseen
