SPECIFICATION Spec
CONSTANTS
  Epb = 2
  Epr = 4
  Nch = 2
  Nbank = 2
  Faults = FALSE
  Chan <- MCChan
  Latches <- MCLatches
  Word <- MCWord
  SeenMax = 2
  ImemWords = 16383
  RowOf <- MCRowOf
  VWords = 8
  YWords = 8
  Alphabet <- MCAlphabet
  MaxLen = 5
  Matrix <- MCMatrix
  Offsets = {0, 2, 6}
  Lengths = {1, 3, 6}
  MaxPieces = 2
  Weights <- MCWeights
  Limits = {8, 9, 14, 20, 30}
  MaxCalls = 2
INVARIANTS AnswersAtDone RightProducts PassesVerify CutsAreSafe GemvAnswers FrontEndsAgree
CHECK_DEADLOCK FALSE
