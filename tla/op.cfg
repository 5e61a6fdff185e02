SPECIFICATION Spec
CONSTANTS
  Epb = 2
  Epr = 4
  Nch = 2
  Nbank = 1
  Faults = TRUE
  Chan <- MCChan
  Latches <- MCLatches
  Word <- MCWord
  SeenMax = 64
  ImemWords = 22
  RowOf <- MCRowOf
  VWords = 8
  YWords = 12
  Matrix <- MCMatrix
  MaxRed = 8
  MaxOutGroups = 4
  MaxBatch = 2
  VecBytes = 0
  ResBytes = 0
  AllowT = TRUE
  Menus <- MCMenus
  Modes = {1, 2}
  MaxCalls = 3
  MaxWorks = 6
  Scrubs = TRUE
INVARIANTS RightAnswers NeverRefused
