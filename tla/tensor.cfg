SPECIFICATION MCSpec
CONSTANTS
  Epb = 2
  Epr = 4
  Nch = 2
  Nbank = 1
  Faults = TRUE
  Shapes <- MCShapes
  Name = {1, 2}
  MaxCount = 2
  Forward = FALSE
  SMax = 4
  Width = 2
  Token = {1, 2}
  MaxTokens = 2
  Reuse = FALSE
INVARIANTS ZeroTail HoldsTokens
PROPERTIES Remembers AttentionReadsTheSequence
