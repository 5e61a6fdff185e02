SPECIFICATION MCSpec
CONSTANTS
  GprWord = 2
  MaxCh = 4
  MapBits = 8
  Parameters <- MCParameters
  MaxGrans = 4
  ExpBits = 3
  FracBits = 1
  Pad = 2
  Lanes = 3
  Weight <- MCWeight
  Operand <- MCOperand
  Stale <- MCStale
  Live = {1, 3}
INVARIANTS LedgersFollowTheModule EncodeInverts OneRowPerUnit WordsAreTheBytes OnlyProductsCount LosesOnlyLastPlaces
