SPECIFICATION FairSpec
CONSTANTS
  Chan = {0, 1}
  Latches = {0}
  Word = {1, 2}
  SeenMax = 64
  ImemWords = 16383
  Programs <- MCPrograms
  Scrub <- MCScrub
  AllowT = FALSE
  StaleReads = 1
INVARIANTS FetchesTheProgram AnswersAreOwn
PROPERTY RungIsRun
