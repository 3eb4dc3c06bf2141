CONSTANTS
  Files <- MCFiles
  Phrases <- MCPhrases
  Eos <- MCEos
  MaxDepth <- MCMaxDepth
  Overflow = Overflow
SPECIFICATION FairSpec
INVARIANTS
  TypeOK
  SortedSuffixes
  CountCorrect
  CorpusRestored
PROPERTY
  LimitedCountReturns
CHECK_DEADLOCK FALSE
