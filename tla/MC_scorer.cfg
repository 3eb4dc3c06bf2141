CONSTANTS
  Sources = {1, 2}
  NtSources = {2}
  Targets = {1, 2}
  Aligns = {1, 2, 3}
  NtPart <- MCNtPart
  Inputs <- MCInputs
  Hierarchical = TRUE
  MinCount = 2
  CountOfCounts = TRUE
  CocMax = 2
  NoLine = NoLine
SPECIFICATION Spec
INVARIANTS
  TypeOK
  PhraseTableMatchesExtract
  CountOfCountsCorrect
CHECK_DEADLOCK FALSE
