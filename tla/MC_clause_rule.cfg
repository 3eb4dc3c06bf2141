CONSTANTS
  N = 3
  Words <- MCWords
  Grammars <- MCGrammars
  UnknownWordLabels = {"X"}
  SourceLabelSet <- MCSourceLabelSet
  MinSpan = 0
  RuleLimit = 8
  ClauseModes = {TRUE}
  BoundChoices <- MCDivergentBounds
SPECIFICATION Spec
INVARIANTS
  ClauseOptionsExactlyOnce
CHECK_DEADLOCK FALSE
