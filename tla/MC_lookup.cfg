CONSTANTS
  N = 3
  Words <- MCWords
  Grammars <- MCGrammars
  UnknownWordLabels = {"X"}
  SourceLabelSet <- MCSourceLabelSet
  MinSpan = 1
  RuleLimit = 2
  ClauseModes = {FALSE, TRUE}
  BoundChoices <- MCClauseBounds
SPECIFICATION Spec
INVARIANTS
  TypeOK
  OptionsSound
  OptionsExactlyOnce
CHECK_DEADLOCK FALSE
