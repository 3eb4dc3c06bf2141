CONSTANT Files <- MCFiles
SPECIFICATION Spec
INVARIANT
  ParseMatchesRuns
CHECK_DEADLOCK FALSE
