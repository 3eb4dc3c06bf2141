CONSTANTS
  NumScores = 2
  TableLimit = 1
  NDEBUG = TRUE
  Files <- MCFaultFiles
SPECIFICATION Spec
INVARIANT
  AcceptsOnlyWellFormed
CHECK_DEADLOCK FALSE
