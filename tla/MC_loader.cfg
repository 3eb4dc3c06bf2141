CONSTANTS
  NumScores = 2
  TableLimit = 1
  NDEBUG = FALSE
  Files <- MCFiles
SPECIFICATION Spec
INVARIANT
  LoadRoundTrip
PROPERTY
  ImplementsCompactLoadSpec
CHECK_DEADLOCK FALSE
