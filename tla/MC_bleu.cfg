CONSTANTS
  Order <- MCOrder
  Sentences <- MCSentences
  RefSets <- MCRefSets
  MaxSid = 2
  NotFound = NotFound
SPECIFICATION Spec
INVARIANTS
  TypeOK
  ReferencesAligned
  ClippedCounts
  FailsOnlyOnLongerFile
CHECK_DEADLOCK FALSE
