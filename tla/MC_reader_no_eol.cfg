CONSTANT Files <- MCNoEolFiles
SPECIFICATION Spec
INVARIANT
  EveryLineDelivered
CHECK_DEADLOCK FALSE
