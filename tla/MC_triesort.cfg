CONSTANTS
  Order <- MCOrder
  Sections <- MCSections
  Caps <- MCCaps
  Duplicate = Duplicate
SPECIFICATION Spec
INVARIANTS
  TypeOK
  DuplicatesAcrossBatchesRejected
PROPERTIES
  ImplementsConvertToSortedSpec
CHECK_DEADLOCK FALSE
