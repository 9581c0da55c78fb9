SPECIFICATION Spec
CONSTANTS
  None = None
  Old = Old
INVARIANTS
  TypesOK
  FilesAreWhole
  LeftClean
PROPERTIES
  FilesStay
  RecoveryFits
CHECK_DEADLOCK FALSE
