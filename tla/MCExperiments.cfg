SPECIFICATION Spec
CONSTANTS
  None = None
  Old = Old
INVARIANTS
  TypesOK
  RowsAreTrue
  AttacksAreFound
  EndsAgree
PROPERTY
  RunsEnd
