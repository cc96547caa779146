SPECIFICATION Spec
CONSTANT
  None = None
INVARIANTS
  ModelsAreRead
  SqlIsReadRight
  TransformationsAreTrue
  ReportRowsAreReal
  GraphsAreWhole
  DossiersAreTrue
CHECK_DEADLOCK FALSE
