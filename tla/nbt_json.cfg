SPECIFICATION Spec
CONSTANTS
  Words <- Strings
  Chunks <- SomeChunks
  Fraction <- Fractions
  NonFinite <- NonFinites
  None = None
INVARIANTS
  OnlyWidens
  RowsReadable
  PositionSurvives
PROPERTIES
  Settles
CHECK_DEADLOCK TRUE
