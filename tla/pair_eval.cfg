CONSTANTS
  MemSize = 24
  Images <- MCImages
SPECIFICATION Spec
CHECK_DEADLOCK FALSE
INVARIANTS TypeOK Dag EvalIsMeaning
PROPERTIES CellsAreConstant EnvGrows Ends
