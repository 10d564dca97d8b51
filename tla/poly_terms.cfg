CONSTANTS
  X = X
  Y = Y
  VarOrder <- MCVars
  Payload = 4
  Word = 8
  MaxTerms = 4
  Polys <- MCPolys
SPECIFICATION Spec
CHECK_DEADLOCK FALSE
INVARIANTS TypeOK SlotsApart RingOp EvalAgrees
PROPERTIES ImplementsSum
