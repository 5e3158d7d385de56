SPECIFICATION Spec
CONSTANTS
  Globals = {g1}
  Locals = {p, q}
  Enclosing = {}
  Unit = "PROC"
  MaxStmts = 4
  MaxDepth = 2
SYMMETRY Symmetry
INVARIANTS
  TypeOK
  EscapesReported
  ReturnsReported
  
  AnalysisCompletes
CHECK_DEADLOCK FALSE
