SPECIFICATION Spec
CONSTANTS
  Globals = {g1}
  Locals = {p, q}
  Enclosing = {o}
  Unit = "SUBPROC"
  MaxStmts = 3
  MaxDepth = 2
SYMMETRY Symmetry
INVARIANTS
  EscapesReported
  ReturnsReported
CHECK_DEADLOCK FALSE
