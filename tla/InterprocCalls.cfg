SPECIFICATION Spec
CONSTANTS
  Procs = {f}
  System = {sys}
  p = p
  q = q
  x = x
  g = g
  ParamNames <- Names2
  References = {p}
  Locals = {x}
  Keys <- State
  Enclosing = {y}
  Globals <- Shadowed
  MaxSummary = 2
  MaxStmts = 3
  MaxDepth = 2
INVARIANTS
  TypeOK
  LeaksFlagged
  SummaryExact
  CallsReported
  EscapesReported
CHECK_DEADLOCK FALSE
ACTION_CONSTRAINT
  Seen
