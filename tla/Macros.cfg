SPECIFICATION Spec
CONSTANTS
  Idents = {"A", "B", "p", "q", "x"}
  Sources <- Programs
  Imports <- Imported
  MaxPasses = 6
INVARIANTS
  LinesKept
  SubstitutionExact
  Settled
CHECK_DEADLOCK FALSE
