SPECIFICATION Spec
CONSTANTS
  Idents = {x, y}
  Nobody = nobody
  MaxDecls = 3
  MaxProcs = 2
  MaxSubs = 2
INVARIANTS
  AddressesJudged
  OverlaysJudged
CHECK_DEADLOCK FALSE
SYMMETRY Symmetry
