SPECIFICATION Spec
CONSTANTS
  Names = {f, g, h, k, m}
  Dots = Dots
  MaxCalls = 5
  MaxParts = 3
SYMMETRY Symmetry
PROPERTY KeepsPromise
PROPERTY ShortestLegs
PROPERTY Answered
CHECK_DEADLOCK FALSE
