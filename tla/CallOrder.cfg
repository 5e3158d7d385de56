SPECIFICATION Spec
CONSTANTS
  f = f
  g = g
  h = h
  Names = {f, g, h, sys}
  Declared <- DeclaredNames
  MaxOut = 2
  MaxCalls = 4
INVARIANTS
  RecursionExact
  CalleesFirst
PROPERTY SearchesEnd
CHECK_DEADLOCK FALSE
