SPECIFICATION DSpec
CONSTANTS
  Base = base
  lib = lib
  SearchDirs <- IncludeDirs
  OtherDirs = {}
  FileNames = {m, a, b}
  MainName = m
  System = sys
  MaxImports = 2
  MaxTotal = 3
  MaxDecls = 2
INVARIANTS
  DTypeOK
  MergedOnce
  ImportsComplete
  NamesResolved
  CollectionComplete
  SearchesAgree
PROPERTIES
  NearestWins
  RunEnds
CHECK_DEADLOCK FALSE
