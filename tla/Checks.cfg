SPECIFICATION MainSpec
CONSTANTS
  Found <- RulesFound
  Cases <- Runs
  Literals <- Constants
INVARIANTS
  NothingHidden
  ExitHonest
  IndexesChecked
CHECK_DEADLOCK FALSE
