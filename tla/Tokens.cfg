SPECIFICATION Spec
CONSTANTS
  Sources <- Texts
INVARIANTS
  NothingSwallowed
  StreamFaithful
CHECK_DEADLOCK FALSE
