CONSTANTS
  Stmts <- MCAliasFree
SPECIFICATION Spec
INVARIANTS
  Sound
CHECK_DEADLOCK FALSE
