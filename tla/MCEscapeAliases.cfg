CONSTANTS
  Stmts <- MCAliases
SPECIFICATION Spec
INVARIANTS
  Sound
CHECK_DEADLOCK FALSE
