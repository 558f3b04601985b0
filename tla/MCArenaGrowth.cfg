CONSTANTS
  a1 = a1
  a2 = a2
  a3 = a3
  NoArena = NoArena
  Arenas = {a1}
  Asks <- MCAsks
  BlockUnits = 2
  MaxBlocks = 6
SPECIFICATION Spec
INVARIANTS
  BoundedMemory
CHECK_DEADLOCK FALSE
