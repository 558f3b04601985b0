CONSTANTS
  a1 = a1
  a2 = a2
  a3 = a3
  NoArena = NoArena
  Arenas <- MCArenas
  Asks <- MCAsks
  BlockUnits = 2
  MaxBlocks = 2
SYMMETRY MCSymmetry
SPECIFICATION Spec
INVARIANTS
  TypeOK
  CurIsTop
  HeldIntact
  OneBlockIsEnough
CHECK_DEADLOCK FALSE
