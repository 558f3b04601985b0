CONSTANTS
  m = m
  g1 = g1
  g2 = g2
  f1 = f1
  f2 = f2
  f3 = f3
  NTests = 2
  Funcs = {f1, f2, f3}
  NoFunc = NoFunc
  Main = m
  Goroutines = {g1}
  GoroutineFails = TRUE
  Gate = TRUE
  MinCov = 60
  CovMax = 2
  MaxCalls = 2
SPECIFICATION Spec
INVARIANTS
  TypeOK
  Isolated
  GreenMeansPassed
  ExitCodeRight
