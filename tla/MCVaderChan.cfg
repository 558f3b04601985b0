CONSTANTS
  t1 = t1
  t2 = t2
  t3 = t3
  c1 = c1
  v1 = v1
  v2 = v2
  Nothing = Nothing
  Threads <- MCThreads
  Chans = {c1}
  Values <- MCValues
  Asked <- MCAsked2
SPECIFICATION Spec
INVARIANTS
  TypeOK
  MutexInv
  RingInv
  NoLostWakeup
PROPERTIES
  ClosedForGood
  ImplementsChannel
