CONSTANTS
  m = m
  w1 = w1
  w2 = w2
  cj = cj
  cr = cr
  Nothing = Nothing
  Main = m
  jobs = cj
  results = cr
  NJobs = 4
  MaxSpurious = 1
  MaxFailed = 2
  Threads <- MCThreads
  Chans = {cj, cr}
  Values <- MCValues
  Asked <- MCAsked
SPECIFICATION FairSpec
INVARIANTS
  EachJobOnce
  AllJobsPrinted
  StuckOnlyWhenFull
PROPERTIES
  Finishes
CHECK_DEADLOCK FALSE
