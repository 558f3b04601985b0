CONSTANTS
  p1 = p1
  p2 = p2
  s1 = s1
  Projects = {p1, p2}
  Sessions = {s1}
  MaxFiles <- Bounds
SPECIFICATION Spec
INVARIANTS
  TypeOK
  MarkedOnlyIfRun
  TrackingAgrees
  InOrder
