CONSTANTS
  AuthMethods = {"scram"}
  NQueries = 1
  MaxRows = 2
  MayDrop = FALSE
SPECIFICATION FairSpec
PROPERTIES
  ScramConnects
CHECK_DEADLOCK FALSE
