CONSTANTS
  Kinds = {"postgres", "mysql", "sqlite", "mongo"}
  AuthMethods = {"trust", "clear", "md5", "scram", "gss",
                 "native", "switch", "cached", "full", "busy",
                 "open", "scram3", "anonymous"}
  NQueries = 3
  MaxRows = 2
  MayDrop = TRUE
  FirstBatch = 1
  DoubleMax = 16
  PrintLimit = 100
  MaxTenths = 200
  Texts <- MCTexts
  ToBson <- TextToBson
  FromBson <- BsonToJson
SPECIFICATION FairSpec
INVARIANTS
  InStep
  CompleteOrError
  Delivered
  AnswerTrue
  Released
  DocumentsIntact
PROPERTIES
  Connects
  Returns
