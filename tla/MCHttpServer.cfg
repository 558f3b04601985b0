SPECIFICATION PoliteSpec
CONSTANTS
  c1 = c1
  c2 = c2
  c3 = c3
  c4 = c4
  Clients <- MCClients
  NoClient = NoClient
  Routed <- MCRouted
  WithBody <- MCWithBody
  Oversized <- MCOversized
  Replies <- UpToTwo
  MaxFds = 2
  PipeKills = TRUE
INVARIANTS
  TypeOK
  AnswersOwnRequest
  FieldsAgree
  NoConnectionLeak
PROPERTIES
  EveryoneServed
CHECK_DEADLOCK FALSE
