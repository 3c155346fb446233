SPECIFICATION ConsoleSpec
CONSTANTS
  Pages = {"p"}
  Others = {other}
  Clients <- MCSessions
  NoClient = NoClient
  Connections = 2
  Backlog = 2
  Lease = 5
  PingPeriod = 2
  Block = 2
INVARIANTS
  ConsoleTypeOK
  LiveDriverKeeps
  BadgesHonest
PROPERTIES
  DriverKeepsUntil
