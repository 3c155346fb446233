SPECIFICATION TeleopSpec
CONSTANTS
  MaxSpeed = 1
  Requests <- MCRequests
  Deadman = 5
  Grace = 3
  Stall = 2
  AgeCap = 10
INVARIANTS
  TypeOK
  DeadmanBound
  QuietMeansStopped
  StopBound
  EstopHoldsRegister
  ReportMatchesWire
