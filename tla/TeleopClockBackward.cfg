SPECIFICATION ClockSpec
CONSTANTS
  MaxSpeed = 1
  Requests <- MCRequests
  Deadman = 2
  Grace = 3
  Stall = 2
  AgeCap = 7
  Steps <- Backward
INVARIANT
  SilenceStops
