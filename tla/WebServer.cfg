SPECIFICATION ServerSpec
CONSTANTS
  MaxSpeed = 1
  Requests <- MCRequests
  Deadman = 1
  Grace = 2
  Stall = 1
  AgeCap = 4
  Clients = {c1, c2}
  NoClient = NoClient
  Lease = 3
SYMMETRY Sessions
INVARIANTS
  ServerTypeOK
  DriverHoldsLock
  LockHeldByOpenSession
  EstopFencesDrivers
  LapsedHolderStands
  NobodyInControlStands
PROPERTIES
  ImplementsExclusiveDrive
