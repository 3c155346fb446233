SPECIFICATION LockSpec
CONSTANTS
  Clients = {c1, c2, c3}
  NoClient = NoClient
  Lease = 20
INVARIANTS
  LockTypeOK
  LabelOfHolder
PROPERTIES
  NotStolen
  ImplementsLease
  SilentHolderLoses
