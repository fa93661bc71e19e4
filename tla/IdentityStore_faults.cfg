SPECIFICATION FairSpec
CONSTANTS
  Clients = {c1, c2}
  MaxGen = 8
  MaxFaults = 3
  AllowNew = FALSE
INVARIANTS
  StoreInv
  LostOnlyUnsaved
PROPERTIES
  UuidStable
  Recovers
