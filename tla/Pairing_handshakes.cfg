SPECIFICATION FairSpec
CONSTANTS
  Devices = {"phone", "tv"}
  Ids = {"u1", "u2"}
  Ips = {"lan", "wan"}
  Homes <- MCHomes
  MaxAttempts = 3
INVARIANTS
  PagesInv
  PairedByItsPin
PROPERTY
  RequestsAreAnswered
CHECK_DEADLOCK FALSE
