SPECIFICATION Spec
CONSTANTS
  Ips = {ip1}
  NoIp = NoIp
  Keys = {k1}
  NoKey = NoKey
  Channels = {2, 6}
  Stereo = 2
  MaxSessions = 2
  MaxMedia = 2
  Peers = {p1}
INVARIANTS
  TypeOK
  Ownership
  SingleStopper
  LiveMediaIsOwned
PROPERTIES
  PublishIntoEmpty
  ImplementsLifecycle
  StaleStopSparesNewer
  ResumeNeverRelaunches
CHECK_DEADLOCK FALSE
