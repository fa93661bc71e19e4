SPECIFICATION Spec
CONSTANTS
  Ips = {ip1}
  NoIp = NoIp
  Keys = {k1}
  NoKey = NoKey
  Channels = {2}
  Stereo = 2
  MaxSessions = 2
  MaxMedia = 2
  Peers = {p1}
INVARIANT
  NoOrphanMedia
CHECK_DEADLOCK FALSE
