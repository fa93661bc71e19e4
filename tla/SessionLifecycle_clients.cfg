SPECIFICATION FairSpec
CONSTANTS
  Ips = {ip1, ip2}
  NoIp = NoIp
  Keys = {k1, k2, NoKey}
  NoKey = NoKey
  Channels = {2}
  Stereo = 2
  MaxSessions = 2
  MaxMedia = 1
  Peers = {}
INVARIANTS
  OneSessionPerClient
  AudioKeyFollowsResume
PROPERTIES
  RetiredMediaIsDestroyed
CHECK_DEADLOCK FALSE
