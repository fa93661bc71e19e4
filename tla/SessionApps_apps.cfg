SPECIFICATION AppsFairSpec
CONSTANTS
  Ips = {ip1}
  NoIp = NoIp
  Keys = {k1}
  NoKey = NoKey
  Channels = {2}
  Stereo = 2
  MaxSessions = 2
  MaxMedia = 2
  Peers = {}
INVARIANTS
  AppsTypeOK
PROPERTIES
  LeakOnlyInLaunchWindow
  PlayLaunchesAlone
  KnownAppDies
  HandlersReturn
CHECK_DEADLOCK FALSE
