SPECIFICATION RtpSpec
CONSTANTS
  FrameSizes = {1, 3, 7, 11, 89, 90, 91, 92, 636, 638, 639, 1023}
  MaxFrames = 2
  FecPercent = 20
  MinRequired = 2
  VideoSeqMod = 1024
  AudioSeqMod = 8
  Window = 16
INVARIANTS
  NumberingInv
  DecodableUnlessPartlySkipped
  BlocksInv
CHECK_DEADLOCK FALSE
