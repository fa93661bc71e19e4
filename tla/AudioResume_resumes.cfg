SPECIFICATION FairSpec
CONSTANTS
  Sources = {s1, s2}
  NoSource = NoSource
  MaxMoves = 3
  MaxResumes = 2
  Layouts = {2, 6}
INVARIANT
  StreamInv
PROPERTY
  FreshPairAfterPlay
  ResumedIsHeard
CHECK_DEADLOCK FALSE
