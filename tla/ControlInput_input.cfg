SPECIFICATION FairSpec
CONSTANTS
  MaxPos = 3
  QuietTicks = 1
  HoldTicks = 3
  HomeTicks = 2
INVARIANTS
  InputInv
PROPERTIES
  PointerFollows
  ChordOutcomes
  HomeGoesUp
