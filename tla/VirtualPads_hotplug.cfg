SPECIFICATION Spec
CONSTANTS
  Media = {m1, m2}
  Controllers = {0, 1}
  MaxMinors = 3
  MaxFailures = 2
  NoMedia = NoMedia
INVARIANTS
  PadsInv
PROPERTY
  OnlyOwnersRetract
