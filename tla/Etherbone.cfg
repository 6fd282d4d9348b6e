SPECIFICATION FairSpec
CONSTANTS
  Addr = {0, 1}
  Value = {0, 1}
  Depth = 2
  Counts = {1, 2}
  MaxDown = 7
  MaxUp = 1
INVARIANTS
  TypeOK
  ReadMatches
  NoReplyLeft
  LengthAgrees
PROPERTY ReadEnds
