SPECIFICATION FairSpec
CONSTANTS
  MaxDiff = 4
  Repeat = 3
  MaxWrites = 4
  None = None
INVARIANTS
  TypeOK
  EventKept
PROPERTIES
  PatternWhole
  EventOnce
  EventReported
