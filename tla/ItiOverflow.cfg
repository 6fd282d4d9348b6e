SPECIFICATION Spec
CONSTANTS
  MaxDiff = 4
  Repeat = 3
  MaxWrites = 5
  None = None
INVARIANT OverflowOnce
