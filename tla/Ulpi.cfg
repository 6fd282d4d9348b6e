SPECIFICATION FairSpec
CONSTANTS
  Adr = {a1}
  Val = {v1, v2}
  RxDepth = 2
  TxDepth = 2
  CrossDepth = 1
  Junk = Junk
  None = None
INVARIANTS
  TypeOK
  WritesLand
  QuietRead
PROPERTY Returns
