SPECIFICATION Spec
CONSTANTS
  Adr = {a1}
  Val = {v1, v2}
  RxDepth = 4
  TxDepth = 4
  CrossDepth = 4
  Junk = Junk
  None = None
INVARIANT ReadMatches
