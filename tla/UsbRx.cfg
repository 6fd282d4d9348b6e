SPECIFICATION FairSpec
CONSTANTS
  Lengths = {1, 3}
  Timeout = 8
  MaxLost = 2
INVARIANTS
  TypeOK
  InStep
PROPERTY Recovers
