SPECIFICATION FairSpec
CONSTANTS
  Timeout = 1
  WriteDepth = 2
  ReadDepth = 2
  Tags = 2
  Junk = Junk
INVARIANT TypeOK
PROPERTIES
  TxKept
  RxKept
  TxServed
  RxServed
