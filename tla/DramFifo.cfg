SPECIFICATION FairSpec
CONSTANTS
  Ratio = 3
  CtrlDepth = 2
  Tags = 8
  None = None
INVARIANTS
  TypeOK
  BypassDrained
  GroupWhole
  WriteSlotReady
  ReadInTurn
  PointersAgree
PROPERTIES
  FifoOrder
  Delivered
