SPECIFICATION UsbFairSpec
CONSTANTS
  Depth = 4
  Timeout = 5
  Tags = 8
  ReplyLengths = {1, 3}
  None = None
INVARIANTS
  UsbTypeOK
  HostInSync
  LengthAgrees
  PacketBacked
PROPERTIES
  CaptureInOrder
  Answered
  Flushed
