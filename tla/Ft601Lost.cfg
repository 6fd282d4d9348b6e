SPECIFICATION HostSpec
CONSTANTS
  Timeout = 30
  WriteDepth = 2
  ReadDepth = 2
  Tags = 4
  Junk = Junk
INVARIANT HostInSync
