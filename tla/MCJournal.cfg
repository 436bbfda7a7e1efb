SPECIFICATION MCLiveSpec
CONSTANTS
  None = None
  Entries <- MCEntries
  ChannelCap = 2
  PipeCap = 2
  MaxEntries = 5
  MaxPast = 1
INVARIANTS
  TypeOK
  EndMeansDrained
PROPERTIES
  ImplementsLineQueue
  MCPrintedIsReceived
CHECK_DEADLOCK FALSE
