SPECIFICATION FairReads
CONSTANTS
  MaxLogs = 4
  Capacity = 2
  NumRows = 3
  ChannelSize = 1
INVARIANTS TypeOK NoGoroutineLeft StreamTypeOK
PROPERTIES NoLogLost ReadEnds RowsInOrder ConnectionReturned LoopReturns
