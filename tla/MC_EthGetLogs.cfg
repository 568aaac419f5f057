CONSTANTS
  x1 = x1
  x2 = x2
  t1 = t1
  t2 = t2
  None = None
  BadHash = BadHash
  LogAddrs <- MCLogAddrs
  Topics <- MCTopics
  MaxLogTopics = 2
  MaxLogs = 1
  MaxFilterTopics = 2
  MaxHeaders = 3
  MaxNum = 3
  MaxParam = 3
  U32 = 4
  U64 = 8
  ReceiptsStored = {TRUE}
SYMMETRY Symmetry
SPECIFICATION Spec
INVARIANT RangeLogsExact
