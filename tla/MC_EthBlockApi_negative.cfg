CONSTANTS
  x1 = x1
  None = None
  BadHash = BadHash
  Junk = Junk
  Earliest = Earliest
  LatestTag = LatestTag
  Pending = Pending
  LogAddrs <- MCLogAddrs
  Topics <- MCTopics
  MaxLogTopics = 0
  MaxLogs = 0
  MaxFilterTopics = 0
  MaxHeaders = 4
  MaxNum = 4
  MaxParam = 5
  MinParam <- MCNegativeParam
  U32 = 4
  U64 = 8
  ReceiptsStored = {TRUE}
  ChainId = 1
SPECIFICATION BlockSpec
INVARIANT BlockByNumberExact
