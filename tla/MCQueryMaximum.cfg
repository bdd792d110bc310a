SPECIFICATION QuerySpec
CONSTANTS
  MaxTime = 3
  MaxNanos = 2
  LogTimes <- MCLogTimes
  Nanos <- MCNanos
  OpaqueFits <- MCOpaqueFits
  MaxDepth = 1
  MaxChildren = 2
  Topics = {"a", "b"}
  MaxTopicDepth = 1
  MaxTopicChildren = 2
  ColumnLists <- MCColumnLists
  MaxFilterIndex = 1
  NumFiles = 2
  ChunkStarts <- MCChunkStarts
  ChunksPerPartition = 1
  Pushdowns <- MCPushdowns
  Threads = {t1, t2}
  VectorSize = 2
  Messages <- MCMessages
  FileOf <- MCSmallFirstFileOf
  LogTime <- MCLogTime
  TopicOf <- MCTopicOf
  Decoded = {1, 3}
  MessageCounts <- MCSmallFirstCounts
INVARIANTS
  MaximumHolds
