SPECIFICATION PushdownSpec
CONSTANTS
  MaxTime = 4
  MaxNanos = 2
  LogTimes <- EpochLogTimes
  Nanos <- EpochNanos
  OpaqueFits <- MCOpaqueFits
  MaxDepth = 2
  MaxChildren = 2
  Topics = {"a", "b"}
  MaxTopicDepth = 2
  MaxTopicChildren = 2
  ColumnLists <- MCColumnLists
  MaxFilterIndex = 2
INVARIANTS
  Superset
CHECK_DEADLOCK FALSE
