SPECIFICATION PushdownSpec
CONSTANTS
  MaxTime = 3
  MaxNanos = 2
  LogTimes <- MCLogTimes
  Nanos <- MCNanos
  OpaqueFits <- MCOpaqueFits
  MaxDepth = 2
  MaxChildren = 2
  Topics = {"a", "b"}
  MaxTopicDepth = 2
  MaxTopicChildren = 2
  ColumnLists <- MCColumnLists
  MaxFilterIndex = 2
INVARIANTS
  PushdownTypeOK
  Conservative
  TimeConservative
  TimeExact
  TopicConservative
  TopicNoStray
CHECK_DEADLOCK FALSE
