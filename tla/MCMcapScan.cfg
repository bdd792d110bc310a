SPECIFICATION Spec
CONSTANTS
  MaxTime = 6
  MaxNanos = 5
  NumFiles = 3
  ChunkStarts <- MCChunkStarts
  ChunksPerPartition = 2
  Pushdowns <- MCPushdowns
  Threads = {t1, t2, t3}
  VectorSize = 2
  Messages <- MCMessages
  FileOf <- MCFileOf
  LogTime <- MCLogTime
  TopicOf <- MCTopicOf
  Decoded = {1, 2, 5, 8}
SYMMETRY Symmetry
INVARIANTS
  TypeOK
  ExactlyOnce
  RetiresLast
  ProgressIsSound
  OwnDecoders
  PartitionsPartition
  PartitionsInWindow
  PartitionsAreSmall
PROPERTIES
  Implements
