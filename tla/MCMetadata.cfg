SPECIFICATION Spec
CONSTANTS
  MaxTime = 4
  MaxNanos = 3
  Functions <- MCFunctions
  VectorSize = 2
  Channels <- MCChannels
  TopicOf <- MCTopicOf
  Counts <- MCCounts
  Indexes <- MCIndexes
  ChunkOf <- MCChunkOf
  ChannelOf <- MCChannelOf
  TimesOf <- MCTimesOf
  Schemas = {1, 2, 3}
  Attachments = {1, 2}
  AttachmentTime <- MCAttachmentTime
  MetadataRecords = {1, 2, 3}
  Keys <- MCKeys
  FileTimes <- MCFileTimes
INVARIANTS
  TypeOK
  RangesExact
  EveryRecordOnce
  AllReturned
