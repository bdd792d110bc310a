SPECIFICATION Spec
CONSTANTS
  MaxTime = 3
  MaxNanos = 2
  VectorSize = 2
  Channels <- MCChannels
  Summary = {1, 2, 4, 5, 6}
  Schemas = {1}
  Logs <- MCLogs
INVARIANTS
  TypeOK
  RowPerMessage
  LoggedIsShown
