SPECIFICATION Spec
CONSTANTS
  Schemas <- MCSchemas
  SchemaName <- MCSchemaName
  SchemaText <- MCSchemaText
  Messages <- MCMessages
  GarbageByte = 3
  NULL = NULL
INVARIANTS
  TypeOK
  InBounds
  NeverMisread
  NullIsJustified
PROPERTY
  FollowsFormat
