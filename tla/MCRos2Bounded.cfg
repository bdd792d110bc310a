SPECIFICATION Spec
CONSTANTS
  Schemas <- BoundedSchemas
  SchemaName <- BoundedSchemaName
  SchemaText <- BoundedSchemaText
  Messages <- BoundedMessages
  GarbageByte = 3
  NULL = NULL
INVARIANTS
  NeverMisread
