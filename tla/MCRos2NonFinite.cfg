SPECIFICATION Spec
CONSTANTS
  Schemas <- NonFiniteSchemas
  SchemaName <- NonFiniteSchemaName
  SchemaText <- NonFiniteSchemaText
  Messages <- NonFiniteMessages
  GarbageByte = 3
  NULL = NULL
INVARIANTS
  IsJson
