SPECIFICATION Spec
CONSTANTS
  SchemaIds <- VersionIds
  SchemaName <- MCSchemaName
  FileSet <- MCFileSet
  Unparseable = {}
  NULL = NULL
INVARIANTS
  EmbeddedDescriptor
CHECK_DEADLOCK FALSE
