SPECIFICATION Spec
CONSTANTS
  SchemaIds <- MCSchemaIds
  SchemaName <- MCSchemaName
  FileSet <- MCFileSet
  Unparseable <- MCUnparseable
  NULL = NULL
INVARIANTS
  TypeOK
  OwnDescriptor
CHECK_DEADLOCK FALSE
