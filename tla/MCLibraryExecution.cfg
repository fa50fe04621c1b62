CONSTANTS
  Nil = Nil
  Path <- MCPath
  Alias <- MCAlias
  Library <- MCLibrary
  RootLibrary = "root"
  Private <- MCPrivate
  DataValueDocs <- MCDataValueDocs
  SchemaDocs <- SchemaForChild
  FlagValues <- MCFlagValues
  SkipOptions <- MCSkipOptions
  MaxCalls = 3
  MaxRuns = 3
SPECIFICATION Spec
INVARIANTS MergePrecedence RepeatableEvaluation SkipIsInherited
PROPERTIES InstancesAreImmutable DeliversEnvelopes
CHECK_DEADLOCK FALSE
