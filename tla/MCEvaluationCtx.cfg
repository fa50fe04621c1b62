CONSTANTS
  Kind <- MCKind
  SourceKey <- MCSourceKey
  Annotated <- MCAnnotated
  Templated <- MCTemplated
  Keys = {"a", "b"}
  Implicit = FALSE
  Values <- MCValues
  MaxNodes = 8
SPECIFICATION Spec
INVARIANTS ParentIsLatest NothingDropped ExecutionOrder UniqueKeys WellPlaced
CHECK_DEADLOCK FALSE
