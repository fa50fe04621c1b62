CONSTANTS
  Template = {"main", "lib"}
  Main = "main"
  Function = {"f", "g"}
  Home <- MCHome
  Programs <- MCPrograms
  MaxActivations = 7
SPECIFICATION Spec
INVARIANT AllCtxsEnd
CHECK_DEADLOCK FALSE
