CONSTANTS
  Template = {"main", "lib"}
  Main = "main"
  Function = {"f", "g"}
  Home <- MCHome
  Programs <- MCPrograms
  MaxActivations = 7
SPECIFICATION Spec
INVARIANTS TypeOK Bracketed FragmentIsOwn NoPanic
CHECK_DEADLOCK FALSE
