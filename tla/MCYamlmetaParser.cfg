SPECIFICATION Spec
CONSTANTS
  SimpleKeyLimit = 6
  MaxChunks = 3
  Files <- MCFiles
  StrictFiles <- MCStrictFiles
INVARIANTS NoPanic ItemLinesInOrder CommentsFindTheirNode
PROPERTIES EventsSpec Terminates
