SPECIFICATION Spec
CONSTANTS
  SimpleKeyLimit = 6
  MaxChunks = 1
  Files <- MCFiles
  StrictFiles <- MCStrictFiles
INVARIANT ErrorLinesOneBased
