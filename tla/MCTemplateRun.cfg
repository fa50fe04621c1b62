CONSTANTS
  NFiles = 3
  Plain <- MCPlain
  Overlay <- MCOverlay
  Path <- MCPath
  Data <- MCData
  Runs <- MCRuns
SPECIFICATION Spec
INVARIANTS OrderIndependent EditsInOrder KeptInPlace
  OutputFollowsMarks DirectoryIsOutput OldOrNew
PROPERTY WritesResult
CHECK_DEADLOCK FALSE
