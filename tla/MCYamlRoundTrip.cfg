SPECIFICATION RoundTripSpec
CONSTANTS
  SimpleKeyLimit = 24
  KeyLimit = 3
  StringLimit = 2
  Files <- MCFiles
  StrictFiles <- MCFiles
  DocumentSets <- MCDocumentSets
INVARIANTS EmitterOK RoundTrip
