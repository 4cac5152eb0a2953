SPECIFICATION Spec
CONSTANTS
  OverflowChecks = FALSE
  Sources <- MCSources
  Keys <- MCKeys
  Paths <- MCPaths
  Inserts <- MCInserts
  Indexes <- MCIndexes
  MaxCalls = 3
  Messages <- MCMessages
  MaxMessages = 2
  LengthMod = 4
  HashSize = 3
INVARIANTS
  RoundTrips
