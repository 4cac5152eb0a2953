SPECIFICATION Spec
CONSTANTS
  OverflowChecks = TRUE
  Sources <- MCSources
  Keys <- MCKeys
  Paths <- MCPaths
  Inserts <- MCInserts
  Indexes <- MCIndexes
  MaxCalls = 3
  Messages <- MCMessages
  MaxMessages = 2
  LengthMod = 4
  HashSize = 3
INVARIANTS
  LoadsWhatWasSaved
  StopsForAReason
  ReceivedAsSent
PROPERTIES
  IsTree
