SPECIFICATION Spec
CONSTANTS
  HeapRoom = 14
  StackRoom = 4
  SealBit = 16
  SystemSize = 0
  TableWords = 1
  Hash <- MCHash
  Blocks <- MCBlocks
  Strings <- MCStrings
  Sizes = {1}
  Symbols = {1, 2}
  Pairs <- MCPairs
  Pushes <- MCPushes
  Counts = {0, 2, 4}
PROPERTIES
  ImplementsStore
