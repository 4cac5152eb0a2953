SPECIFICATION Spec
CONSTANTS
  Add <- MCAdd
  Programs <- MCPrograms
  Texts <- MCTexts
  Lines <- MCLines
  MaxLines = 3
  OverflowChecks = TRUE
  Letters <- MCLetters
  Alphabet <- MCAlphabet
  MaxNumber = 511
  MaxInt = 199
  Half = 16
  ByteMod = 32
  IntBytes = 2
  WideBytes = 4
  MemoryCells = 22
  SymbolsStart = 2
  HeapStart = 6
  HashCells = 2
  CellChars = 2
  StackCap = 3
  OpCap = 2
  InlineBuffer = 8
  InlineMax = 10
  HashBytes = 3
  NameMax = 8
INVARIANTS
  DocumentedRange
CHECK_DEADLOCK FALSE
