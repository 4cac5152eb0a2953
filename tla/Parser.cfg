SPECIFICATION Spec
CONSTANTS
  Texts <- MCTexts
  Letters <- MCLetters
  WordMod = 256
  HeapCap = 20
  SymbolCap = 2
  NameCap = 2
  ParseCap = 3
  BaseCap = 3
INVARIANTS
  StacksAgree
  ReadsWellFormedText
  RefusesMalformedText
  ReadsWhatIsShown
CHECK_DEADLOCK FALSE
